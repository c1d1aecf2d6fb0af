---------------------------- MODULE ShenHeapProofs ----------------------------
(* Proofs about the collected heap (ShenHeap).  The page table is proved sound *)
(* for every geometry of the heap: the count of pages the collector's triggers *)
(* read is exact, and a released page carries no mark.                         *)
(*                                                                             *)
(* The state of gc.c is one record, and the calls of a step are operators from *)
(* heap to heap, so the proof follows the call graph: one lemma for each       *)
(* operator says that it keeps HeapOK and the two spaces (Keeps), and the      *)
(* lemma of an action only composes the lemmas of the operators it calls.  The *)
(* loops are recursive functions; that they exist and what they keep is shown  *)
(* by induction over the set of the rounds for which the claim holds.          *)
EXTENDS ShenHeap, NatLemmas

\* The static variables of gc.c that the model keeps.
HeapFields == {"mem", "heappages", "space", "type_page", "gc_link", "page_queued",
               "queue_head", "queue_tail", "nursery_cur", "current_space", "next_space",
               "freepage", "allocatedpages", "freep", "freewords", "in_scavenge", "exited",
               "reads_lost", "walks_lost", "holes"}

\* What stands at a header's address, and what is left there when it is forwarded.
HeaderType == [fwd : Nat, ty : Types, words : Nat, id : Nat, fields : Seq(Nat)]

\* Memory is made of headers, none of which is empty unless it is forwarded: a copy
\* takes room, and a walk advances.
Memory(h) ==
    /\ h.mem \in [DOMAIN h.mem -> HeaderType]
    /\ \A a \in DOMAIN h.mem : h.mem[a].fwd = Null => h.mem[a].words # 0
    /\ h.freep \in Nat /\ h.freewords \in Nat /\ h.nursery_cur \in Nat

\* The pages of the space that is being filled.
Filling(h) == {pg \in 1 .. h.heappages : h.space[pg] = h.next_space}

\* The page table: every page is free, of the nursery, or of one of the two spaces in
\* use; a continuation follows a page of its own space; the count is exact.
PageTable(h) ==
    /\ h.heappages \in Nat /\ NurseryPages < h.heappages
    /\ h.space \in [1 .. h.heappages -> {0, 1, 2, NURSERY}]
    /\ h.type_page \in [1 .. h.heappages -> {"OBJECT", "CONTINUED"}]
    /\ h.freepage \in 1 .. h.heappages
    /\ h.current_space \in {1, 2} /\ h.next_space \in {1, 2}
    /\ \A pg \in 1 .. h.heappages : h.space[pg] \in {0, h.current_space, h.next_space, NURSERY}
    /\ \A pg \in 1 .. h.heappages :
          h.type_page[pg] = "CONTINUED" => /\ pg > 1
                                           /\ h.space[pg] \in {1, 2}
                                           /\ h.space[pg - 1] = h.space[pg]
    /\ h.allocatedpages = Cardinality(Filling(h))

HeapOK(h) == DOMAIN h = HeapFields /\ Memory(h) /\ PageTable(h)

\* What the collector and the allocator keep of a heap h in the heap g they give.
Keeps(h, g) == /\ HeapOK(g)
               /\ g.current_space = h.current_space
               /\ g.next_space = h.next_space

\* Queueing a page changes only the queue's fields.
LEMMA queueKeeps ==
    ASSUME NEW h, HeapOK(h), NEW pg
    PROVE  Keeps(h, queue(h, pg))
<1> DEFINE g == queue(h, pg)
<1>1. DOMAIN g = HeapFields
  BY DEF queue, HeapOK
<1>2. /\ g.mem = h.mem /\ g.heappages = h.heappages /\ g.space = h.space
      /\ g.type_page = h.type_page /\ g.current_space = h.current_space
      /\ g.next_space = h.next_space /\ g.freepage = h.freepage
      /\ g.allocatedpages = h.allocatedpages /\ g.freep = h.freep /\ g.freewords = h.freewords
      /\ g.nursery_cur = h.nursery_cur
  BY DEF queue, HeapOK, HeapFields
<1>3. Memory(g)
  BY <1>2 DEF Memory, HeapOK
<1>4. PageTable(g)
  BY <1>2 DEF PageTable, HeapOK, Filling
<1>5. QED  BY <1>1, <1>2, <1>3, <1>4 DEF Keeps, HeapOK

\* The new pages of a heap that grows are free ones, without a mark.
LEMMA grow_heapKeeps ==
    ASSUME NEW h, HeapOK(h), NEW needed \in Nat
    PROVE  Keeps(h, grow_heap(h, needed))
<1> DEFINE n == Larger(2 * h.heappages, 2 * (h.allocatedpages + needed + GrowSlack))
           g == grow_heap(h, needed)
           Longer(f, zero) == [pg \in 1 .. n |-> IF pg <= h.heappages THEN f[pg] ELSE zero]
<1>1. CASE n > ReservedPages
  BY <1>1 DEF grow_heap, Keeps
<1>2. CASE ~(n > ReservedPages)
  <2>0. h.heappages \in Nat /\ h.allocatedpages \in Nat /\ GrowSlack \in Nat /\ h.heappages > 0
    <3>1. Filling(h) \subseteq 1 .. h.heappages /\ h.heappages \in Nat
      BY DEF HeapOK, PageTable, Filling
    <3>2. Cardinality(Filling(h)) \in Nat
      BY <3>1, BoundedFinite
    <3>3. QED  BY <3>2, HeapAssumption DEF HeapOK, PageTable
  <2>1. n \in Nat /\ n > h.heappages
    BY <2>0 DEF Larger
  <2> HIDE DEF n
  <2>2. g = [h EXCEPT !.heappages = n,
                      !.space = Longer(h.space, 0), !.gc_link = Longer(h.gc_link, 0),
                      !.type_page = Longer(h.type_page, "OBJECT"),
                      !.page_queued = Longer(h.page_queued, FALSE)]
    BY <1>2 DEF grow_heap, n
  <2> HIDE DEF Longer
  <2>3. DOMAIN g = HeapFields
    BY <2>2 DEF HeapOK
  <2>4. /\ g.mem = h.mem /\ g.heappages = n /\ g.space = Longer(h.space, 0)
        /\ g.type_page = Longer(h.type_page, "OBJECT") /\ g.current_space = h.current_space
        /\ g.next_space = h.next_space /\ g.freepage = h.freepage
        /\ g.allocatedpages = h.allocatedpages /\ g.freep = h.freep /\ g.freewords = h.freewords
        /\ g.nursery_cur = h.nursery_cur
    BY <2>2 DEF HeapOK, HeapFields
  <2> HIDE DEF g
  <2>5. Memory(g)
    BY <2>4 DEF Memory, HeapOK
  <2>6. /\ g.space \in [1 .. n -> {0, 1, 2, NURSERY}]
        /\ \A pg \in 1 .. n : g.space[pg] = IF pg <= h.heappages THEN h.space[pg] ELSE 0
        /\ g.type_page \in [1 .. n -> {"OBJECT", "CONTINUED"}]
        /\ \A pg \in 1 .. n : g.type_page[pg] = IF pg <= h.heappages THEN h.type_page[pg] ELSE "OBJECT"
    <3>1. /\ h.space \in [1 .. h.heappages -> {0, 1, 2, NURSERY}]
          /\ h.type_page \in [1 .. h.heappages -> {"OBJECT", "CONTINUED"}]
      BY DEF HeapOK, PageTable
    <3>2. \A pg \in 1 .. n : pg <= h.heappages => pg \in 1 .. h.heappages
      BY <2>0, <2>1
    <3>3. /\ g.space = [pg \in 1 .. n |-> IF pg <= h.heappages THEN h.space[pg] ELSE 0]
          /\ g.type_page = [pg \in 1 .. n |-> IF pg <= h.heappages THEN h.type_page[pg] ELSE "OBJECT"]
      BY <2>4 DEF Longer
    <3>4. \A pg \in 1 .. n : h.space[pg] \in {0, 1, 2, NURSERY} \/ ~(pg <= h.heappages)
      BY <3>1, <3>2
    <3>5. \A pg \in 1 .. n : h.type_page[pg] \in {"OBJECT", "CONTINUED"} \/ ~(pg <= h.heappages)
      BY <3>1, <3>2
    <3>6. /\ g.space \in [1 .. n -> {0, 1, 2, NURSERY}]
          /\ \A pg \in 1 .. n : g.space[pg] = IF pg <= h.heappages THEN h.space[pg] ELSE 0
      BY <3>3, <3>4
    <3>7. /\ g.type_page \in [1 .. n -> {"OBJECT", "CONTINUED"}]
          /\ \A pg \in 1 .. n : g.type_page[pg] = IF pg <= h.heappages THEN h.type_page[pg] ELSE "OBJECT"
      BY <3>3, <3>5
    <3>8. QED  BY <3>6, <3>7
  <2>7. Filling(g) = Filling(h)
    <3>1. \A pg \in 1 .. n : pg <= h.heappages <=> pg \in 1 .. h.heappages
      BY <2>0, <2>1
    <3>2. 1 .. h.heappages \subseteq 1 .. n
      BY <2>0, <2>1
    <3>3. h.next_space # 0
      BY DEF HeapOK, PageTable
    <3>4. QED  BY <2>4, <2>6, <3>1, <3>2, <3>3 DEF Filling
  <2>8. ASSUME NEW pg \in 1 .. n
        PROVE  /\ g.space[pg] \in {0, g.current_space, g.next_space, NURSERY}
               /\ g.type_page[pg] = "CONTINUED" =>
                     pg > 1 /\ g.space[pg] \in {1, 2} /\ g.space[pg - 1] = g.space[pg]
    <3>1. CASE pg <= h.heappages
      <4>1. pg \in 1 .. h.heappages /\ g.space[pg] = h.space[pg] /\ g.type_page[pg] = h.type_page[pg]
        BY <2>0, <2>1, <2>6, <3>1
      <4>2. pg > 1 => pg - 1 \in 1 .. n /\ g.space[pg - 1] = h.space[pg - 1]
        BY <2>0, <2>1, <2>6, <3>1
      <4>3. QED  BY <2>4, <4>1, <4>2 DEF HeapOK, PageTable
    <3>2. CASE ~(pg <= h.heappages)
      BY <2>6, <3>2
    <3>3. QED  BY <3>1, <3>2
  <2>9. PageTable(g)
    <3>1. /\ NurseryPages \in Nat /\ NurseryPages < h.heappages /\ h.freepage \in 1 .. h.heappages
          /\ h.current_space \in {1, 2} /\ h.next_space \in {1, 2}
          /\ h.allocatedpages = Cardinality(Filling(h))
      BY HeapAssumption DEF HeapOK, PageTable
    <3>2. NurseryPages < n /\ h.freepage \in 1 .. n
      BY <2>0, <2>1, <3>1
    <3>3. QED  BY <2>1, <2>4, <2>6, <2>7, <2>8, <3>1, <3>2 DEF PageTable
  <2>10. QED  BY <2>3, <2>4, <2>5, <2>9 DEF Keeps, HeapOK, g
<1>3. QED  BY <1>1, <1>2

\* The pages first to last can be taken.
Takeables(h, first, last) ==
    /\ first \in 1 .. h.heappages /\ last \in first .. h.heappages
    /\ \A pg \in first .. last : Takeable(h, pg)

\* Taking a run of takeable pages: what allocatedpages is raised by is the number of
\* pages that join the space being filled, none of which was in it before.
LEMMA TakePagesKeeps ==
    ASSUME NEW h, HeapOK(h), NEW first, NEW last, Takeables(h, first, last)
    PROVE  /\ Keeps(h, TakePages(h, first, last))
           /\ TakePages(h, first, last).freewords = (last - first + 1) * PageWords
<1> DEFINE q == IF h.current_space # h.next_space \/ h.in_scavenge THEN queue(h, first) ELSE h
           g == TakePages(h, first, last)
<1>0. /\ first \in Nat /\ last \in Nat /\ h.heappages \in Nat /\ first >= 1 /\ first <= last
      /\ last <= h.heappages /\ PageWords \in Nat
  BY HeapAssumption DEF Takeables, HeapOK, PageTable
<1>1. DOMAIN q = HeapFields /\ Memory(q) /\ PageTable(q)
      /\ q.space = h.space /\ q.heappages = h.heappages /\ q.next_space = h.next_space
      /\ q.current_space = h.current_space /\ q.type_page = h.type_page
      /\ q.allocatedpages = h.allocatedpages
  <2>1. Keeps(h, queue(h, first))
    BY queueKeeps
  <2>2. /\ queue(h, first).space = h.space /\ queue(h, first).heappages = h.heappages
        /\ queue(h, first).type_page = h.type_page
        /\ queue(h, first).allocatedpages = h.allocatedpages
    BY DEF queue, HeapOK, HeapFields
  <2>3. QED  BY <2>1, <2>2 DEF Keeps, HeapOK
<1>2. g = [q EXCEPT !.freep = PageStart(first),
              !.freewords = (last - first + 1) * PageWords,
              !.allocatedpages = q.allocatedpages + last - first + 1,
              !.freepage = next_page(h, last),
              !.space = [pg \in DOMAIN q.space |->
                            IF pg \in first .. last THEN h.next_space ELSE q.space[pg]],
              !.type_page = [pg \in DOMAIN q.type_page |->
                            IF pg = first THEN "OBJECT"
                            ELSE IF pg \in first .. last THEN "CONTINUED"
                            ELSE q.type_page[pg]]]
  BY DEF TakePages
<1> HIDE DEF q
<1>3. DOMAIN g = HeapFields
  BY <1>1, <1>2
<1>4. /\ g.mem = q.mem /\ g.heappages = h.heappages
      /\ g.current_space = h.current_space /\ g.next_space = h.next_space
      /\ g.freepage = next_page(h, last)
      /\ g.allocatedpages = h.allocatedpages + last - first + 1
      /\ g.freep = PageStart(first) /\ g.nursery_cur = q.nursery_cur
      /\ g.freewords = (last - first + 1) * PageWords
      /\ g.space = [pg \in DOMAIN q.space |->
                            IF pg \in first .. last THEN h.next_space ELSE q.space[pg]]
      /\ g.type_page = [pg \in DOMAIN q.type_page |->
                            IF pg = first THEN "OBJECT"
                            ELSE IF pg \in first .. last THEN "CONTINUED"
                            ELSE q.type_page[pg]]
  BY <1>1, <1>2 DEF HeapFields
<1> HIDE DEF g
<1>5. Memory(g)
  <2>1. g.freep \in Nat /\ g.freewords \in Nat
    BY <1>0, <1>4 DEF PageStart
  <2>2. QED  BY <1>1, <1>4, <2>1 DEF Memory
<1>6. /\ g.space \in [1 .. h.heappages -> {0, 1, 2, NURSERY}]
      /\ \A pg \in 1 .. h.heappages :
            g.space[pg] = IF pg \in first .. last THEN h.next_space ELSE h.space[pg]
      /\ g.type_page \in [1 .. h.heappages -> {"OBJECT", "CONTINUED"}]
      /\ \A pg \in 1 .. h.heappages :
            g.type_page[pg] = IF pg = first THEN "OBJECT"
                              ELSE IF pg \in first .. last THEN "CONTINUED"
                              ELSE h.type_page[pg]
  BY <1>1, <1>4 DEF HeapOK, PageTable
<1>7. first .. last \subseteq 1 .. h.heappages /\ \A pg \in first .. last : h.space[pg] = 0
  <2>1. first .. last \subseteq 1 .. h.heappages
    BY <1>0
  <2>2. QED  BY <2>1 DEF Takeables, Takeable, HeapOK, PageTable
<1>8. g.allocatedpages = Cardinality(Filling(g))
  <2>1. Filling(g) = Filling(h) \cup first .. last
    BY <1>4, <1>6, <1>7 DEF Filling
  <2>2. Filling(h) \cap (first .. last) = {}
    BY <1>7 DEF Filling, HeapOK, PageTable
  <2>3. IsFiniteSet(Filling(h)) /\ Cardinality(Filling(h)) \in Nat
    <3>1. Filling(h) \subseteq 1 .. h.heappages
      BY DEF Filling
    <3>2. QED  BY <1>0, <3>1, BoundedFinite
  <2>4. IsFiniteSet(first .. last) /\ Cardinality(first .. last) = last + 1 - first
    BY <1>0, IntervalCount
  <2>5. Cardinality(Filling(h) \cup first .. last)
          = Cardinality(Filling(h)) + Cardinality(first .. last)
    <3>1. Cardinality({}) = 0
      BY FS_EmptySet
    <3>2. Cardinality(Filling(h) \cup first .. last)
            = Cardinality(Filling(h)) + Cardinality(first .. last)
              - Cardinality(Filling(h) \cap (first .. last))
      BY <2>3, <2>4, FS_Union
    <3>3. Cardinality(Filling(h) \cap (first .. last)) = 0
      BY <2>2, <3>1
    <3> DEFINE c == Cardinality(Filling(h))
               u == Cardinality(Filling(h) \cup first .. last)
               i == Cardinality(first .. last)
    <3>4. c \in Nat /\ i \in Nat /\ u = c + i - 0
      BY <1>0, <2>3, <2>4, <3>2, <3>3
    <3> HIDE DEF c, u, i
    <3>5. u = c + i
      BY <3>4
    <3>6. QED  BY <3>5 DEF c, u, i
  <2>6. h.allocatedpages = Cardinality(Filling(h))
    BY DEF HeapOK, PageTable
  <2>7. QED  BY <1>0, <1>4, <2>1, <2>3, <2>4, <2>5, <2>6
<1>9. g.freepage \in 1 .. h.heappages
  BY <1>0, <1>4 DEF next_page, FirstPage
<1>10. ASSUME NEW pg \in 1 .. h.heappages
       PROVE  /\ g.space[pg] \in {0, h.current_space, h.next_space, NURSERY}
              /\ g.type_page[pg] = "CONTINUED" =>
                     pg > 1 /\ g.space[pg] \in {1, 2} /\ g.space[pg - 1] = g.space[pg]
  <2>1. g.space[pg] \in {0, h.current_space, h.next_space, NURSERY}
    BY <1>6 DEF HeapOK, PageTable
  <2>2. ASSUME g.type_page[pg] = "CONTINUED", pg \in first .. last
        PROVE  pg > 1 /\ g.space[pg] \in {1, 2} /\ g.space[pg - 1] = g.space[pg]
    <3>1. pg # first
      BY <2>2, <1>6
    <3>2. pg - 1 \in first .. last /\ pg - 1 \in 1 .. h.heappages /\ pg > 1
      BY <1>0, <2>2, <3>1
    <3>3. QED  BY <3>2, <2>2, <1>6 DEF HeapOK, PageTable
  <2>3. ASSUME g.type_page[pg] = "CONTINUED", pg \notin first .. last
        PROVE  pg > 1 /\ g.space[pg] \in {1, 2} /\ g.space[pg - 1] = g.space[pg]
    <3>1. pg # first
      BY <1>0, <2>3
    <3>2. h.type_page[pg] = "CONTINUED" /\ g.space[pg] = h.space[pg]
      BY <3>1, <2>3, <1>6
    <3>3. pg > 1 /\ h.space[pg] \in {1, 2} /\ h.space[pg - 1] = h.space[pg]
      BY <3>2 DEF HeapOK, PageTable
    <3>4. pg - 1 \in 1 .. h.heappages
      BY <1>0, <3>3
    <3>5. pg - 1 \notin first .. last
      BY <3>3, <1>7
    <3>6. QED  BY <3>2, <3>3, <3>4, <3>5, <1>6
  <2>4. QED  BY <2>1, <2>2, <2>3
<1>11. PageTable(g)
  BY <1>4, <1>6, <1>8, <1>9, <1>10 DEF HeapOK, PageTable
<1>12. QED  BY <1>3, <1>4, <1>5, <1>11 DEF Keeps, HeapOK, g

\* Every page the cyclic scan looks at is a page of the heap.
LEMMA VisitedPage ==
    ASSUME NEW h, HeapOK(h), NEW i \in Nat \ {0}
    PROVE  Visited(h, i) \in 1 .. h.heappages
<1>1. h.heappages \in Nat \ {0} /\ h.freepage \in 1 .. h.heappages
  BY HeapAssumption DEF HeapOK, PageTable
<1>2. h.freepage + i - 2 \in Nat
  BY <1>1
<1>3. (h.freepage + i - 2) % h.heappages \in 0 .. h.heappages - 1
  BY <1>1, <1>2, Remainder
<1>4. QED  BY <1>1, <1>3 DEF Visited

\* A run of n pages that the cyclic scan finds can be taken.
LEMMA FirstRunTakeable ==
    ASSUME NEW h, HeapOK(h), NEW n \in Nat \ {0}, RunsOf(h, n) # {}
    PROVE  Takeables(h, FirstRun(h, n) - n + 1, FirstRun(h, n))
<1>1. RunsOf(h, n) \subseteq Nat
  BY DEF RunsOf, HeapOK, PageTable
<1>2. \E j \in RunsOf(h, n) : \A k \in RunsOf(h, n) : j <= k
  <2> DEFINE S == RunsOf(h, n)
  <2> HIDE DEF S
  <2>1. S \subseteq Nat /\ S # {} => \E j \in S : \A k \in S : j <= k
    BY Minimum
  <2>2. QED  BY <1>1, <2>1 DEF S
<1> DEFINE i == CHOOSE j \in RunsOf(h, n) : \A k \in RunsOf(h, n) : j <= k
<1>3. i \in RunsOf(h, n) /\ FirstRun(h, n) = Visited(h, i)
  BY <1>2 DEF FirstRun
<1> HIDE DEF i
<1> DEFINE v == Visited(h, i)
<1>4. /\ i \in Nat \ {0} /\ v >= n
      /\ \A k \in 0 .. n - 1 : Takeable(h, v - k)
  BY <1>1, <1>3 DEF RunsOf, HeapOK, PageTable
<1>5. v \in 1 .. h.heappages /\ h.heappages \in Nat
  BY <1>4, VisitedPage DEF HeapOK, PageTable
<1> HIDE DEF v
<1>6. ASSUME NEW pg \in v - n + 1 .. v
      PROVE  Takeable(h, pg)
  <2>1. v - pg \in 0 .. n - 1 /\ v - (v - pg) = pg
    BY <1>4, <1>5
  <2>2. Takeable(h, v - (v - pg))
    BY <1>4, <2>1
  <2>3. QED  BY <2>1, <2>2
<1>7. v - n + 1 \in 1 .. h.heappages /\ v \in v - n + 1 .. h.heappages
  BY <1>4, <1>5
<1>8. QED  BY <1>3, <1>6, <1>7 DEF Takeables, v

\* The pages that are taken have room for an object that needs n of them.
LEMMA TakeRunKeeps ==
    ASSUME NEW h, HeapOK(h), NEW n \in Nat \ {0}
    PROVE  /\ Keeps(h, TakeRun(h, n))
           /\ TakeRun(h, n).exited \/ TakeRun(h, n).freewords = n * PageWords
<1>1. CASE RunsOf(h, n) = {}
  <2> DEFINE g == [h EXCEPT !.exited = TRUE]
  <2>1. TakeRun(h, n) = g
    BY <1>1 DEF TakeRun
  <2>2. DOMAIN g = HeapFields
    BY DEF HeapOK
  <2>3. /\ g.mem = h.mem /\ g.heappages = h.heappages /\ g.space = h.space
        /\ g.type_page = h.type_page /\ g.current_space = h.current_space
        /\ g.next_space = h.next_space /\ g.freepage = h.freepage
        /\ g.allocatedpages = h.allocatedpages /\ g.freep = h.freep /\ g.freewords = h.freewords
        /\ g.nursery_cur = h.nursery_cur
        /\ g.exited
    BY DEF HeapOK, HeapFields
  <2> HIDE DEF g
  <2>4. HeapOK(g)
    BY <2>2, <2>3 DEF HeapOK, Memory, PageTable, Filling
  <2>5. QED  BY <2>1, <2>3, <2>4 DEF Keeps
<1>2. CASE RunsOf(h, n) # {}
  <2> DEFINE v == FirstRun(h, n)
  <2>1. Takeables(h, v - n + 1, v)
    BY <1>2, FirstRunTakeable
  <2>2. TakeRun(h, n) = TakePages(h, v - n + 1, v)
    BY <1>2 DEF TakeRun
  <2>3. v \in Int
    BY <2>1 DEF Takeables, HeapOK, PageTable
  <2> HIDE DEF v
  <2>4. v - (v - n + 1) + 1 = n
    BY <2>3
  <2>5. QED  BY <2>1, <2>2, <2>4, TakePagesKeeps
<1>3. QED  BY <1>1, <1>2

\* allocatepage, grown or not: the pages taken have room for what was asked for, or
\* the program has exited.
LEMMA allocatepageKeeps ==
    ASSUME NEW h, HeapOK(h), NEW n \in Nat \ {0}, NEW retried
    PROVE  LET g == allocatepage(h, n, retried)
           IN  Keeps(h, g) /\ (g.exited \/ g.freewords = n * PageWords)
<1> DEFINE w == IF RunsOf(h, n) = {} /\ ~retried THEN grow_heap(h, n) ELSE h
<1>1. Keeps(h, w)
  BY grow_heapKeeps DEF Keeps
<1>2. HeapOK(w)
  BY <1>1 DEF Keeps
<1>3. allocatepage(h, n, retried) = TakeRun(w, n)
  BY DEF allocatepage
<1> HIDE DEF w
<1>4. QED  BY <1>1, <1>2, <1>3, TakeRunKeeps DEF Keeps


\* A step that leaves the page table and the nursery's cursor alone.
SameTable(h, g) ==
    /\ DOMAIN g = HeapFields
    /\ g.heappages = h.heappages /\ g.space = h.space /\ g.type_page = h.type_page
    /\ g.current_space = h.current_space /\ g.next_space = h.next_space
    /\ g.freepage = h.freepage /\ g.allocatedpages = h.allocatedpages
    /\ g.nursery_cur = h.nursery_cur

\* A step that leaves the page table alone has only the memory to answer for.
LEMMA SameTableKeeps ==
    ASSUME NEW h, HeapOK(h), NEW g, SameTable(h, g), Memory(g)
    PROVE  Keeps(h, g)
<1>1. PageTable(g)
  BY DEF PageTable, SameTable, HeapOK, Filling
<1>2. QED  BY <1>1 DEF Keeps, HeapOK, SameTable

\* What may stand at a header's place.
Written(o) == o \in HeaderType /\ (o.fwd = Null => o.words # 0)

MemoryWritten(m) == m \in [DOMAIN m -> HeaderType] /\ \A a \in DOMAIN m : Written(m[a])

\* Writing an object over others leaves a memory of headers.
LEMMA PutWrites ==
    ASSUME NEW m, MemoryWritten(m), NEW a, NEW o, Written(o)
    PROVE  MemoryWritten(Put(m, a, o)) /\ a \in DOMAIN Put(m, a, o) /\ Put(m, a, o)[a] = o
<1> DEFINE D == (DOMAIN m \ (a .. a + o.words - 1)) \cup {a}
<1>1. Put(m, a, o) = [b \in D |-> IF b = a THEN o ELSE m[b]]
  BY DEF Put
<1>2. \A b \in D : b = a \/ b \in DOMAIN m
  OBVIOUS
<1>3. a \in D
  OBVIOUS
<1> HIDE DEF D
<1>4. QED  BY <1>1, <1>2, <1>3 DEF MemoryWritten, Written

\* A page is closed with a filler, which is never empty.
LEMMA FinalizeKeeps ==
    ASSUME NEW h, HeapOK(h)
    PROVE  /\ Keeps(h, Finalize(h)) /\ SameTable(h, Finalize(h))
           /\ Finalize(h).freewords = 0 /\ Finalize(h).freep = h.freep
           /\ Finalize(h).exited = h.exited
<1>1. CASE h.freewords = 0
  BY <1>1 DEF Finalize, Keeps, HeapOK, SameTable
<1>2. CASE h.freewords # 0
  <2> DEFINE o == Filler(h.freewords)
             m == Put(h.mem, h.freep, o)
             g == [h EXCEPT !.mem = m, !.freewords = 0]
  <2>1. Finalize(h) = g
    BY <1>2 DEF Finalize
  <2>2. Written(o)
    <3>1. h.freewords \in Nat /\ 0 \in Nat /\ <<>> \in Seq(Nat) /\ "RAW" \in Types /\ Null \in Nat
      BY DEF HeapOK, Memory, Types, Null
    <3>2. o = [fwd |-> Null, ty |-> "RAW", words |-> h.freewords, id |-> 0, fields |-> <<>>]
      BY DEF Filler, Header
    <3> HIDE DEF o
    <3>3. o \in HeaderType /\ o.words = h.freewords
      BY <3>1, <3>2 DEF HeaderType
    <3>4. QED  BY <1>2, <3>3 DEF Written
  <2>3. MemoryWritten(h.mem)
    BY DEF Written, MemoryWritten, HeapOK, Memory
  <2> HIDE DEF o
  <2>4. MemoryWritten(m)
    BY <2>2, <2>3, PutWrites
  <2> HIDE DEF m
  <2>5. SameTable(h, g) /\ g.mem = m /\ g.freewords = 0 /\ g.freep = h.freep /\ g.exited = h.exited
    BY DEF SameTable, HeapOK, HeapFields
  <2> HIDE DEF g
  <2>6. Memory(g)
    BY <2>4, <2>5 DEF Memory, HeapOK, Written, MemoryWritten, SameTable
  <2>7. QED  BY <2>1, <2>5, <2>6, SameTableKeeps
<1>3. QED  BY <1>1, <1>2

\* An object is placed where there is room for it.
LEMMA PlaceKeeps ==
    ASSUME NEW h, HeapOK(h), NEW o, Written(o), h.exited \/ o.words <= h.freewords
    PROVE  Keeps(h, Place(h, o)) /\ SameTable(h, Place(h, o))
<1>1. CASE h.exited
  BY <1>1 DEF Place, Keeps, HeapOK, SameTable
<1>2. CASE ~h.exited
  <2> DEFINE m == Put(h.mem, h.freep, o)
             left == IF o.words < PageWords THEN h.freewords - o.words ELSE 0
             g == [h EXCEPT !.mem = m, !.freep = h.freep + o.words, !.freewords = left]
  <2>1. Place(h, o) = g
    BY <1>2 DEF Place
  <2>2. MemoryWritten(h.mem)
    BY DEF Written, MemoryWritten, HeapOK, Memory
  <2>3. MemoryWritten(m)
    BY <2>2, PutWrites
  <2>4. left \in Nat /\ h.freep + o.words \in Nat
    BY <1>2 DEF HeapOK, Memory, Written, HeaderType
  <2> HIDE DEF m, left
  <2>5. SameTable(h, g) /\ g.mem = m /\ g.freewords = left /\ g.freep = h.freep + o.words
    BY DEF SameTable, HeapOK, HeapFields
  <2> HIDE DEF g
  <2>6. Memory(g)
    BY <2>3, <2>4, <2>5 DEF Memory, HeapOK, Written, MemoryWritten, SameTable
  <2>7. QED  BY <2>1, <2>5, <2>6, SameTableKeeps
<1>3. QED  BY <1>1, <1>2

\* Whatever is asked for, there is room afterwards, or the program has exited.
LEMMA RoomyKeeps ==
    ASSUME NEW h, HeapOK(h), NEW words \in Nat \ {0}
    PROVE  LET g == Roomy(h, words)
           IN  Keeps(h, g) /\ (g.exited \/ words <= g.freewords)
<1>1. CASE words <= h.freewords
  BY <1>1 DEF Roomy, Keeps
<1>2. CASE ~(words <= h.freewords)
  <2>1. Roomy(h, words) = allocatepage(Finalize(h), PagesFor(words), FALSE)
    BY <1>2 DEF Roomy
  <2>2. PagesFor(words) \in Nat \ {0} /\ words <= PagesFor(words) * PageWords
    BY HeapAssumption, DivisionUp DEF PagesFor
  <2>3. Keeps(h, Finalize(h)) /\ HeapOK(Finalize(h))
    BY FinalizeKeeps DEF Keeps
  <2> DEFINE n == PagesFor(words)
             f == Finalize(h)
             g == allocatepage(f, n, FALSE)
  <2>4. HeapOK(f) /\ n \in Nat \ {0}
    BY <2>2, <2>3
  <2>5. Keeps(f, g) /\ (g.exited \/ g.freewords = n * PageWords)
    BY <2>4, allocatepageKeeps
  <2>6. words <= n * PageWords /\ Roomy(h, words) = g /\ Keeps(h, f)
    BY <2>1, <2>2, <2>3
  <2> HIDE DEF n, f, g
  <2>7. Keeps(h, g) /\ (g.exited \/ words <= g.freewords)
    BY <2>5, <2>6 DEF Keeps
  <2>8. QED  BY <2>6, <2>7
<1>3. QED  BY <1>1, <1>2

\* A copy and the forwarding left behind are both headers.
LEMMA move_internalKeeps ==
    ASSUME NEW h, HeapOK(h), NEW p, p - 1 \in DOMAIN h.mem, h.mem[p - 1].fwd = Null
    PROVE  Keeps(h, move_internal(h, p).h) /\ move_internal(h, p).p \in Nat
<1> DEFINE o == h.mem[p - 1]
           g == Roomy(h, o.words)
           w == Place(g, o)
           f == Forwarding(g.freep + 1)
           r == [w EXCEPT !.mem[p - 1] = f]
<1>1. Written(o) /\ o.words \in Nat \ {0}
  BY DEF Written, HeapOK, Memory, HeaderType
<1>2. Keeps(h, g) /\ (g.exited \/ o.words <= g.freewords)
  BY <1>1, RoomyKeeps
<1>3. HeapOK(g) /\ g.freep \in Nat
  BY <1>2 DEF Keeps, HeapOK, Memory
<1>4. Keeps(g, w)
  BY <1>1, <1>2, <1>3, PlaceKeeps
<1>5. HeapOK(w)
  BY <1>4 DEF Keeps
<1>6. move_internal(h, p) = [h |-> r, p |-> g.freep + 1]
  BY DEF move_internal, CopyTo
<1>7. Written(f)
  <2>1. /\ 0 \in Nat /\ <<>> \in Seq(Nat) /\ "RAW" \in Types
        /\ g.freep + 1 \in Nat /\ g.freep + 1 # Null
    BY <1>3 DEF Types, Null
  <2>2. f = [fwd |-> g.freep + 1, ty |-> "RAW", words |-> 0, id |-> 0, fields |-> <<>>]
    BY DEF Forwarding, Header
  <2> HIDE DEF f, g
  <2>3. f \in HeaderType /\ f.fwd = g.freep + 1
    BY <2>1, <2>2 DEF HeaderType
  <2>4. QED  BY <2>1, <2>3 DEF Written
<1> HIDE DEF o, g, w, f
<1>8. SameTable(w, r) /\ r.mem = [w.mem EXCEPT ![p - 1] = f]
      /\ r.freewords = w.freewords /\ r.freep = w.freep
  BY <1>5 DEF SameTable, HeapOK, HeapFields
<1> HIDE DEF r
<1>9. Memory(r)
  BY <1>5, <1>7, <1>8 DEF Memory, HeapOK, Written, SameTable
<1>10. Keeps(w, r)
  BY <1>5, <1>8, <1>9, SameTableKeeps
<1>11. QED  BY <1>2, <1>3, <1>4, <1>6, <1>10 DEF Keeps

\* gc_move, whichever way it goes, gives a heap and an address.
LEMMA gc_moveKeeps ==
    ASSUME NEW h, HeapOK(h), NEW p \in Nat
    PROVE  Keeps(h, gc_move(h, p).h) /\ gc_move(h, p).p \in Nat
<1>1. CASE gc_move(h, p) = [h |-> h, p |-> p]
  BY <1>1 DEF Keeps
<1>2. CASE gc_move(h, p) = [h |-> IF h.in_scavenge THEN queue(h, PageOf(p)) ELSE h, p |-> p]
  BY <1>2, queueKeeps DEF Keeps
<1>3. CASE gc_move(h, p) = [h |-> [h EXCEPT !.reads_lost = TRUE], p |-> p]
  <2> DEFINE g == [h EXCEPT !.reads_lost = TRUE]
  <2>1. SameTable(h, g) /\ g.mem = h.mem /\ g.freep = h.freep /\ g.freewords = h.freewords
    BY DEF SameTable, HeapOK, HeapFields
  <2> HIDE DEF g
  <2>2. Memory(g)
    BY <2>1 DEF Memory, HeapOK, SameTable
  <2>3. Keeps(h, g)
    BY <2>1, <2>2, SameTableKeeps
  <2>4. QED  BY <1>3, <2>3 DEF g
<1>4. CASE p - 1 \in DOMAIN h.mem /\ gc_move(h, p) = [h |-> h, p |-> h.mem[p - 1].fwd]
  BY <1>4 DEF Keeps, HeapOK, Memory, HeaderType
<1>5. CASE /\ p - 1 \in DOMAIN h.mem /\ h.mem[p - 1].fwd = Null
           /\ gc_move(h, p) = move_internal(h, p)
  BY <1>5, move_internalKeeps
<1>6. QED  BY <1>1, <1>2, <1>3, <1>4, <1>5 DEF gc_move

-----------------------------------------------------------------------------
\* gc_evacuate on the slots of a sequence, one after the other.
EvacuateBase(h) == [h |-> h, slots |-> <<>>]

Evacuates(f, h, slots, n) ==
    f = [i \in 0 .. n |-> IF i = 0 THEN EvacuateBase(h) ELSE EvacuateSlot(f[i - 1], slots[i])]

\* EvacuateAll is what its recursion says: there is a function whose value at n is
\* the state after the first n slots.
LEMMA EvacuateAllSteps ==
    ASSUME NEW h, NEW slots, Len(slots) \in Nat
    PROVE  \E f : Evacuates(f, h, slots, Len(slots)) /\ EvacuateAll(h, slots) = f[Len(slots)]
<1> DEFINE S == {n \in Nat : \E f : Evacuates(f, h, slots, n)}
<1>1. 0 \in S
  <2> DEFINE f == [i \in 0 .. 0 |-> EvacuateBase(h)]
  <2>1. Evacuates(f, h, slots, 0)
    BY DEF Evacuates
  <2>2. QED  BY <2>1
<1>2. ASSUME NEW n \in 0 .. Len(slots) - 1, n \in S
      PROVE  n + 1 \in S
  <2>1. PICK f : Evacuates(f, h, slots, n)
    BY <1>2
  <2> DEFINE g == [i \in 0 .. n + 1 |-> IF i = n + 1 THEN EvacuateSlot(f[n], slots[n + 1]) ELSE f[i]]
  <2>2. DOMAIN f = 0 .. n
    BY <2>1 DEF Evacuates
  <2>3. ASSUME NEW i \in 0 .. n + 1
        PROVE  g[i] = IF i = 0 THEN EvacuateBase(h) ELSE EvacuateSlot(g[i - 1], slots[i])
    <3>1. CASE i = n + 1
      BY <3>1
    <3>2. CASE i \in 1 .. n
      <4>1. g[i] = f[i] /\ g[i - 1] = f[i - 1]
        BY <3>2
      <4>2. f[i] = EvacuateSlot(f[i - 1], slots[i])
        BY <2>1, <3>2 DEF Evacuates
      <4>3. QED  BY <3>2, <4>1, <4>2
    <3>3. CASE i = 0
      BY <2>1, <3>3 DEF Evacuates
    <3>4. QED  BY <3>1, <3>2, <3>3
  <2>4. Evacuates(g, h, slots, n + 1)
    BY <2>3 DEF Evacuates
  <2>5. n + 1 \in Nat
    OBVIOUS
  <2>6. QED  BY <2>4, <2>5
<1>3. 0 .. Len(slots) \subseteq S
  <2> HIDE DEF S
  <2>1. \A n \in 0 .. Len(slots) - 1 : n \in S => n + 1 \in S
    BY <1>2
  <2>2. QED  BY <1>1, <2>1, IntervalInduction
<1>4. \E f : Evacuates(f, h, slots, Len(slots))
  BY <1>3
<1> DEFINE done == CHOOSE f : Evacuates(f, h, slots, Len(slots))
<1>5. Evacuates(done, h, slots, Len(slots))
  BY <1>4
<1>6. EvacuateAll(h, slots) = done[Len(slots)]
  BY DEF EvacuateAll, Evacuates, EvacuateBase
<1>7. QED  BY <1>5, <1>6

\* Evacuating a sequence of slots gives a heap and as many addresses.
LEMMA EvacuateAllKeeps ==
    ASSUME NEW h, HeapOK(h), NEW slots \in Seq(Nat)
    PROVE  LET e == EvacuateAll(h, slots)
           IN  Keeps(h, e.h) /\ e.slots \in Seq(Nat) /\ Len(e.slots) = Len(slots)
<1>1. Len(slots) \in Nat /\ \A i \in 1 .. Len(slots) : slots[i] \in Nat
  OBVIOUS
<1>2. PICK f : Evacuates(f, h, slots, Len(slots)) /\ EvacuateAll(h, slots) = f[Len(slots)]
  BY <1>1, EvacuateAllSteps
<1> DEFINE S == {n \in 0 .. Len(slots) : Keeps(h, f[n].h) /\ f[n].slots \in Seq(Nat) /\ Len(f[n].slots) = n}
<1>3. 0 \in S
  <2>1. f[0] = EvacuateBase(h)
    BY <1>1, <1>2 DEF Evacuates
  <2>2. <<>> \in Seq(Nat) /\ Len(<<>>) = 0
    OBVIOUS
  <2>3. f[0].h = h /\ f[0].slots = <<>> /\ Keeps(h, h)
    BY <2>1 DEF EvacuateBase, Keeps
  <2>4. Keeps(h, f[0].h) /\ f[0].slots \in Seq(Nat) /\ Len(f[0].slots) = 0
    BY <2>2, <2>3
  <2>5. QED  BY <1>1, <2>4
<1>4. ASSUME NEW n \in 0 .. Len(slots) - 1, n \in S
      PROVE  n + 1 \in S
  <2>1. n + 1 \in 1 .. Len(slots) /\ n + 1 # 0 /\ (n + 1) - 1 = n /\ n + 1 \in 0 .. Len(slots)
    BY <1>1
  <2> DEFINE a == f[n]
             m == gc_move(a.h, slots[n + 1])
  <2>2. f[n + 1] = EvacuateSlot(a, slots[n + 1])
    BY <1>2, <2>1 DEF Evacuates
  <2>3. f[n + 1].h = m.h /\ f[n + 1].slots = Append(a.slots, m.p)
    BY <2>2 DEF EvacuateSlot, Evacuated
  <2>4. Keeps(h, a.h) /\ a.slots \in Seq(Nat) /\ Len(a.slots) = n
    BY <1>4
  <2>5. Keeps(a.h, m.h) /\ m.p \in Nat
    BY <1>1, <2>1, <2>4, gc_moveKeeps DEF Keeps
  <2> HIDE DEF a, m
  <2>6. Keeps(h, m.h)
    BY <2>4, <2>5 DEF Keeps
  <2>7. Append(a.slots, m.p) \in Seq(Nat) /\ Len(Append(a.slots, m.p)) = n + 1
    BY <2>4, <2>5
  <2>8. QED  BY <2>1, <2>3, <2>6, <2>7
<1>5. Len(slots) \in S
  <2> HIDE DEF S
  <2>1. \A n \in 0 .. Len(slots) - 1 : n \in S => n + 1 \in S
    BY <1>4
  <2>2. 0 .. Len(slots) \subseteq S
    BY <1>1, <1>3, <2>1, IntervalInduction
  <2>3. QED  BY <1>1, <2>2
<1>6. QED  BY <1>2, <1>5

\* The fields of an object are replaced by the addresses gc_move gives for them.
LEMMA drain_scan_objectKeeps ==
    ASSUME NEW h, HeapOK(h), NEW a \in DOMAIN h.mem
    PROVE  Keeps(h, drain_scan_object(h, a))
<1>1. CASE h.mem[a].ty = "RAW"
  BY <1>1 DEF drain_scan_object, Keeps
<1>2. CASE h.mem[a].ty # "RAW"
  <2> DEFINE e == EvacuateAll(h, h.mem[a].fields)
             g == [e.h EXCEPT !.mem[a].fields = e.slots]
  <2>1. h.mem[a].fields \in Seq(Nat)
    BY DEF HeapOK, Memory, HeaderType
  <2>2. Keeps(h, e.h) /\ e.slots \in Seq(Nat)
    BY <2>1, EvacuateAllKeeps
  <2>3. drain_scan_object(h, a) = g
    BY <1>2 DEF drain_scan_object, SetFields
  <2> HIDE DEF e
  <2>4. HeapOK(e.h)
    BY <2>2 DEF Keeps
  <2> DEFINE o == [e.h.mem[a] EXCEPT !.fields = e.slots]
  <2>5. /\ SameTable(e.h, g) /\ g.mem = [e.h.mem EXCEPT ![a] = o]
        /\ g.freep = e.h.freep /\ g.freewords = e.h.freewords
    BY <2>4, SMTT(30) DEF SameTable, HeapOK, HeapFields
  <2> HIDE DEF g
  <2>6. a \in DOMAIN e.h.mem => Written(o)
    BY <2>2, <2>4 DEF Written, HeapOK, Memory, HeaderType
  <2> HIDE DEF o
  <2>7. Memory(g)
    BY <2>4, <2>5, <2>6, ZenonT(60) DEF Memory, HeapOK, Written, SameTable
  <2>8. Keeps(e.h, g)
    BY <2>4, <2>5, <2>7, SameTableKeeps
  <2>9. QED  BY <2>2, <2>3, <2>8 DEF Keeps
<1>3. QED  BY <1>1, <1>2

-----------------------------------------------------------------------------
\* A walk over a page.
Walks(f, h, qpg, cp, n) ==
    f = [i \in 0 .. n |-> IF i = 0 THEN [h |-> h, cp |-> cp] ELSE WalkStep(f[i - 1], qpg)]

\* drain_walk_page is what its recursion says.
LEMMA drain_walk_pageSteps ==
    ASSUME NEW h, NEW qpg, NEW cp,
           0 \in Nat, PageWords \in Nat, 0 <= PageWords
    PROVE  \E f : Walks(f, h, qpg, cp, PageWords) /\ drain_walk_page(h, qpg, cp) = Walked(f[PageWords], qpg)
<1> DEFINE S == {n \in Nat : \E f : Walks(f, h, qpg, cp, n)}
<1>1. 0 \in S
  <2> DEFINE f == [i \in 0 .. 0 |-> [h |-> h, cp |-> cp]]
  <2>1. Walks(f, h, qpg, cp, 0)
    BY DEF Walks
  <2>2. QED  BY <2>1
<1>2. ASSUME NEW n \in 0 .. PageWords - 1, n \in S
      PROVE  n + 1 \in S
  <2>1. PICK f : Walks(f, h, qpg, cp, n)
    BY <1>2
  <2> DEFINE g == [i \in 0 .. n + 1 |->
                     IF i = n + 1 THEN WalkStep(f[n], qpg) ELSE f[i]]
  <2>2. DOMAIN f = 0 .. n
    BY <2>1 DEF Walks
  <2>3. ASSUME NEW i \in 0 .. n + 1
        PROVE  g[i] = IF i = 0 THEN [h |-> h, cp |-> cp] ELSE WalkStep(g[i - 1], qpg)
    <3>1. CASE i = n + 1
      BY <3>1
    <3>2. CASE i \in 0 + 1 .. n
      <4>1. g[i] = f[i] /\ g[i - 1] = f[i - 1]
        BY <3>2
      <4>2. f[i] = WalkStep(f[i - 1], qpg)
        BY <2>1, <3>2 DEF Walks
      <4>3. QED  BY <3>2, <4>1, <4>2
    <3>3. CASE i = 0
      BY <2>1, <3>3 DEF Walks
    <3>4. QED  BY <3>1, <3>2, <3>3
  <2>4. Walks(g, h, qpg, cp, n + 1)
    BY <2>3 DEF Walks
  <2>5. n + 1 \in Nat
    OBVIOUS
  <2>6. QED  BY <2>4, <2>5
<1>3. 0 .. PageWords \subseteq S
  <2> HIDE DEF S
  <2>1. \A n \in 0 .. PageWords - 1 : n \in S => n + 1 \in S
    BY <1>2
  <2>2. QED  BY <1>1, <2>1, IntervalInduction
<1>4. \E f : Walks(f, h, qpg, cp, PageWords)
  BY <1>3
<1> DEFINE done == CHOOSE f : Walks(f, h, qpg, cp, PageWords)
<1>5. Walks(done, h, qpg, cp, PageWords)
  BY <1>4
<1>6. drain_walk_page(h, qpg, cp) = Walked(done[PageWords], qpg)
  BY DEF drain_walk_page, Walks
<1>7. QED  BY <1>5, <1>6

\* One object of a page that is walked.
LEMMA WalkStepKeeps ==
    ASSUME NEW w, DOMAIN w = {"h", "cp"}, HeapOK(w.h), NEW qpg
    PROVE  LET v == WalkStep(w, qpg)
           IN  DOMAIN v = {"h", "cp"} /\ Keeps(w.h, v.h)
<1>1. CASE WalkEnds(w.h, qpg, w.cp)
  BY <1>1 DEF WalkStep, Keeps
<1>2. CASE ~WalkEnds(w.h, qpg, w.cp)
  <2>1. w.cp \in DOMAIN w.h.mem
    BY <1>2 DEF WalkEnds
  <2>2. Keeps(w.h, drain_scan_object(w.h, w.cp))
    BY <2>1, drain_scan_objectKeeps
  <2>3. QED  BY <1>2, <2>2 DEF WalkStep
<1>3. QED  BY <1>1, <1>2

\* A page that is walked, however many objects it turns out to hold.
LEMMA drain_walk_pageKeeps ==
    ASSUME NEW h, HeapOK(h), NEW qpg, NEW cp
    PROVE  LET v == drain_walk_page(h, qpg, cp)
           IN  DOMAIN v = {"h", "cp"} /\ Keeps(h, v.h)
<1>1. PageWords \in Nat
  BY HeapAssumption
<1>2. PICK f : Walks(f, h, qpg, cp, PageWords) /\ drain_walk_page(h, qpg, cp) = Walked(f[PageWords], qpg)
  BY <1>1, drain_walk_pageSteps
<1> DEFINE S == {n \in 0 .. PageWords : DOMAIN f[n] = {"h", "cp"} /\ Keeps(h, f[n].h)}
<1>3. 0 \in S
  <2>1. f[0] = [h |-> h, cp |-> cp]
    BY <1>1, <1>2 DEF Walks
  <2>2. f[0].h = h /\ DOMAIN f[0] = {"h", "cp"} /\ Keeps(h, h)
    BY <2>1 DEF Keeps
  <2>3. QED  BY <1>1, <2>2
<1>4. ASSUME NEW n \in 0 .. PageWords - 1, n \in S
      PROVE  n + 1 \in S
  <2>1. n + 1 \in 0 .. PageWords /\ n + 1 # 0 /\ (n + 1) - 1 = n
    BY <1>1
  <2> DEFINE a == f[n]
             b == f[n + 1]
  <2>2. b = WalkStep(a, qpg)
    BY <1>2, <2>1 DEF Walks
  <2>3. DOMAIN a = {"h", "cp"} /\ Keeps(h, a.h)
    BY <1>4
  <2> HIDE DEF a, b
  <2>4. DOMAIN b = {"h", "cp"} /\ Keeps(a.h, b.h)
    BY <2>2, <2>3, WalkStepKeeps DEF Keeps
  <2>5. DOMAIN b = {"h", "cp"} /\ Keeps(h, b.h)
    BY <2>3, <2>4 DEF Keeps
  <2>6. QED  BY <2>1, <2>5 DEF b
<1>5. PageWords \in S
  <2> HIDE DEF S
  <2>1. \A n \in 0 .. PageWords - 1 : n \in S => n + 1 \in S
    BY <1>4
  <2>2. 0 .. PageWords \subseteq S
    BY <1>1, <1>3, <2>1, IntervalInduction
  <2>3. QED  BY <1>1, <2>2
<1> DEFINE w == f[PageWords]
           lost == PageOf(w.cp) = qpg /\ w.cp # w.h.freep /\ qpg \notin w.h.holes
           g == [w.h EXCEPT !.walks_lost = w.h.walks_lost \/ lost]
<1>6. DOMAIN w = {"h", "cp"} /\ Keeps(h, w.h) /\ HeapOK(w.h)
  BY <1>5 DEF Keeps
<1> HIDE DEF w
<1>7. Walked(w, qpg) = [w EXCEPT !.h = g]
  BY DEF Walked
<1>8. /\ SameTable(w.h, g) /\ g.mem = w.h.mem
      /\ g.freep = w.h.freep /\ g.freewords = w.h.freewords
  BY <1>6 DEF SameTable, HeapOK, HeapFields
<1> HIDE DEF g
<1>9. Memory(g)
  BY <1>6, <1>8 DEF Memory, HeapOK, SameTable
<1>10. Keeps(w.h, g)
  BY <1>6, <1>8, <1>9, SameTableKeeps
<1>11. QED  BY <1>2, <1>6, <1>7, <1>10 DEF Keeps, w

-----------------------------------------------------------------------------
\* The remembered set, and the pages of an overflowed one.
Rescans(f, h, n) ==
    f = [i \in 0 .. n |-> IF i = 0 THEN h ELSE Rescan(f[i - 1], dirty_vectors[i])]

\* RescanVectors is what its recursion says.
LEMMA RescanVectorsSteps ==
    ASSUME NEW h,
           0 \in Nat, Len(dirty_vectors) \in Nat, 0 <= Len(dirty_vectors)
    PROVE  \E f : Rescans(f, h, Len(dirty_vectors)) /\ RescanVectors(h) = f[Len(dirty_vectors)]
<1> DEFINE S == {n \in Nat : \E f : Rescans(f, h, n)}
<1>1. 0 \in S
  <2> DEFINE f == [i \in 0 .. 0 |-> h]
  <2>1. Rescans(f, h, 0)
    BY DEF Rescans
  <2>2. QED  BY <2>1
<1>2. ASSUME NEW n \in 0 .. Len(dirty_vectors) - 1, n \in S
      PROVE  n + 1 \in S
  <2>1. PICK f : Rescans(f, h, n)
    BY <1>2
  <2> DEFINE g == [i \in 0 .. n + 1 |->
                     IF i = n + 1 THEN Rescan(f[n], dirty_vectors[n + 1]) ELSE f[i]]
  <2>2. DOMAIN f = 0 .. n
    BY <2>1 DEF Rescans
  <2>3. ASSUME NEW i \in 0 .. n + 1
        PROVE  g[i] = IF i = 0 THEN h ELSE Rescan(g[i - 1], dirty_vectors[i])
    <3>1. CASE i = n + 1
      BY <3>1
    <3>2. CASE i \in 0 + 1 .. n
      <4>1. g[i] = f[i] /\ g[i - 1] = f[i - 1]
        BY <3>2
      <4>2. f[i] = Rescan(f[i - 1], dirty_vectors[i])
        BY <2>1, <3>2 DEF Rescans
      <4>3. QED  BY <3>2, <4>1, <4>2
    <3>3. CASE i = 0
      BY <2>1, <3>3 DEF Rescans
    <3>4. QED  BY <3>1, <3>2, <3>3
  <2>4. Rescans(g, h, n + 1)
    BY <2>3 DEF Rescans
  <2>5. n + 1 \in Nat
    OBVIOUS
  <2>6. QED  BY <2>4, <2>5
<1>3. 0 .. Len(dirty_vectors) \subseteq S
  <2> HIDE DEF S
  <2>1. \A n \in 0 .. Len(dirty_vectors) - 1 : n \in S => n + 1 \in S
    BY <1>2
  <2>2. QED  BY <1>1, <2>1, IntervalInduction
<1>4. \E f : Rescans(f, h, Len(dirty_vectors))
  BY <1>3
<1> DEFINE done == CHOOSE f : Rescans(f, h, Len(dirty_vectors))
<1>5. Rescans(done, h, Len(dirty_vectors))
  BY <1>4
<1>6. RescanVectors(h) = done[Len(dirty_vectors)]
  BY DEF RescanVectors, Rescans
<1>7. QED  BY <1>5, <1>6

QueuesOld(f, h, n) ==
    f = [i \in NurseryPages .. n |-> IF i = NurseryPages THEN h ELSE QueueOld(f[i - 1], i)]

\* QueueAllOld is what its recursion says.
LEMMA QueueAllOldSteps ==
    ASSUME NEW h, NurseryPages \in Nat, h.heappages \in Nat, NurseryPages <= h.heappages
    PROVE  \E f : QueuesOld(f, h, h.heappages) /\ QueueAllOld(h) = f[h.heappages]
<1> DEFINE S == {n \in Nat : \E f : QueuesOld(f, h, n)}
<1>1. NurseryPages \in S
  <2> DEFINE f == [i \in NurseryPages .. NurseryPages |-> h]
  <2>1. QueuesOld(f, h, NurseryPages)
    BY DEF QueuesOld
  <2>2. QED  BY <2>1
<1>2. ASSUME NEW n \in NurseryPages .. h.heappages - 1, n \in S
      PROVE  n + 1 \in S
  <2>1. PICK f : QueuesOld(f, h, n)
    BY <1>2
  <2> DEFINE g == [i \in NurseryPages .. n + 1 |->
                     IF i = n + 1 THEN QueueOld(f[n], n + 1) ELSE f[i]]
  <2>2. DOMAIN f = NurseryPages .. n
    BY <2>1 DEF QueuesOld
  <2>3. ASSUME NEW i \in NurseryPages .. n + 1
        PROVE  g[i] = IF i = NurseryPages THEN h ELSE QueueOld(g[i - 1], i)
    <3>1. CASE i = n + 1
      BY <3>1
    <3>2. CASE i \in NurseryPages + 1 .. n
      <4>1. g[i] = f[i] /\ g[i - 1] = f[i - 1]
        BY <3>2
      <4>2. f[i] = QueueOld(f[i - 1], i)
        BY <2>1, <3>2 DEF QueuesOld
      <4>3. QED  BY <3>2, <4>1, <4>2
    <3>3. CASE i = NurseryPages
      BY <2>1, <3>3 DEF QueuesOld
    <3>4. QED  BY <3>1, <3>2, <3>3
  <2>4. QueuesOld(g, h, n + 1)
    BY <2>3 DEF QueuesOld
  <2>5. n + 1 \in Nat
    OBVIOUS
  <2>6. QED  BY <2>4, <2>5
<1>3. NurseryPages .. h.heappages \subseteq S
  <2> HIDE DEF S
  <2>1. \A n \in NurseryPages .. h.heappages - 1 : n \in S => n + 1 \in S
    BY <1>2
  <2>2. QED  BY <1>1, <2>1, IntervalInduction
<1>4. \E f : QueuesOld(f, h, h.heappages)
  BY <1>3
<1> DEFINE done == CHOOSE f : QueuesOld(f, h, h.heappages)
<1>5. QueuesOld(done, h, h.heappages)
  BY <1>4
<1>6. QueueAllOld(h) = done[h.heappages]
  BY DEF QueueAllOld, QueuesOld
<1>7. QED  BY <1>5, <1>6

\* The remembered vectors are scanned.
LEMMA RescanVectorsKeeps ==
    ASSUME NEW h, HeapOK(h), dirty_vectors \in Seq(Nat)
    PROVE  Keeps(h, RescanVectors(h))
<1> DEFINE last == Len(dirty_vectors)
<1>1. last \in Nat
  OBVIOUS
<1>2. PICK f : Rescans(f, h, last) /\ RescanVectors(h) = f[last]
  BY <1>1, RescanVectorsSteps
<1> HIDE DEF last
<1> DEFINE S == {n \in 0 .. last : Keeps(h, f[n])}
<1>3. 0 \in S
  BY <1>1, <1>2 DEF Rescans, Keeps
<1>4. ASSUME NEW n \in 0 .. last - 1, n \in S
      PROVE  n + 1 \in S
  <2>1. n + 1 \in 0 .. last /\ n + 1 # 0 /\ (n + 1) - 1 = n
    BY <1>1
  <2>2. f[n + 1] = Rescan(f[n], dirty_vectors[n + 1])
    BY <1>2, <2>1 DEF Rescans
  <2>3. HeapOK(f[n]) /\ Keeps(h, f[n])
    BY <1>4 DEF Keeps
  <2>4. Keeps(f[n], f[n + 1])
    BY <2>2, <2>3, drain_scan_objectKeeps DEF Rescan, Keeps
  <2>5. QED  BY <2>1, <2>3, <2>4 DEF Keeps
<1>5. last \in S
  <2> HIDE DEF S
  <2>1. \A n \in 0 .. last - 1 : n \in S => n + 1 \in S
    BY <1>4
  <2>2. 0 .. last \subseteq S
    BY <1>1, <1>3, <2>1, IntervalInduction
  <2>3. QED  BY <1>1, <2>2
<1>6. QED  BY <1>2, <1>5

\* Every old page is queued.
LEMMA QueueAllOldKeeps ==
    ASSUME NEW h, HeapOK(h)
    PROVE  Keeps(h, QueueAllOld(h))
<1> DEFINE last == h.heappages
<1>1. NurseryPages \in Nat /\ last \in Nat /\ NurseryPages <= last
  BY HeapAssumption DEF HeapOK, PageTable
<1>2. PICK f : QueuesOld(f, h, last) /\ QueueAllOld(h) = f[last]
  BY <1>1, QueueAllOldSteps
<1> HIDE DEF last
<1> DEFINE S == {n \in NurseryPages .. last : Keeps(h, f[n])}
<1>3. NurseryPages \in S
  BY <1>1, <1>2 DEF QueuesOld, Keeps
<1>4. ASSUME NEW n \in NurseryPages .. last - 1, n \in S
      PROVE  n + 1 \in S
  <2>1. n + 1 \in NurseryPages .. last /\ n + 1 # NurseryPages /\ (n + 1) - 1 = n
    BY <1>1
  <2>2. f[n + 1] = QueueOld(f[n], n + 1)
    BY <1>2, <2>1 DEF QueuesOld
  <2>3. HeapOK(f[n]) /\ Keeps(h, f[n])
    BY <1>4 DEF Keeps
  <2>4. Keeps(f[n], f[n + 1])
    BY <2>2, <2>3, queueKeeps DEF QueueOld, Keeps
  <2>5. QED  BY <2>1, <2>3, <2>4 DEF Keeps
<1>5. last \in S
  <2> HIDE DEF S
  <2>1. \A n \in NurseryPages .. last - 1 : n \in S => n + 1 \in S
    BY <1>4
  <2>2. NurseryPages .. last \subseteq S
    BY <1>1, <1>3, <2>1, IntervalInduction
  <2>3. QED  BY <1>1, <2>2
<1>6. QED  BY <1>2, <1>5

-----------------------------------------------------------------------------
\* The roots.

\* t is h with the tables of roots, after some of them were evacuated.
TableOK(h, t) ==
    /\ DOMAIN t = {"h", "shadow", "defuns", "values"}
    /\ Keeps(h, t.h)
    /\ t.shadow \in Seq(Nat) /\ t.defuns \in Seq(Nat) /\ t.values \in Seq(Nat)
    /\ Len(t.shadow) = Len(shadow)

\* A function over a sequence's domain is a sequence of that length.
LEMMA SequenceOverDomain ==
    ASSUME NEW s \in Seq(Nat), NEW r, DOMAIN r = DOMAIN s,
           r = [i \in DOMAIN r |-> r[i]], \A i \in DOMAIN r : r[i] \in Nat
    PROVE  r \in Seq(Nat) /\ Len(r) = Len(s)
<1>1. DOMAIN s = 1 .. Len(s) /\ Len(s) \in Nat
  OBVIOUS
<1>2. r \in [1 .. Len(s) -> Nat]
  BY <1>1
<1>3. QED  BY <1>1, <1>2

\* The slots of the defun table that are wanted are scanned, the others stay.
LEMMA ScanDefunsOK ==
    ASSUME NEW h, NEW t, TableOK(h, t), NEW wanted
    PROVE  TableOK(h, ScanDefuns(t, wanted))
<1> DEFINE o == Only(t.defuns, wanted)
           e == EvacuateAll(t.h, o)
           r == Rest(t.defuns, wanted, e.slots)
<1>1. o \in Seq(Nat) /\ Len(o) = Len(t.defuns) /\ HeapOK(t.h)
  <2>1. o = [i \in DOMAIN t.defuns |-> IF i \in wanted THEN t.defuns[i] ELSE Null]
    BY DEF Only
  <2>2. DOMAIN o = DOMAIN t.defuns /\ o = [i \in DOMAIN o |-> o[i]]
    BY <2>1
  <2>3. \A i \in DOMAIN o : o[i] \in Nat
    BY <2>1 DEF TableOK, Null
  <2> HIDE DEF o
  <2>4. QED  BY <2>2, <2>3, SequenceOverDomain DEF TableOK, Keeps
<1> HIDE DEF o
<1>2. Keeps(t.h, e.h) /\ e.slots \in Seq(Nat) /\ Len(e.slots) = Len(t.defuns)
  BY <1>1, EvacuateAllKeeps
<1>3. ScanDefuns(t, wanted) = [t EXCEPT !.h = e.h, !.defuns = r]
  BY DEF ScanDefuns, SetDefuns, o
<1> HIDE DEF e
<1>4. r \in Seq(Nat)
  <2>1. r = [i \in DOMAIN t.defuns |-> IF i \in wanted THEN e.slots[i] ELSE t.defuns[i]]
    BY DEF Rest
  <2>2. DOMAIN r = DOMAIN t.defuns /\ r = [i \in DOMAIN r |-> r[i]]
    BY <2>1
  <2>3. \A i \in DOMAIN t.defuns : e.slots[i] \in Nat /\ t.defuns[i] \in Nat
    BY <1>2 DEF TableOK
  <2>4. \A i \in DOMAIN r : r[i] \in Nat
    BY <2>1, <2>3
  <2> HIDE DEF r
  <2>5. QED  BY <2>2, <2>4, SequenceOverDomain DEF TableOK
<1> HIDE DEF r
<1>5. QED  BY <1>2, <1>3, <1>4 DEF TableOK, Keeps

\* The values table is scanned.
LEMMA ScanValuesOK ==
    ASSUME NEW h, NEW t, TableOK(h, t)
    PROVE  TableOK(h, ScanValues(t))
<1> DEFINE e == EvacuateAll(t.h, t.values)
<1>1. Keeps(t.h, e.h) /\ e.slots \in Seq(Nat)
  BY EvacuateAllKeeps DEF TableOK, Keeps
<1>2. ScanValues(t) = [t EXCEPT !.h = e.h, !.values = e.slots]
  BY DEF ScanValues, SetValues
<1> HIDE DEF e
<1>3. QED  BY <1>1, <1>2 DEF TableOK, Keeps

RootsTyped == /\ shadow \in Seq(Nat) /\ defuns \in Seq(Nat) /\ values \in Seq(Nat)
              /\ dirty_vectors \in Seq(Nat)

\* gc_scan_roots gives a heap and tables of addresses.
LEMMA gc_scan_rootsOK ==
    ASSUME NEW h, HeapOK(h), RootsTyped
    PROVE  TableOK(h, gc_scan_roots(h))
<1> DEFINE t == [h |-> h, shadow |-> shadow, defuns |-> defuns, values |-> values]
           e == EvacuateAll(h, shadow)
           s == SetShadow(t, e)
           wanted == IF h.in_scavenge THEN dirty_defuns ELSE DOMAIN defuns
<1>1. Keeps(h, e.h) /\ e.slots \in Seq(Nat) /\ Len(e.slots) = Len(shadow)
  BY EvacuateAllKeeps DEF RootsTyped
<1>2. s = [[t EXCEPT !.h = e.h] EXCEPT !.shadow = e.slots]
  BY DEF SetShadow
<1>3. gc_scan_roots(h) = ScanValues(ScanDefuns(s, wanted))
  BY DEF gc_scan_roots
<1> HIDE DEF e, wanted
<1>4. TableOK(h, s)
  <2>1. /\ DOMAIN s = {"h", "shadow", "defuns", "values"}
        /\ s.h = e.h /\ s.shadow = e.slots /\ s.defuns = defuns /\ s.values = values
    BY <1>2
  <2> HIDE DEF s
  <2>2. QED  BY <1>1, <2>1 DEF TableOK, RootsTyped
<1>5. QED  BY <1>3, <1>4, ScanDefunsOK, ScanValuesOK

-----------------------------------------------------------------------------
\* The invariant.

\* A collection that promotes, or that scavenges, copies into the space the machine
\* allocates in; a full one copies into the other space.
Spaces == /\ gc.kind \in {"none", "nursery", "full"} /\ gc.promote \in BOOLEAN
          /\ gc.promote => gc.kind = "full"
          /\ heap.next_space = IF gc.kind = "full" /\ ~gc.promote
                                 THEN 3 - heap.current_space ELSE heap.current_space

GcTyped == DOMAIN gc = {"kind", "at", "promote", "defer_pg", "defer_cp"}

ReqFields == {"at", "ty", "words", "n", "init", "barriered", "id", "tried", "retried"}

ReqTyped == \/ req = NoReq
            \/ /\ DOMAIN req = ReqFields
               /\ req.words \in Nat \ {0} /\ req.ty \in Types /\ req.id \in Nat
               /\ req.n \in Nat /\ req.init \in [1 .. req.n -> 0 .. Len(shadow)]

\* The inductive invariant.
IInv == HeapOK(heap) /\ RootsTyped /\ GcTyped /\ Spaces /\ ReqTyped

\* The heap gc_init leaves: the nursery is tagged, every other page is free.
LEMMA InitHolds == Init => IInv
<1> SUFFICES ASSUME Init
             PROVE  IInv
  OBVIOUS
<1>1. /\ InitPages \in Nat /\ NurseryPages \in Nat \ {0} /\ NurseryPages < InitPages
      /\ PageWords \in Nat /\ NDefuns \in Nat /\ NValues \in Nat
  BY HeapAssumption
<1>2. DOMAIN heap = HeapFields
  BY DEF Init, InitHeap, HeapFields
<1>3. /\ heap.mem = << >> /\ heap.heappages = InitPages /\ heap.freepage = FirstPage + NurseryPages
      /\ heap.space = [pg \in 1 .. InitPages |-> IF pg <= NurseryPages THEN NURSERY ELSE 0]
      /\ heap.type_page = [pg \in 1 .. InitPages |-> "OBJECT"]
      /\ heap.current_space = 1 /\ heap.next_space = 1 /\ heap.allocatedpages = 0
      /\ heap.freep = 0 /\ heap.freewords = 0 /\ heap.nursery_cur = PageStart(FirstPage)
  BY DEF Init, InitHeap
<1>4. Memory(heap)
  <2>1. PageStart(FirstPage) \in Nat
    BY <1>1 DEF PageStart, FirstPage
  <2>2. DOMAIN heap.mem = {} /\ heap.mem = [a \in DOMAIN heap.mem |-> heap.mem[a]]
    BY <1>3
  <2>3. QED  BY <1>3, <2>1, <2>2 DEF Memory
<1>5. Filling(heap) = {}
  BY <1>3 DEF Filling, NURSERY
<1>6. PageTable(heap)
  <2>1. heap.allocatedpages = Cardinality(Filling(heap))
    BY <1>3, <1>5, FS_EmptySet
  <2>2. \A pg \in 1 .. InitPages : heap.space[pg] \in {0, NURSERY} /\ heap.type_page[pg] = "OBJECT"
    BY <1>3
  <2>3. heap.freepage \in 1 .. InitPages
    BY <1>1, <1>3 DEF FirstPage
  <2>4. QED  BY <1>1, <1>3, <2>1, <2>2, <2>3 DEF PageTable
<1>7. RootsTyped
  <2>1. shadow \in Seq(Nat) /\ dirty_vectors \in Seq(Nat)
    BY DEF Init
  <2>2. defuns \in Seq(Nat)
    <3>1. defuns \in [1 .. NDefuns -> Nat]
      BY DEF Init, Null
    <3>2. QED  BY <1>1, <3>1
  <2>3. values \in Seq(Nat)
    <3>1. values \in [1 .. NValues -> Nat]
      BY DEF Init, Null
    <3>2. QED  BY <1>1, <3>1
  <2>4. QED  BY <2>1, <2>2, <2>3 DEF RootsTyped
<1>8. GcTyped /\ Spaces /\ ReqTyped
  BY <1>3 DEF Init, NoGc, GcTyped, Spaces, ReqTyped
<1>9. QED  BY <1>2, <1>4, <1>6, <1>7, <1>8 DEF IInv, HeapOK

-----------------------------------------------------------------------------
\* What the collector's steps do to the heap as a whole.

\* Entering or leaving a scavenge is only a flag.
LEMMA FlagKeeps ==
    ASSUME NEW h, HeapOK(h), NEW b
    PROVE  LET g == [h EXCEPT !.in_scavenge = b] IN Keeps(h, g) /\ SameTable(h, g)
<1> DEFINE g == [h EXCEPT !.in_scavenge = b]
<1>1. SameTable(h, g) /\ g.mem = h.mem /\ g.freep = h.freep /\ g.freewords = h.freewords
  BY DEF SameTable, HeapOK, HeapFields
<1> HIDE DEF g
<1>2. Memory(g)
  BY <1>1 DEF Memory, HeapOK, SameTable
<1>3. Keeps(h, g)
  BY <1>1, <1>2, SameTableKeeps
<1>4. QED  BY <1>1, <1>3 DEF g

\* Emptying the queue leaves pages and memory alone.
LEMMA queue_resetKeeps ==
    ASSUME NEW h, HeapOK(h)
    PROVE  Keeps(h, queue_reset(h))
<1> DEFINE g == queue_reset(h)
<1>1. SameTable(h, g) /\ g.mem = h.mem /\ g.freep = h.freep /\ g.freewords = h.freewords
  BY DEF queue_reset, SameTable, HeapOK, HeapFields
<1> HIDE DEF g
<1>2. Memory(g)
  BY <1>1 DEF Memory, HeapOK, SameTable
<1>3. Keeps(h, g)
  BY <1>1, <1>2, SameTableKeeps
<1>4. QED  BY <1>3 DEF g

\* A collection that starts copies into the space that is being filled.
LEMMA StartCollectOK ==
    ASSUME IInv, gc.kind = "none", NEW h, Keeps(heap, h), NEW kind \in {"nursery", "full"},
           StartCollect(h, kind)
    PROVE  HeapOK(heap)' /\ GcTyped' /\ Spaces'
<1> DEFINE f == [h EXCEPT !.in_scavenge = TRUE]
<1>1. Keeps(heap, f)
  BY FlagKeeps DEF Keeps
<1> HIDE DEF f
<1>2. Keeps(heap, Finalize(f))
  BY <1>1, FinalizeKeeps DEF Keeps
<1>3. Keeps(heap, queue_reset(Finalize(f)))
  BY <1>2, queue_resetKeeps DEF Keeps
<1>4. heap' = queue_reset(Finalize(f))
  BY DEF StartCollect, f
<1>5. gc' = [NoGc EXCEPT !.kind = kind, !.at = "roots", !.promote = (kind = "full")]
  BY DEF StartCollect
<1>6. GcTyped'
  BY <1>5 DEF GcTyped, NoGc
<1>7. gc'.kind = kind /\ gc'.promote = (kind = "full")
  BY <1>5 DEF NoGc
<1>8. heap.next_space = heap.current_space
  BY DEF IInv, Spaces
<1>9. Spaces'
  BY <1>3, <1>4, <1>7, <1>8 DEF Spaces, Keeps
<1>10. QED  BY <1>3, <1>4, <1>6, <1>9 DEF Keeps

\* The request goes on: what it asks for stays.
LEMMA RequestGoesOn ==
    ASSUME ReqTyped, req # NoReq, Len(shadow') = Len(shadow), NEW r, req' = r,
           DOMAIN r = ReqFields, r.ty = req.ty, r.words = req.words, r.n = req.n,
           r.init = req.init, r.id = req.id
    PROVE  ReqTyped'
BY DEF ReqTyped

\* Steps of the collector that change neither the spaces nor the requests.
LEMMA CollectorStep ==
    ASSUME IInv, Keeps(heap, heap'), RootsTyped', Len(shadow') = Len(shadow),
           UNCHANGED req, DOMAIN gc' = DOMAIN gc, gc'.kind = gc.kind, gc'.promote = gc.promote
    PROVE  IInv'
<1>1. GcTyped' /\ Spaces'
  BY DEF IInv, GcTyped, Spaces, Keeps
<1>2. ReqTyped'
  BY DEF IInv, ReqTyped
<1>3. QED  BY <1>1, <1>2 DEF IInv, Keeps

\* The collector's steps, one lemma for each.
LEMMA ScanRootsHolds ==
    ASSUME IInv, ScanRoots
    PROVE  IInv'
<1> DEFINE t == gc_scan_roots(heap)
           u == IF gc.promote THEN ScanValues(ScanDefuns(t, DOMAIN defuns \ dirty_defuns)) ELSE t
<1>1. TableOK(heap, t)
  BY gc_scan_rootsOK DEF IInv
<1>2. RootsAre(u)
  BY DEF ScanRoots
<1> HIDE DEF t
<1>3. TableOK(heap, u)
  BY <1>1, ScanDefunsOK, ScanValuesOK
<1> HIDE DEF u
<1>4. /\ Keeps(heap, heap') /\ Len(shadow') = Len(shadow)
      /\ shadow' \in Seq(Nat) /\ defuns' \in Seq(Nat) /\ values' \in Seq(Nat)
  BY <1>2, <1>3 DEF RootsAre, TableOK
<1>5. dirty_vectors' = dirty_vectors /\ req' = req
  BY DEF ScanRoots, remembered
<1>6. RootsTyped'
  BY <1>4, <1>5 DEF RootsTyped, IInv
<1>7. DOMAIN gc' = DOMAIN gc /\ gc'.kind = gc.kind /\ gc'.promote = gc.promote
  BY DEF ScanRoots, IInv, GcTyped
<1>8. QED  BY <1>4, <1>5, <1>6, <1>7, CollectorStep

\* The remembered set is looked at, or every old page queued.
LEMMA ScanRememberedHolds ==
    ASSUME IInv, ScanRemembered
    PROVE  IInv'
<1>1. Keeps(heap, heap')
  BY RescanVectorsKeeps, QueueAllOldKeeps DEF ScanRemembered, IInv, RootsTyped
<1>2. RootsTyped' /\ Len(shadow') = Len(shadow) /\ req' = req
  BY DEF ScanRemembered, IInv, RootsTyped, roots, remembered
<1>3. DOMAIN gc' = DOMAIN gc /\ gc'.kind = gc.kind /\ gc'.promote = gc.promote
  BY DEF ScanRemembered, IInv, GcTyped
<1>4. QED  BY <1>1, <1>2, <1>3, CollectorStep

\* Taking a page off the queue.
LEMMA PopKeeps ==
    ASSUME NEW w, DOMAIN w = {"h", "cp"}, HeapOK(w.h), NEW qpg
    PROVE  DOMAIN Pop(w, qpg) = {"h", "cp"} /\ Keeps(w.h, Pop(w, qpg).h)
<1> DEFINE g == [w.h EXCEPT !.queue_head = w.h.gc_link[qpg]]
<1>1. Pop(w, qpg) = [w EXCEPT !.h = g]
  BY DEF Pop
<1>2. SameTable(w.h, g) /\ g.mem = w.h.mem /\ g.freep = w.h.freep /\ g.freewords = w.h.freewords
  BY DEF SameTable, HeapOK, HeapFields
<1> HIDE DEF g
<1>3. Memory(g)
  BY <1>2 DEF Memory, HeapOK, SameTable
<1>4. Keeps(w.h, g)
  BY <1>2, <1>3, SameTableKeeps
<1>5. QED  BY <1>1, <1>4

\* A queued page is walked, and an older deferred page with it.
LEMMA DrainQueuedHolds ==
    ASSUME IInv, DrainQueued
    PROVE  IInv'
<1> DEFINE qpg == heap.queue_head
           v == drain_walk_page(heap, qpg, PageStart(qpg))
           w == Pop(v, qpg)
           d == drain_walk_page(w.h, gc.defer_pg, gc.defer_cp)
<1>1. DOMAIN v = {"h", "cp"} /\ Keeps(heap, v.h)
  BY drain_walk_pageKeeps DEF IInv
<1>2. Drained(w, qpg)
  BY DEF DrainQueued
<1> HIDE DEF v
<1>3. Keeps(heap, w.h)
  BY <1>1, PopKeeps DEF Keeps
<1> HIDE DEF w
<1>4. Keeps(heap, d.h)
  BY <1>3, drain_walk_pageKeeps DEF Keeps
<1> HIDE DEF d
<1>5. heap' = d.h \/ heap' = w.h
  BY <1>2 DEF Drained, d
<1>6. RootsTyped' /\ Len(shadow') = Len(shadow) /\ req' = req
  BY DEF DrainQueued, IInv, RootsTyped, roots, remembered
<1>7. DOMAIN gc' = DOMAIN gc /\ gc'.kind = gc.kind /\ gc'.promote = gc.promote
  <2>1. gc' = gc \/ gc' = [gc EXCEPT !.defer_pg = qpg, !.defer_cp = w.cp]
    BY <1>2 DEF Drained
  <2>2. QED  BY <2>1 DEF IInv, GcTyped
<1>8. QED  BY <1>3, <1>4, <1>5, <1>6, <1>7, CollectorStep

\* The deferred page is walked.
LEMMA DrainDeferredHolds ==
    ASSUME IInv, DrainDeferred
    PROVE  IInv'
<1> DEFINE w == drain_walk_page(heap, gc.defer_pg, gc.defer_cp)
           pg == IF {PageOf(heap.freep), PageOf(w.cp)} = {gc.defer_pg} THEN gc.defer_pg ELSE 0
<1>1. Keeps(heap, w.h)
  BY drain_walk_pageKeeps DEF IInv
<1>2. heap' = w.h /\ gc' = [gc EXCEPT !.defer_cp = w.cp, !.defer_pg = pg]
  BY DEF DrainDeferred, Deferred
<1> HIDE DEF w, pg
<1>3. RootsTyped' /\ Len(shadow') = Len(shadow) /\ req' = req
  BY DEF DrainDeferred, IInv, RootsTyped, roots, remembered
<1>4. DOMAIN gc' = DOMAIN gc /\ gc'.kind = gc.kind /\ gc'.promote = gc.promote
  BY <1>2 DEF IInv, GcTyped
<1>5. QED  BY <1>1, <1>2, <1>3, <1>4, CollectorStep

\* The drain is over.

\* What is left of the memory when pages are released.
LEMMA DroppedWritten ==
    ASSUME NEW m, MemoryWritten(m), NEW pages
    PROVE  MemoryWritten(Dropped(m, pages))
BY DEF MemoryWritten, Dropped

\* The swap of the semi-spaces: no page is tagged with the space the second half will
\* fill, because the first half ran with one space, so a count of zero is exact.
LEMMA FinishPromotionHolds ==
    ASSUME IInv, FinishPromotion
    PROVE  IInv'
<1> DEFINE f == Finalize(heap)
           g == [f EXCEPT !.in_scavenge = FALSE, !.next_space = 3 - heap.current_space,
                          !.allocatedpages = 0]
<1>1. heap' = queue_reset(g)
  BY DEF FinishPromotion
<1>2. Keeps(heap, f)
  BY FinalizeKeeps DEF IInv
<1>3. heap.next_space = heap.current_space /\ heap.current_space \in {1, 2}
  BY DEF IInv, Spaces, FinishPromotion, HeapOK, PageTable
<1> DEFINE c == heap.current_space
           n == 3 - c
<1>4. n \in {1, 2} /\ n # c /\ c \in {1, 2}
  BY <1>3
<1>5. f.current_space = c /\ f.next_space = c /\ HeapOK(f)
  BY <1>2, <1>3 DEF Keeps
<1> HIDE DEF f, n, c
<1>6. g = [f EXCEPT !.in_scavenge = FALSE, !.next_space = n, !.allocatedpages = 0]
  BY DEF n, c
<1> HIDE DEF g
<1>7. /\ DOMAIN g = HeapFields /\ g.mem = f.mem /\ g.heappages = f.heappages
      /\ g.space = f.space /\ g.type_page = f.type_page /\ g.freepage = f.freepage
      /\ g.current_space = c /\ g.next_space = n /\ g.allocatedpages = 0
      /\ g.freep = f.freep /\ g.freewords = f.freewords /\ g.nursery_cur = f.nursery_cur
  BY <1>5, <1>6 DEF HeapOK, HeapFields
<1>8. Memory(g)
  BY <1>5, <1>7 DEF HeapOK, Memory
<1>9. Filling(g) = {}
  BY <1>4, <1>5, <1>7 DEF Filling, HeapOK, PageTable, NURSERY
<1>10. g.allocatedpages = Cardinality(Filling(g))
  BY <1>7, <1>9, FS_EmptySet
<1>11. PageTable(g)
  BY <1>4, <1>5, <1>7, <1>10 DEF HeapOK, PageTable
<1>12. HeapOK(heap)' /\ heap'.current_space = c /\ heap'.next_space = n
  <2>1. HeapOK(g)
    BY <1>7, <1>8, <1>11 DEF HeapOK
  <2>2. Keeps(g, heap')
    BY <1>1, <2>1, queue_resetKeeps
  <2>3. QED  BY <1>7, <2>2 DEF Keeps
<1>13. gc' = [NoGc EXCEPT !.kind = "full", !.at = "roots"]
  BY DEF FinishPromotion
<1>14. GcTyped' /\ Spaces'
  BY <1>12, <1>13 DEF GcTyped, Spaces, NoGc, n, c
<1>15. RootsTyped' /\ ReqTyped'
  BY DEF FinishPromotion, ForgetRemembered, IInv, RootsTyped, ReqTyped, roots
<1>16. QED  BY <1>12, <1>14, <1>15 DEF IInv

\* The old semi-space is released: the count goes on counting the other space, and no
\* page keeps the mark of a continuation whose head was freed, since a run of pages
\* lies in one space and is freed as a whole.
LEMMA FinishCollectHolds ==
    ASSUME IInv, FinishCollect
    PROVE  IInv'
<1> DEFINE dead == {pg \in 1 .. heap.heappages : heap.space[pg] = heap.current_space}
           space == [pg \in DOMAIN heap.space |-> IF pg \in dead THEN 0 ELSE heap.space[pg]]
           type_page == [pg \in DOMAIN heap.type_page |->
                            IF pg \in dead THEN "OBJECT" ELSE heap.type_page[pg]]
           mem == Dropped(heap.mem, dead)
           c == heap.current_space
           n == heap.next_space
<1>1. heap' = [Release(heap, dead) EXCEPT !.current_space = n]
  BY DEF FinishCollect
<1>2. c \in {1, 2} /\ n \in {1, 2} /\ n # c /\ HeapOK(heap)
  BY DEF IInv, Spaces, FinishCollect, HeapOK, PageTable
<1>3. MemoryWritten(mem)
  BY <1>2, DroppedWritten DEF HeapOK, Memory, MemoryWritten, Written
<1>4. heap' = [heap EXCEPT !.mem = mem, !.space = space, !.type_page = type_page,
                           !.holes = heap.holes \ dead, !.current_space = n]
  BY <1>1, <1>2 DEF Release, Drop, HeapOK, HeapFields
<1> HIDE DEF mem
<1>5. /\ DOMAIN heap' = HeapFields /\ heap'.mem = mem /\ heap'.heappages = heap.heappages
      /\ heap'.space = space /\ heap'.type_page = type_page /\ heap'.freepage = heap.freepage
      /\ heap'.current_space = n /\ heap'.next_space = n
      /\ heap'.allocatedpages = heap.allocatedpages
      /\ heap'.freep = heap.freep /\ heap'.freewords = heap.freewords
      /\ heap'.nursery_cur = heap.nursery_cur
  <2> HIDE DEF space, type_page, dead
  <2>1. QED  BY <1>2, <1>4 DEF HeapOK, HeapFields
<1>6. Memory(heap)'
  BY <1>2, <1>3, <1>5 DEF HeapOK, Memory, MemoryWritten, Written
<1>7. /\ space \in [1 .. heap.heappages -> {0, 1, 2, NURSERY}]
      /\ \A pg \in 1 .. heap.heappages :
            space[pg] = IF heap.space[pg] = c THEN 0 ELSE heap.space[pg]
      /\ type_page \in [1 .. heap.heappages -> {"OBJECT", "CONTINUED"}]
      /\ \A pg \in 1 .. heap.heappages :
            type_page[pg] = IF heap.space[pg] = c THEN "OBJECT" ELSE heap.type_page[pg]
  BY <1>2 DEF HeapOK, PageTable
<1> HIDE DEF space, type_page, dead
<1>8. Filling(heap)' = Filling(heap)
  BY <1>2, <1>5, <1>7 DEF Filling
<1>9. ASSUME NEW pg \in 1 .. heap.heappages
      PROVE  /\ space[pg] \in {0, n, NURSERY}
             /\ type_page[pg] = "CONTINUED" =>
                    pg > 1 /\ space[pg] \in {1, 2} /\ space[pg - 1] = space[pg]
  <2>1. space[pg] \in {0, n, NURSERY}
    BY <1>2, <1>7 DEF HeapOK, PageTable
  <2>2. ASSUME type_page[pg] = "CONTINUED"
        PROVE  pg > 1 /\ space[pg] \in {1, 2} /\ space[pg - 1] = space[pg]
    <3>1. heap.space[pg] # c /\ heap.type_page[pg] = "CONTINUED"
      BY <1>7, <2>2
    <3>2. pg > 1 /\ heap.space[pg] \in {1, 2} /\ heap.space[pg - 1] = heap.space[pg]
      BY <1>2, <3>1 DEF HeapOK, PageTable
    <3>3. pg - 1 \in 1 .. heap.heappages
      BY <1>2, <3>2 DEF HeapOK, PageTable
    <3>4. QED  BY <1>7, <3>1, <3>2, <3>3
  <2>3. QED  BY <2>1, <2>2
<1>10. PageTable(heap)'
  <2>1. heap'.allocatedpages = Cardinality(Filling(heap)')
    BY <1>2, <1>5, <1>8 DEF HeapOK, PageTable
  <2>2. QED  BY <1>2, <1>5, <1>7, <1>9, <2>1 DEF HeapOK, PageTable
<1>11. gc' = NoGc
  BY DEF FinishCollect
<1>12. GcTyped' /\ Spaces'
  BY <1>5, <1>11 DEF GcTyped, Spaces, NoGc
<1>13. RootsTyped' /\ ReqTyped'
  BY DEF FinishCollect, IInv, RootsTyped, ReqTyped, roots, remembered
<1>14. QED  BY <1>5, <1>6, <1>10, <1>12, <1>13 DEF IInv, HeapOK

\* The nursery is emptied.
LEMMA FinishNurseryHolds ==
    ASSUME IInv, FinishNursery
    PROVE  IInv'
<1> DEFINE mem == Dropped(heap.mem, FirstPage .. NurseryPages)
<1>1. heap' = [heap EXCEPT !.mem = mem, !.nursery_cur = PageStart(FirstPage),
                           !.in_scavenge = FALSE]
  BY DEF FinishNursery, Drop, IInv, HeapOK, HeapFields
<1>2. MemoryWritten(mem)
  BY DroppedWritten DEF IInv, HeapOK, Memory, MemoryWritten, Written
<1>3. PageStart(FirstPage) \in Nat
  BY HeapAssumption DEF PageStart, FirstPage
<1> HIDE DEF mem
<1>4. /\ DOMAIN heap' = HeapFields /\ heap'.mem = mem /\ heap'.heappages = heap.heappages
      /\ heap'.space = heap.space /\ heap'.type_page = heap.type_page
      /\ heap'.freepage = heap.freepage
      /\ heap'.current_space = heap.current_space /\ heap'.next_space = heap.next_space
      /\ heap'.allocatedpages = heap.allocatedpages
      /\ heap'.freep = heap.freep /\ heap'.freewords = heap.freewords
      /\ heap'.nursery_cur = PageStart(FirstPage)
  BY <1>1 DEF IInv, HeapOK, HeapFields
<1>5. Memory(heap)'
  BY <1>2, <1>3, <1>4 DEF IInv, HeapOK, Memory, MemoryWritten, Written
<1>6. PageTable(heap)'
  BY <1>4 DEF IInv, HeapOK, PageTable, Filling
<1>7. gc' = NoGc
  BY DEF FinishNursery
<1>8. GcTyped' /\ Spaces'
  BY <1>4, <1>7 DEF GcTyped, Spaces, NoGc, IInv, FinishNursery
<1>9. RootsTyped' /\ ReqTyped'
  BY DEF FinishNursery, ForgetRemembered, IInv, RootsTyped, ReqTyped, roots
<1>10. QED  BY <1>4, <1>5, <1>6, <1>8, <1>9 DEF IInv, HeapOK

-----------------------------------------------------------------------------
\* The allocator.

\* The write barrier remembers addresses.
LEMMA BarrierTyped ==
    ASSUME dirty_vectors \in Seq(Nat), NEW h, NEW p \in Nat, NEW stored, Barrier(h, p, stored)
    PROVE  dirty_vectors' \in Seq(Nat)
<1>1. dirty_vectors' = dirty_vectors \/ dirty_vectors' = Append(dirty_vectors, p)
  BY DEF Barrier, gc_dirty_vectors_add
<1>2. QED  BY <1>1

\* The object of a request is a header of the request's words.
LEMMA NewObjectWritten ==
    ASSUME IInv, req # NoReq
    PROVE  Written(NewObject) /\ NewObject.words = req.words
<1> DEFINE fields == [k \in 1 .. req.n |-> RootOrNull(req.init[k])]
<1>1. /\ req.words \in Nat \ {0} /\ req.ty \in Types /\ req.id \in Nat /\ req.n \in Nat
      /\ req.init \in [1 .. req.n -> 0 .. Len(shadow)] /\ shadow \in Seq(Nat)
  BY DEF IInv, ReqTyped, RootsTyped
<1>2. \A k \in 1 .. req.n : RootOrNull(req.init[k]) \in Nat
  <2>1. \A i \in 1 .. Len(shadow) : shadow[i] \in Nat
    BY <1>1
  <2>2. \A k \in 1 .. req.n : req.init[k] = 0 \/ req.init[k] \in 1 .. Len(shadow)
    BY <1>1
  <2>3. QED  BY <2>1, <2>2 DEF RootOrNull, Null
<1>3. fields \in [1 .. req.n -> Nat]
  BY <1>2
<1> HIDE DEF fields
<1>4. fields \in Seq(Nat)
  <2>1. req.n \in Nat
    BY <1>1
  <2>2. QED  BY <1>3, <2>1
<1>5. NewObject = [fwd |-> Null, ty |-> req.ty, words |-> req.words, id |-> req.id,
                   fields |-> fields]
  BY DEF NewObject, Header, fields
<1>6. NewObject \in HeaderType /\ NewObject.words = req.words
  BY <1>1, <1>4, <1>5 DEF HeaderType, Null
<1>7. QED  BY <1>1, <1>6 DEF Written

\* The nursery's bump marks the page of the object as the head of one.
LEMMA BumpKeeps ==
    ASSUME IInv, req # NoReq, NEW a \in Nat
    PROVE  Keeps(heap, Bump(heap, a))
<1> DEFINE mem == Put(heap.mem, a, NewObject)
           type_page == [heap.type_page EXCEPT ![PageOf(a)] = "OBJECT"]
           g == [heap EXCEPT !.mem = mem, !.nursery_cur = a + req.words,
                             !.type_page = type_page]
<1>1. Bump(heap, a) = g
  BY DEF Bump
<1>2. MemoryWritten(mem)
  BY NewObjectWritten, PutWrites DEF IInv, HeapOK, Memory, MemoryWritten, Written
<1>3. a + req.words \in Nat
  BY DEF IInv, ReqTyped
<1> HIDE DEF mem
<1>4. /\ type_page \in [1 .. heap.heappages -> {"OBJECT", "CONTINUED"}]
      /\ \A pg \in 1 .. heap.heappages :
            type_page[pg] = heap.type_page[pg] \/ type_page[pg] = "OBJECT"
  BY DEF IInv, HeapOK, PageTable
<1> HIDE DEF type_page
<1>5. /\ DOMAIN g = HeapFields /\ g.mem = mem /\ g.heappages = heap.heappages
      /\ g.space = heap.space /\ g.type_page = type_page /\ g.freepage = heap.freepage
      /\ g.current_space = heap.current_space /\ g.next_space = heap.next_space
      /\ g.allocatedpages = heap.allocatedpages
      /\ g.freep = heap.freep /\ g.freewords = heap.freewords
      /\ g.nursery_cur = a + req.words
  BY DEF IInv, HeapOK, HeapFields
<1> HIDE DEF g
<1>6. Memory(g)
  BY <1>2, <1>3, <1>5 DEF IInv, HeapOK, Memory, MemoryWritten, Written
<1>7. Filling(g) = Filling(heap)
  BY <1>5 DEF Filling
<1>8. PageTable(g)
  BY <1>4, <1>5, <1>7 DEF IInv, HeapOK, PageTable
<1>9. QED  BY <1>1, <1>5, <1>6, <1>8 DEF Keeps, HeapOK

\* A request that is answered, wherever its object was written.
LEMMA GrantedHolds ==
    ASSUME IInv, gc.kind = "none", NEW h, Keeps(heap, h), NEW a \in Nat, Granted(h, a)
    PROVE  IInv'
<1>1. /\ heap' = h /\ gc' = gc /\ defuns' = defuns /\ values' = values
      /\ req' = NoReq
  BY DEF Granted
<1>2. shadow' \in Seq(Nat) /\ dirty_vectors' \in Seq(Nat)
  <2>1. shadow' = shadow \/ shadow' = Append(shadow, a + 1)
    BY DEF Granted
  <2>2. \/ dirty_vectors' = dirty_vectors
        \/ Barrier(h, a + 1, Barriered)
    BY DEF Granted
  <2>3. shadow \in Seq(Nat) /\ dirty_vectors \in Seq(Nat) /\ a + 1 \in Nat
    BY DEF IInv, RootsTyped
  <2>4. dirty_vectors' \in Seq(Nat)
    BY <2>2, <2>3, BarrierTyped
  <2>5. \A n \in Nat : Append(shadow, n) \in Seq(Nat)
    BY <2>3
  <2>6. QED  BY <2>1, <2>3, <2>4, <2>5
<1>3. RootsTyped' /\ GcTyped' /\ Spaces' /\ ReqTyped'
  BY <1>1, <1>2 DEF IInv, RootsTyped, GcTyped, Spaces, ReqTyped, Keeps
<1>4. QED  BY <1>1, <1>3 DEF IInv, Keeps

\* The pages counted for a request hold it.
LEMMA PagesForRequest ==
    ASSUME NEW words \in Nat \ {0}
    PROVE  PagesFor(words) \in Nat \ {0} /\ words <= PagesFor(words) * PageWords
BY HeapAssumption, DivisionUp DEF PagesFor

\* A page is taken for the request, and the object is written on it.
LEMMA PlacedHolds ==
    ASSUME IInv, gc.kind = "none", req # NoReq, NEW f, Keeps(heap, f), NEW retried,
           LET h == allocatepage(f, PagesFor(req.words), retried)
           IN  Granted(Place(h, NewObject), h.freep)
    PROVE  IInv'
<1> DEFINE h == allocatepage(f, PagesFor(req.words), retried)
<1>1. req.words \in Nat \ {0}
  BY DEF IInv, ReqTyped
<1>2. Keeps(f, h) /\ (h.exited \/ h.freewords = PagesFor(req.words) * PageWords)
  <2>1. PagesFor(req.words) \in Nat \ {0}
    BY <1>1, PagesForRequest
  <2>2. HeapOK(f)
    BY DEF Keeps
  <2>3. QED  BY <2>1, <2>2, allocatepageKeeps
<1>3. Granted(Place(h, NewObject), h.freep)
  OBVIOUS
<1> HIDE DEF h
<1>4. Keeps(heap, h) /\ HeapOK(h) /\ h.freep \in Nat
  BY <1>2 DEF Keeps, HeapOK, Memory
<1>5. Written(NewObject) /\ (h.exited \/ NewObject.words <= h.freewords)
  BY <1>1, <1>2, NewObjectWritten, PagesForRequest
<1>6. Keeps(heap, Place(h, NewObject))
  BY <1>4, <1>5, PlaceKeeps DEF Keeps
<1>7. QED  BY <1>3, <1>4, <1>6, GrantedHolds

\* The object goes on the page that is open.
LEMMA OldgenBumpHolds ==
    ASSUME IInv, OldgenBump
    PROVE  IInv'
<1>1. req # NoReq /\ gc.kind = "none" /\ req.words <= heap.freewords
  BY DEF OldgenBump, InGcalloc, Allocating, NoReq
<1>2. Granted(Place(heap, NewObject), heap.freep)
  BY DEF OldgenBump
<1>3. Keeps(heap, Place(heap, NewObject)) /\ heap.freep \in Nat
  BY <1>1, NewObjectWritten, PlaceKeeps DEF IInv, HeapOK, Memory
<1>4. QED  BY <1>1, <1>2, <1>3, GrantedHolds

\* The object goes on a new page, after the open one was closed.
LEMMA OldgenPageHolds ==
    ASSUME IInv, OldgenPage
    PROVE  IInv'
<1>1. req # NoReq /\ gc.kind = "none"
  BY DEF OldgenPage, InGcalloc, Allocating, NoReq
<1>2. Keeps(heap, Finalize(heap))
  BY FinalizeKeeps DEF IInv
<1>3. LET h == allocatepage(Finalize(heap), PagesFor(req.words), FALSE)
      IN  Granted(Place(h, NewObject), h.freep)
  BY DEF OldgenPage
<1>4. QED  BY <1>1, <1>2, <1>3, PlacedHolds

\* The object goes on a new page, and the open one is left as it is.
LEMMA PageAfterLastresortHolds ==
    ASSUME IInv, PageAfterLastresort
    PROVE  IInv'
<1>1. req # NoReq /\ gc.kind = "none"
  BY DEF PageAfterLastresort, Allocating, NoReq
<1>2. Keeps(heap, Abandoned(heap))
  <2> DEFINE holes == IF heap.freewords = 0 THEN heap.holes
                      ELSE heap.holes \cup {PageOf(heap.freep)}
             g == [heap EXCEPT !.holes = holes]
  <2>1. Abandoned(heap) = g
    BY DEF Abandoned
  <2> HIDE DEF holes
  <2>2. /\ SameTable(heap, g) /\ g.mem = heap.mem
        /\ g.freep = heap.freep /\ g.freewords = heap.freewords
    BY DEF SameTable, IInv, HeapOK, HeapFields
  <2> HIDE DEF g
  <2>3. Memory(g)
    BY <2>2 DEF Memory, IInv, HeapOK, SameTable
  <2>4. QED  BY <2>1, <2>2, <2>3, SameTableKeeps DEF IInv
<1>3. LET h == allocatepage(Abandoned(heap), PagesFor(req.words), req.retried)
      IN  Granted(Place(h, NewObject), h.freep)
  BY DEF PageAfterLastresort
<1>4. QED  BY <1>1, <1>2, <1>3, PlacedHolds

\* A step of the allocator between two of its calls.
LEMMA AllocatorStep ==
    ASSUME IInv, Keeps(heap, heap'), UNCHANGED <<gc, roots, remembered>>, ReqTyped'
    PROVE  IInv'
<1>1. RootsTyped' /\ GcTyped' /\ Spaces'
  BY DEF IInv, RootsTyped, GcTyped, Spaces, Keeps, roots, remembered
<1>2. QED  BY <1>1 DEF IInv, Keeps

\* The allocator calls the collector.
LEMMA CollectionStarts ==
    ASSUME IInv, gc.kind = "none", NEW h, Keeps(heap, h), NEW kind \in {"nursery", "full"},
           StartCollect(h, kind), UNCHANGED <<roots, remembered, ops>>, ReqTyped'
    PROVE  IInv'
<1>1. HeapOK(heap)' /\ GcTyped' /\ Spaces'
  BY StartCollectOK
<1>2. RootsTyped'
  BY DEF IInv, RootsTyped, roots, remembered
<1>3. QED  BY <1>1, <1>2 DEF IInv

\* The two fields of a request that say how far it got.
LEMMA RequestMarked ==
    ASSUME ReqTyped, req # NoReq, UNCHANGED roots, NEW at, NEW b,
           \/ req' = [req EXCEPT !.at = at]
           \/ req' = [req EXCEPT !.at = at, !.tried = b]
           \/ req' = [req EXCEPT !.at = at, !.retried = b]
    PROVE  ReqTyped'
<1>1. DOMAIN req = ReqFields /\ Len(shadow') = Len(shadow)
  BY DEF ReqTyped, roots
<1>2. /\ DOMAIN req' = ReqFields /\ req'.ty = req.ty /\ req'.words = req.words
      /\ req'.n = req.n /\ req'.init = req.init /\ req'.id = req.id
  BY <1>1 DEF ReqFields
<1>3. QED  BY <1>1, <1>2, RequestGoesOn

\* The allocator's calls of the collector and of grow_heap, one lemma for each.
LEMMA PreemptiveScavengeHolds ==
    ASSUME IInv, PreemptiveScavenge
    PROVE  IInv'
<1>1. req # NoReq /\ gc.kind = "none"
  BY DEF PreemptiveScavenge, Allocating, NoReq
<1>2. ReqTyped'
  BY <1>1, RequestMarked DEF PreemptiveScavenge, IInv
<1>3. Keeps(heap, heap)
  BY DEF IInv, Keeps
<1>4. QED  BY <1>1, <1>2, <1>3, CollectionStarts DEF PreemptiveScavenge

\* The cursor skips the end of a page.
LEMMA CursorMoves ==
    ASSUME IInv, req # NoReq
    PROVE  Cursor \in Nat /\ Keeps(heap, [heap EXCEPT !.nursery_cur = Cursor])
<1> DEFINE g == [heap EXCEPT !.nursery_cur = Cursor]
<1>1. Cursor \in Nat
  <2>1. heap.nursery_cur \in Nat /\ req.words \in Nat \ {0} /\ PageWords \in Nat \ {0}
    BY HeapAssumption DEF IInv, HeapOK, Memory, ReqTyped
  <2>2. PageOf(heap.nursery_cur) \in Nat
    BY <2>1, Division DEF PageOf
  <2>3. QED  BY <2>1, <2>2 DEF Cursor, PageStart
<1>2. /\ DOMAIN g = HeapFields /\ g.mem = heap.mem /\ g.heappages = heap.heappages
      /\ g.space = heap.space /\ g.type_page = heap.type_page
      /\ g.current_space = heap.current_space /\ g.next_space = heap.next_space
      /\ g.freepage = heap.freepage /\ g.allocatedpages = heap.allocatedpages
      /\ g.freep = heap.freep /\ g.freewords = heap.freewords /\ g.nursery_cur = Cursor
  BY DEF IInv, HeapOK, HeapFields
<1> HIDE DEF g
<1>3. Memory(g)
  BY <1>1, <1>2 DEF IInv, HeapOK, Memory
<1>4. PageTable(g)
  BY <1>2 DEF IInv, HeapOK, PageTable, Filling
<1>5. QED  BY <1>1, <1>2, <1>3, <1>4 DEF Keeps, HeapOK, g

\* The object goes in the nursery.
LEMMA NurseryBumpHolds ==
    ASSUME IInv, NurseryBump
    PROVE  IInv'
<1>1. req # NoReq /\ gc.kind = "none"
  BY DEF NurseryBump, InNurseryPath, Allocating, NoReq
<1>2. Cursor \in Nat
  BY <1>1, CursorMoves
<1>3. Granted(Bump(heap, Cursor), Cursor)
  BY DEF NurseryBump
<1>4. QED  BY <1>1, <1>2, <1>3, BumpKeeps, GrantedHolds

\* The nursery is full.
LEMMA ReactiveScavengeHolds ==
    ASSUME IInv, ReactiveScavenge
    PROVE  IInv'
<1>1. req # NoReq /\ gc.kind = "none"
  BY DEF ReactiveScavenge, InNurseryPath, Allocating, NoReq
<1>2. ReqTyped'
  BY <1>1, RequestMarked DEF ReactiveScavenge, IInv
<1>3. CASE req.tried
  <2>1. Keeps(heap, heap') /\ UNCHANGED <<gc, roots, remembered>>
    BY <1>3 DEF ReactiveScavenge, IInv, Keeps
  <2>2. QED  BY <1>2, <2>1, AllocatorStep
<1>4. CASE ~req.tried
  <2>1. /\ StartCollect([heap EXCEPT !.nursery_cur = Cursor], "nursery")
        /\ UNCHANGED <<roots, remembered, ops>>
    BY <1>4 DEF ReactiveScavenge
  <2>2. QED  BY <1>1, <1>2, <2>1, CursorMoves, CollectionStarts
<1>5. QED  BY <1>3, <1>4

\* The old generation is above its threshold.
LEMMA CollectThresholdHolds ==
    ASSUME IInv, CollectThreshold
    PROVE  IInv'
<1>1. req # NoReq /\ gc.kind = "none"
  BY DEF CollectThreshold, Allocating, NoReq
<1>2. ReqTyped'
  BY <1>1, RequestMarked DEF CollectThreshold, IInv
<1>3. Keeps(heap, heap)
  BY DEF IInv, Keeps
<1>4. QED  BY <1>1, <1>2, <1>3, CollectionStarts DEF CollectThreshold

\* The old generation would be above half of the heap.
LEMMA CollectLastresortHolds ==
    ASSUME IInv, CollectLastresort
    PROVE  IInv'
<1>1. req # NoReq /\ gc.kind = "none"
  BY DEF CollectLastresort, InGcalloc, Allocating, NoReq
<1>2. ReqTyped'
  BY <1>1, RequestMarked DEF CollectLastresort, IInv
<1>3. Keeps(heap, heap)
  BY DEF IInv, Keeps
<1>4. QED  BY <1>1, <1>2, <1>3, CollectionStarts DEF CollectLastresort

\* The live set is still above the threshold.
LEMMA AntiThrashHolds ==
    ASSUME IInv, AntiThrash
    PROVE  IInv'
<1>1. req # NoReq
  BY DEF AntiThrash, Allocating, NoReq
<1>2. ReqTyped'
  BY <1>1, RequestMarked DEF AntiThrash, IInv
<1>3. Keeps(heap, heap')
  BY grow_heapKeeps DEF AntiThrash, IInv, Keeps
<1>4. QED  BY <1>2, <1>3, AllocatorStep DEF AntiThrash

\* The heap grows, or the program exits.
LEMMA GrowOrExitHolds ==
    ASSUME IInv, GrowOrExit
    PROVE  IInv'
<1> DEFINE h == IF req.retried THEN heap ELSE grow_heap(heap, PagesFor(req.words))
           x == [heap EXCEPT !.exited = TRUE]
<1>1. req # NoReq
  BY DEF GrowOrExit, Allocating, NoReq
<1>2. Keeps(heap, h)
  <2>1. PagesFor(req.words) \in Nat
    BY <1>1, PagesForRequest DEF IInv, ReqTyped
  <2>2. QED  BY <2>1, grow_heapKeeps DEF IInv, Keeps
<1>3. Keeps(heap, x)
  <2>1. /\ SameTable(heap, x) /\ x.mem = heap.mem
        /\ x.freep = heap.freep /\ x.freewords = heap.freewords
    BY DEF SameTable, IInv, HeapOK, HeapFields
  <2> HIDE DEF x
  <2>2. Memory(x)
    BY <2>1 DEF Memory, IInv, HeapOK, SameTable
  <2>3. QED  BY <2>1, <2>2, SameTableKeeps DEF IInv
<1>4. /\ heap' = h \/ heap' = x
      /\ req' = [req EXCEPT !.at = "retry", !.retried = TRUE] \/ req' = req
      /\ UNCHANGED <<gc, roots, remembered>>
  BY DEF GrowOrExit
<1> HIDE DEF h, x
<1>5. ReqTyped'
  <2>1. CASE req' = req
    BY <1>4, <2>1 DEF IInv, ReqTyped, roots
  <2>2. CASE req' = [req EXCEPT !.at = "retry", !.retried = TRUE]
    BY <1>1, <1>4, <2>2, RequestMarked DEF IInv
  <2>3. QED  BY <1>4, <2>1, <2>2
<1>6. QED  BY <1>2, <1>3, <1>4, <1>5, AllocatorStep

-----------------------------------------------------------------------------
\* The machine.

\* The machine's operations, one lemma for each.
LEMMA RequestHolds ==
    ASSUME IInv, Request
    PROVE  IInv'
<1>1. PICK r \in Requests :
        \E init \in [1 .. r.n -> IF r.ty = "CALLFRAME_ARRAY" THEN {0} ELSE {0} \cup ValueRoots] :
          req' = [at |-> IF r.oldgen \/ r.words > PageWords THEN "oldgen" ELSE "gc_alloc",
                  ty |-> r.ty, words |-> r.words, n |-> r.n, init |-> init,
                  barriered |-> r.barriered,
                  id |-> CHOOSE i \in FreeIds : \A j \in FreeIds : i <= j,
                  tried |-> FALSE, retried |-> FALSE]
  BY DEF Request
<1>2. PICK init \in [1 .. r.n -> IF r.ty = "CALLFRAME_ARRAY" THEN {0} ELSE {0} \cup ValueRoots] :
          req' = [at |-> IF r.oldgen \/ r.words > PageWords THEN "oldgen" ELSE "gc_alloc",
                  ty |-> r.ty, words |-> r.words, n |-> r.n, init |-> init,
                  barriered |-> r.barriered,
                  id |-> CHOOSE i \in FreeIds : \A j \in FreeIds : i <= j,
                  tried |-> FALSE, retried |-> FALSE]
  BY <1>1
<1> DEFINE least == CHOOSE i \in FreeIds : \A j \in FreeIds : i <= j
           at == IF r.oldgen \/ r.words > PageWords THEN "oldgen" ELSE "gc_alloc"
<1>3. least \in Nat
  <2>1. FreeIds \subseteq Nat /\ FreeIds # {}
    BY HeapAssumption DEF FreeIds, Request
  <2>2. \E i \in FreeIds : \A j \in FreeIds : i <= j
    BY <2>1, Minimum
  <2>3. QED  BY <2>1, <2>2
<1>4. r.words \in Nat \ {0} /\ r.n \in Nat /\ r.ty \in Types
  BY HeapAssumption
<1>5. init \in [1 .. r.n -> 0 .. Len(shadow)]
  <2>1. DOMAIN shadow = 1 .. Len(shadow) /\ Len(shadow) \in Nat
    BY DEF IInv, RootsTyped
  <2>2. {0} \cup ValueRoots \subseteq 0 .. Len(shadow)
    BY <2>1 DEF ValueRoots
  <2>3. QED  BY <2>2
<1> HIDE DEF least, at
<1>6. req' = [at |-> at, ty |-> r.ty, words |-> r.words, n |-> r.n, init |-> init,
              barriered |-> r.barriered, id |-> least, tried |-> FALSE, retried |-> FALSE]
  BY <1>2 DEF least, at
<1>7. ReqTyped'
  <2>1. /\ DOMAIN req' = ReqFields /\ req'.words = r.words /\ req'.ty = r.ty /\ req'.id = least
        /\ req'.n = r.n /\ req'.init = init
    BY <1>6 DEF ReqFields
  <2>2. shadow' = shadow
    BY DEF Request, roots
  <2>3. QED  BY <1>3, <1>4, <1>5, <2>1, <2>2 DEF ReqTyped
<1>8. Keeps(heap, heap') /\ UNCHANGED <<gc, roots, remembered>>
  BY DEF Request, IInv, Keeps
<1>9. QED  BY <1>7, <1>8, AllocatorStep

\* A field of an object is set.
LEMMA FieldSetKeeps ==
    ASSUME NEW h, HeapOK(h), NEW a \in DOMAIN h.mem, NEW k \in DOMAIN h.mem[a].fields,
           NEW v \in Nat
    PROVE  Keeps(h, [h EXCEPT !.mem[a].fields[k] = v])
<1> DEFINE fields == [h.mem[a].fields EXCEPT ![k] = v]
           o == [h.mem[a] EXCEPT !.fields = fields]
           mem == [h.mem EXCEPT ![a] = o]
           g == [h EXCEPT !.mem = mem]
<1>1. MemoryWritten(h.mem) /\ DOMAIN h = HeapFields
  BY DEF HeapOK, Memory, MemoryWritten, Written
<1>2. [h EXCEPT !.mem[a].fields[k] = v] = g
  OBVIOUS
<1>3. h.mem[a] \in HeaderType /\ Written(h.mem[a])
  BY <1>1 DEF MemoryWritten
<1>4. fields \in Seq(Nat)
  <2>1. h.mem[a].fields \in Seq(Nat)
    BY <1>3 DEF HeaderType
  <2>2. QED  BY <2>1
<1> HIDE DEF fields
<1>5. Written(o)
  BY <1>3, <1>4 DEF Written, HeaderType
<1> HIDE DEF o
<1>6. MemoryWritten(mem)
  BY <1>1, <1>5 DEF MemoryWritten, Written
<1> HIDE DEF mem
<1>7. SameTable(h, g) /\ g.mem = mem /\ g.freep = h.freep /\ g.freewords = h.freewords
  BY <1>1 DEF SameTable, HeapFields
<1> HIDE DEF g
<1>8. Memory(g)
  BY <1>6, <1>7 DEF HeapOK, Memory, MemoryWritten, Written, SameTable
<1>9. QED  BY <1>2, <1>7, <1>8, SameTableKeeps

\* A step of the machine, between two allocations.
LEMMA MachineStep ==
    ASSUME IInv, Operation, Keeps(heap, heap'), RootsTyped'
    PROVE  IInv'
<1>1. gc' = gc /\ req' = NoReq
  BY DEF Operation, Idle
<1>2. GcTyped' /\ Spaces' /\ ReqTyped'
  BY <1>1 DEF IInv, GcTyped, Spaces, Keeps, ReqTyped
<1>3. QED  BY <1>2 DEF IInv, Keeps

\* What a field is set from is an address.
LEMMA RootTyped ==
    ASSUME IInv, NEW j \in {0} \cup ValueRoots
    PROVE  RootOrNull(j) \in Nat
<1>1. shadow \in Seq(Nat)
  BY DEF IInv, RootsTyped
<1>2. j = 0 \/ j \in DOMAIN shadow
  BY DEF ValueRoots
<1>3. QED  BY <1>1, <1>2 DEF RootOrNull, Null

\* A field of an object a root names is set from a root.
LEMMA FieldOfRootSet ==
    ASSUME IInv, NEW i \in DOMAIN shadow, NEW ty, Rootable(i, ty),
           NEW k \in DOMAIN Object(i).fields, NEW j \in {0} \cup ValueRoots
    PROVE  Keeps(heap, [heap EXCEPT !.mem[shadow[i] - 1].fields[k] = RootOrNull(j)])
<1> DEFINE a == shadow[i] - 1
           v == RootOrNull(j)
<1>1. a \in DOMAIN heap.mem /\ k \in DOMAIN heap.mem[a].fields
  BY DEF Rootable, Readable, Object
<1>2. v \in Nat /\ HeapOK(heap)
  BY RootTyped DEF IInv
<1> HIDE DEF a, v
<1>3. Keeps(heap, [heap EXCEPT !.mem[a].fields[k] = v])
  BY <1>1, <1>2, FieldSetKeeps
<1>4. QED  BY <1>3 DEF a, v

\* A field of an array is set, behind the barrier.
LEMMA StoreElementHolds ==
    ASSUME IInv, StoreElement
    PROVE  IInv'
<1>1. PICK i \in DOMAIN shadow, k \in 1 .. MaxFields, j \in {0} \cup ValueRoots :
          /\ Rootable(i, "VALUE_ARRAY") /\ k \in DOMAIN Object(i).fields
          /\ heap' = [heap EXCEPT !.mem[shadow[i] - 1].fields[k] = RootOrNull(j)]
          /\ Barrier(heap, shadow[i], {RootOrNull(j)})
  BY DEF StoreElement
<1>2. Keeps(heap, heap')
  BY <1>1, FieldOfRootSet
<1>3. shadow[i] \in Nat /\ dirty_vectors \in Seq(Nat)
  BY DEF IInv, RootsTyped
<1>4. dirty_vectors' \in Seq(Nat)
  BY <1>1, <1>3, BarrierTyped
<1>5. RootsTyped'
  BY <1>4 DEF StoreElement, IInv, RootsTyped, roots
<1>6. QED  BY <1>2, <1>5, MachineStep DEF StoreElement

\* A frame is saved.
LEMMA SaveFrameHolds ==
    ASSUME IInv, SaveFrame
    PROVE  IInv'
<1>1. PICK i \in DOMAIN shadow, k \in 1 .. MaxFields, j \in {0} \cup ValueRoots :
          /\ Rootable(i, "CALLFRAME_ARRAY") /\ k \in DOMAIN Object(i).fields
          /\ heap' = [heap EXCEPT !.mem[shadow[i] - 1].fields[k] = RootOrNull(j)]
  BY DEF SaveFrame
<1>2. Keeps(heap, heap')
  BY <1>1, FieldOfRootSet
<1>3. RootsTyped'
  BY DEF SaveFrame, IInv, RootsTyped, roots, remembered
<1>4. QED  BY <1>2, <1>3, MachineStep DEF SaveFrame

\* A value is pushed.
LEMMA LoadHolds ==
    ASSUME IInv, Load
    PROVE  IInv'
<1> DEFINE named == {j \in DOMAIN shadow : shadow[j] # Null /\ Readable(shadow[j])}
           loaded == Range(defuns) \cup Range(values)
                       \cup UNION {Range(Object(i).fields) : i \in named}
<1>1. PICK p \in loaded : shadow' = Append(shadow, p)
  BY DEF Load
<1>2. /\ shadow \in Seq(Nat) /\ defuns \in Seq(Nat) /\ values \in Seq(Nat)
      /\ heap.mem \in [DOMAIN heap.mem -> HeaderType]
  BY DEF IInv, RootsTyped, HeapOK, Memory
<1>3. \A i \in named : Object(i).fields \in Seq(Nat)
  BY <1>2 DEF Object, Readable, HeaderType
<1>4. \A s \in Seq(Nat) : Range(s) \subseteq Nat
  BY DEF Range
<1>5. loaded \subseteq Nat
  BY <1>2, <1>3, <1>4
<1> HIDE DEF loaded
<1>6. shadow' \in Seq(Nat)
  BY <1>1, <1>2, <1>5
<1>7. RootsTyped' /\ Keeps(heap, heap')
  BY <1>6 DEF Load, IInv, RootsTyped, remembered, Keeps
<1>8. QED  BY <1>7, MachineStep DEF Load

\* Roots are popped.
LEMMA UnwindHolds ==
    ASSUME IInv, Unwind
    PROVE  IInv'
<1>1. PICK n \in 0 .. Len(shadow) - 1 : shadow' = SubSeq(shadow, 1, n)
  BY DEF Unwind
<1>2. shadow \in Seq(Nat)
  BY DEF IInv, RootsTyped
<1>3. shadow' \in Seq(Nat)
  BY <1>1, <1>2
<1>4. RootsTyped' /\ Keeps(heap, heap')
  BY <1>3 DEF Unwind, IInv, RootsTyped, remembered, Keeps
<1>5. QED  BY <1>4, MachineStep DEF Unwind

\* A slot of the defun table is set.
LEMMA DefunSetHolds ==
    ASSUME IInv, DefunSet
    PROVE  IInv'
<1>1. PICK d \in DOMAIN defuns, i \in ValueRoots : defuns' = [defuns EXCEPT ![d] = shadow[i]]
  BY DEF DefunSet
<1>2. defuns \in Seq(Nat) /\ shadow[i] \in Nat
  BY DEF IInv, RootsTyped, ValueRoots
<1>3. defuns' \in Seq(Nat)
  BY <1>1, <1>2
<1>4. RootsTyped' /\ Keeps(heap, heap')
  BY <1>3 DEF DefunSet, IInv, RootsTyped, Keeps
<1>5. QED  BY <1>4, MachineStep DEF DefunSet

\* A slot of the values table is set.
LEMMA ValueSetHolds ==
    ASSUME IInv, ValueSet
    PROVE  IInv'
<1>1. PICK d \in DOMAIN values, i \in ValueRoots : values' = [values EXCEPT ![d] = shadow[i]]
  BY DEF ValueSet
<1>2. values \in Seq(Nat) /\ shadow[i] \in Nat
  BY DEF IInv, RootsTyped, ValueRoots
<1>3. values' \in Seq(Nat)
  BY <1>1, <1>2
<1>4. RootsTyped' /\ Keeps(heap, heap')
  BY <1>3 DEF ValueSet, IInv, RootsTyped, remembered, Keeps
<1>5. QED  BY <1>4, MachineStep DEF ValueSet

\* Nothing changes.
LEMMA StutterHolds ==
    ASSUME IInv, UNCHANGED vars
    PROVE  IInv'
BY DEF IInv, HeapOK, Memory, PageTable, Filling, RootsTyped, GcTyped, Spaces, ReqTyped,
       vars, roots, remembered

-----------------------------------------------------------------------------
\* IInv is an invariant of the heap: of gc.c's static state through every interleaving
\* of allocations, scavenges and full collections, for every geometry of the heap and
\* every set of requests.
THEOREM Invariance == Spec => []IInv
<1>1. ASSUME IInv, [Next]_vars
      PROVE  IInv'
  <2>1. CASE Collector
    BY <1>1, <2>1, ScanRootsHolds, ScanRememberedHolds, DrainQueuedHolds, DrainDeferredHolds,
       FinishPromotionHolds, FinishCollectHolds, FinishNurseryHolds DEF Collector
  <2>2. CASE Allocator
    BY <1>1, <2>2, PreemptiveScavengeHolds, NurseryBumpHolds, ReactiveScavengeHolds,
       CollectThresholdHolds, AntiThrashHolds, OldgenBumpHolds, OldgenPageHolds,
       CollectLastresortHolds, GrowOrExitHolds, PageAfterLastresortHolds DEF Allocator
  <2>3. CASE Machine
    BY <1>1, <2>3, RequestHolds, StoreElementHolds, SaveFrameHolds, LoadHolds, UnwindHolds,
       DefunSetHolds, ValueSetHolds DEF Machine
  <2>4. CASE Stopped \/ UNCHANGED vars
    BY <1>1, <2>4, StutterHolds DEF Stopped
  <2>5. QED  BY <1>1, <2>1, <2>2, <2>3, <2>4 DEF Next
<1>2. QED  BY InitHolds, <1>1, PTL DEF Spec

\* allocatedpages, which decides when a full collection runs and when the heap grows,
\* is at every step the number of pages of the space that is being filled: the counter
\* is raised in allocatepage, reset in the swap, and never counts a page twice or keeps
\* one that was released.
THEOREM AllocatedPagesAreExact == Spec => []AllocatedPagesExact
<1>1. IInv => AllocatedPagesExact
  BY DEF IInv, HeapOK, PageTable, Filling, AllocatedPagesExact, Pages
<1>2. QED  BY Invariance, <1>1, PTL

\* gc_verify_heap reports nothing: whenever no collection runs a free page carries no
\* mark of a continuation, and a continuation never follows a free page.
THEOREM HeapVerifies == Spec => []VerifyHeapClean
<1>1. IInv => VerifyHeapErrors = {}
  BY DEF IInv, HeapOK, PageTable, VerifyHeapErrors, Pages
<1>2. IInv => VerifyHeapClean
  BY <1>1 DEF VerifyHeapClean
<1>3. QED  BY Invariance, <1>2, PTL
===============================================================================
