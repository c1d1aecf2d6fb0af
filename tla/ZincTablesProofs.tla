-------------------------- MODULE ZincTablesProofs --------------------------
(***************************************************************************)
(* Proofs about ZincTables, for any names, values, bundles, hash functions *)
(* and sizes: the tables keep the dictionary that the calls describe.      *)
(***************************************************************************)
EXTENDS ZincTables, FiniteSetTheorems, SequenceTheorems, TLAPS

-----------------------------------------------------------------------------
(* The inductive invariant.                                                *)

NoDuplicates == \A i, j \in Slots : At(i) = At(j) /\ At(i) # NoName => i = j

\* While the bundle loads, the list of keys is counted and nothing is marked.
Collecting ==
    ~Frozen => defun_table_used = Cardinality(Keys) /\ dirty = {} /\ defun_table_used > 0

\* The keys of a placed bucket have slots of their own, and nothing lies past N.
Placing ==
    phase = "place" =>
        /\ defun_table_size = Cardinality(Keys) /\ defun_buckets > 0
        /\ \A i \in Slots : i >= defun_table_size => At(i) = NoName
        /\ \A i \in Slots : At(i) # NoName => At(i) \in Keys
        /\ \A n \in PlacedKeys : defun_table[PerfectSlot(n)] = Slot(n, bootstrap_keys[n])
        /\ \A m, n \in PlacedKeys : PerfectSlot(m) = PerfectSlot(n) => m = n

\* A frozen table is filled from the left; its first N names hash to their slot.
Layout ==
    Frozen =>
        /\ defun_table_size > 0 /\ defun_buckets > 0
        /\ defun_table_size + DEFUN_OVERFLOW_CAP <= DEFUN_TABLE_CAP
        /\ defun_table_used \in defun_table_size .. defun_table_size + DEFUN_OVERFLOW_CAP
        /\ \A i \in Slots : At(i) # NoName <=> i < defun_table_used
        /\ \A i \in Slots : i < defun_table_size => PerfectSlot(At(i)) = i
        /\ NoDuplicates
        /\ young \subseteq dirty

\* Every value is where its probe sequence first stops.
Probing ==
    \A i \in ValueSlots :
        values_table[i].name # NoName => i \in ValueAt(values_table[i].name)

IInv == TablesTypeOK /\ Collecting /\ Placing /\ Layout /\ Probing

-----------------------------------------------------------------------------
(* Hashes and keys.                                                        *)

LEMMA Remainder ==
    ASSUME NEW a \in Nat, NEW b \in Nat \ {0}
    PROVE  a % b \in 0 .. b - 1
<1>1. a \in Int /\ b \in Int /\ b > 0
  OBVIOUS
<1>2. 0 <= a % b /\ a % b < b /\ a % b \in Int
  BY <1>1, Z3
<1>3. QED  BY <1>1, <1>2

LEMMA SlotRange ==
    ASSUME hash \in Hashes, defun_table_size \in Nat \ {0},
           NEW n \in Name, NEW d \in Displacements
    PROVE  hash_slot(n, d) \in 0 .. defun_table_size - 1
<1>1. hash.h1 \in [Name -> [Displacements -> Nat]]
  BY FilesAssumption DEF Displacements
<1>2. hash.h1[n][d] \in Nat
  BY <1>1
<1>3. QED  BY <1>2, Remainder DEF hash_slot

LEMMA BucketRange ==
    ASSUME hash \in Hashes, defun_buckets \in Nat \ {0}, NEW n \in Name
    PROVE  hash_bucket(n) \in 0 .. defun_buckets - 1
<1>1. hash.h0[n] \in Nat
  BY FilesAssumption
<1>2. QED  BY <1>1, Remainder DEF hash_bucket

BuildTyped ==
    /\ hash \in Hashes /\ defun_table_size \in Nat /\ defun_buckets \in Nat
    /\ defun_displacement \in [0 .. defun_buckets - 1 -> Displacements]

\* The perfect slot of any name is one of the first N.
LEMMA PerfectRange ==
    BuildTyped /\ defun_table_size > 0 /\ defun_buckets > 0 =>
        \A n \in Name : PerfectSlot(n) \in 0 .. defun_table_size - 1
<1> SUFFICES ASSUME BuildTyped, defun_table_size > 0, defun_buckets > 0, NEW n \in Name
             PROVE  PerfectSlot(n) \in 0 .. defun_table_size - 1
  OBVIOUS
<1>1. hash_bucket(n) \in 0 .. defun_buckets - 1
  BY BucketRange DEF BuildTyped
<1>2. defun_displacement[hash_bucket(n)] \in Displacements
  BY <1>1 DEF BuildTyped
<1>3. QED  BY <1>2, SlotRange DEF BuildTyped, PerfectSlot

LEMMA ProbeRange ==
    ASSUME hash \in Hashes, NEW n \in Name, NEW k \in Nat
    PROVE  Probe(n, k) \in ValueSlots
<1>1. hash.hv[n] + k \in Nat
  BY FilesAssumption
<1>2. QED  BY <1>1, Remainder, SizesAssumption DEF Probe, ValueSlots

LEMMA KeysFinite ==
    /\ IsFiniteSet(Keys) /\ Cardinality(Keys) \in Nat
    /\ Cardinality(Keys) + DEFUN_OVERFLOW_CAP <= DEFUN_TABLE_CAP
<1>1. Keys \in SUBSET Name
  BY DEF Keys
<1>2. IsFiniteSet(Keys) /\ Cardinality(Keys) <= Cardinality(Name)
  BY <1>1, FS_Subset, NamesAssumption
<1>3. Cardinality(Keys) \in Nat /\ Cardinality(Name) \in Nat
  BY <1>2, FS_CardinalityType, NamesAssumption
<1>4. QED  BY <1>2, <1>3, SizesAssumption

-----------------------------------------------------------------------------
(* Lookups.                                                                *)

DefunsExact ==
    \A n \in Name :
        /\ SlotsOf(n) = {i \in Slots : At(i) = n}
        /\ \A i \in Slots : At(i) = n => SlotsOf(n) = {i} /\ First(SlotsOf(n)) = i

\* In a frozen table a name is found exactly where it is.
LEMMA FrozenLookup == BuildTyped /\ Layout /\ Frozen => DefunsExact
<1> SUFFICES ASSUME BuildTyped, Layout, Frozen, NEW n \in Name
             PROVE  /\ SlotsOf(n) = {i \in Slots : At(i) = n}
                    /\ \A i \in Slots : At(i) = n => SlotsOf(n) = {i} /\ First(SlotsOf(n)) = i
  BY DEF DefunsExact
<1>1. n # NoName
  BY NamesAssumption
<1>2. PerfectSlot(n) \in 0 .. defun_table_size - 1
  BY PerfectRange DEF Layout
<1>3. /\ defun_table_size \in Nat /\ defun_table_used \in Nat
      /\ DEFUN_OVERFLOW_CAP \in Nat /\ DEFUN_TABLE_CAP \in Nat
  BY SizesAssumption DEF BuildTyped, Layout
<1>4. SlotsOf(n) \subseteq {i \in Slots : At(i) = n}
  BY <1>2, <1>3 DEF Layout, SlotsOf, OverflowTail, Slots
<1>5. ASSUME NEW i \in Slots, At(i) = n  PROVE i \in SlotsOf(n)
  <2>1. i < defun_table_used
    BY <1>1, <1>5 DEF Layout
  <2>2. CASE i < defun_table_size
    BY <1>5, <2>2 DEF Layout, SlotsOf
  <2>3. CASE i >= defun_table_size
    BY <1>3, <1>5, <2>1, <2>3 DEF Layout, SlotsOf, OverflowTail, Slots
  <2>4. QED  BY <1>3, <2>2, <2>3 DEF Slots
<1>6. SlotsOf(n) = {i \in Slots : At(i) = n}
  BY <1>4, <1>5
<1>7. ASSUME NEW i \in Slots, At(i) = n  PROVE SlotsOf(n) = {i} /\ First(SlotsOf(n)) = i
  <2>1. SlotsOf(n) = {i}
    BY <1>1, <1>6, <1>7 DEF Layout, NoDuplicates
  <2>2. QED  BY <2>1, <1>3 DEF First, Slots
<1>8. QED  BY <1>6, <1>7

LEMMA FrozenLookupNext == (BuildTyped /\ Layout /\ Frozen => DefunsExact)'
  BY FrozenLookup, PTL

ValuesExact ==
    \A n \in Name :
        /\ value_has(n) <=> \E i \in ValueSlots : values_table[i].name = n
        /\ \A i \in ValueSlots : values_table[i].name = n =>
             ValueAt(n) = {i} /\ value_get(n) = values_table[i].value

\* A value is found exactly where it is, if its probe sequence leads there.
LEMMA ValueLookup == hash \in Hashes /\ Probing => ValuesExact
<1> SUFFICES ASSUME hash \in Hashes, Probing, NEW n \in Name
             PROVE  /\ value_has(n) <=> \E i \in ValueSlots : values_table[i].name = n
                    /\ \A i \in ValueSlots : values_table[i].name = n =>
                         ValueAt(n) = {i} /\ value_get(n) = values_table[i].value
  BY DEF ValuesExact
<1>1. n # NoName
  BY NamesAssumption
<1>2. VALUES_TABLE_CAP \in Nat
  BY SizesAssumption
<1>3. ASSUME NEW i \in ValueAt(n)  PROVE i \in ValueSlots /\ values_table[i].name = n
  BY <1>2, ProbeRange DEF ValueAt, ValueSlots
<1>4. ASSUME NEW k \in ValueSlots, NEW l \in ValueSlots, k < l,
             values_table[Probe(n, k)].name = n, Passes(n, l)
      PROVE  FALSE
  <2>1. k \in 0 .. l - 1
    BY <1>2, <1>4 DEF ValueSlots
  <2>2. QED  BY <1>4, <2>1 DEF Passes
<1>5. ASSUME NEW i \in ValueAt(n), NEW j \in ValueAt(n)  PROVE i = j
  <2>1. PICK k \in ValueSlots : i = Probe(n, k) /\ Passes(n, k) /\ values_table[Probe(n, k)].name = n
    BY DEF ValueAt
  <2>2. PICK l \in ValueSlots : j = Probe(n, l) /\ Passes(n, l) /\ values_table[Probe(n, l)].name = n
    BY DEF ValueAt
  <2>3. ~(k < l) /\ ~(l < k)
    BY <1>4, <2>1, <2>2
  <2>4. k = l
    BY <1>2, <2>3 DEF ValueSlots
  <2>5. QED  BY <2>1, <2>2, <2>4
<1>6. ASSUME NEW i \in ValueSlots, values_table[i].name = n
      PROVE  ValueAt(n) = {i} /\ value_get(n) = values_table[i].value
  <2>1. i \in ValueAt(n)
    BY <1>1, <1>6 DEF Probing
  <2>2. ValueAt(n) = {i}
    BY <1>5, <2>1
  <2>3. First(ValueAt(n)) = i
    BY <1>2, <2>2 DEF First, ValueSlots
  <2>4. QED  BY <2>2, <2>3 DEF value_get, value_has
<1>7. value_has(n) <=> \E i \in ValueSlots : values_table[i].name = n
  BY <1>3, <1>6 DEF value_has
<1>8. QED  BY <1>6, <1>7

LEMMA ValueLookupNext == (hash \in Hashes /\ Probing => ValuesExact)'
  BY ValueLookup, PTL

-----------------------------------------------------------------------------
(* What a step does to the two dictionaries.                               *)

SameDefuns == Known' = Known /\ \A n \in Name : defun_get(n)' = defun_get(n)
SameValues == Stored' = Stored /\ \A n \in Name : value_get(n)' = value_get(n)

BindsDefun(n, v) ==
    /\ Known' = Known \cup {n}
    /\ \A m \in Name : m \in Known' => defun_get(m)' = IF m = n THEN v ELSE defun_get(m)

BindsValue(n, v) ==
    /\ Stored' = Stored \cup {n}
    /\ \A m \in Name : m \in Stored' => value_get(m)' = IF m = n THEN v ELSE value_get(m)

\* A step of the tables is a step of the dictionary or leaves it alone.
Refines == [Dict!Next]_(Dict!vars)

LEMMA SameMaps ==
    /\ SameDefuns => [m \in Known |-> defun_get(m)]' = [m \in Known |-> defun_get(m)]
    /\ SameValues => [m \in Stored |-> value_get(m)]' = [m \in Stored |-> value_get(m)]
  BY DEF SameDefuns, SameValues, Known, Stored

\* A step of the dictionary names the call it makes.
LEMMA DictCalls ==
    ASSUME NEW n \in Name, NEW v \in Value, Dict!DefunSet(n, v) \/ Dict!ValueSet(n, v)
    PROVE  Dict!Next
<1>1. /\ call' \in Dict!Calls
      /\ call'.name = n /\ call'.value = v
  BY DEF Dict!DefunSet, Dict!ValueSet, Dict!Calls
<1>2. Dict!DefunSet(call'.name, call'.value) \/ Dict!ValueSet(call'.name, call'.value)
  BY <1>1
<1>3. QED  BY <1>1, <1>2 DEF Dict!Next

LEMMA RefinesStutter ==
    ASSUME UNCHANGED bundle, Frozen' <=> Frozen, SameDefuns, SameValues,
           UNCHANGED <<defun_table_used, values_table_used, call, ended>>
    PROVE  Refines
  BY SameMaps DEF Refines, Dict!vars, Lossy

LEMMA RefinesDefunSet ==
    ASSUME UNCHANGED bundle, Frozen' <=> Frozen, NEW n \in Name, NEW v \in Value,
           BindsDefun(n, v), SameValues,
           defun_table_used' = defun_table_used + (IF n \in Known THEN 0 ELSE 1),
           Called("defun_set", n, v), ended = "no", UNCHANGED <<values_table_used, ended>>
    PROVE  Refines
<1>1. [m \in Known |-> defun_get(m)]' = Dict!Bind([m \in Known |-> defun_get(m)], n, v)
  BY DEF BindsDefun, Known, Dict!Bind
<1>2. Dict!DefunSet(n, v)
  BY <1>1, SameMaps DEF Dict!DefunSet, Dict!Count, Called, Lossy
<1>3. QED  BY <1>2, DictCalls DEF Refines

\* A collection before the freeze loses closures of the list.
LEMMA RefinesLose ==
    ASSUME UNCHANGED bundle, bundle.collects, ~Frozen, ~Frozen', SameValues, Known' = Known,
           \A n \in Known : \/ defun_get(n)' = defun_get(n)
                            \/ defun_get(n) \in Moving /\ defun_get(n)' = Stale,
           \A n \in Known : defun_get(n)' \in Value \cup {Stale},
           ended = "no", UNCHANGED <<defun_table_used, values_table_used, call, ended>>
    PROVE  Refines
<1> DEFINE f == [n \in Known |-> defun_get(n)]
<1>1. f' = [n \in Known |-> defun_get(n)']
  OBVIOUS
<1>2. f' \in [DOMAIN f -> Value \cup {Stale}]
  BY <1>1
<1>3. \A n \in DOMAIN f : f'[n] = f[n] \/ (f[n] \in Moving /\ f'[n] = Stale)
  BY <1>1
<1>4. Dict!Lose
  BY <1>2, <1>3, SameMaps DEF Dict!Lose, Dict!Loses, Lossy
<1>5. QED  BY <1>4 DEF Refines, Dict!Next

\* The freeze settles the defuns, or leaves a dictionary alone that was settled.
LEMMA RefinesSettle ==
    ASSUME UNCHANGED bundle, bundle \in Bundles, ~Frozen, Frozen', SameDefuns, SameValues,
           UNCHANGED <<defun_table_used, values_table_used, call, ended>>
    PROVE  Refines
<1>1. bundle.collects \in BOOLEAN
  BY FilesAssumption
<1>2. CASE bundle.collects
  <2>1. Lossy = TRUE /\ Lossy' = FALSE
    BY <1>2 DEF Lossy
  <2>2. Dict!Settle
    BY <2>1, SameMaps DEF Dict!Settle
  <2>3. QED  BY <2>2 DEF Refines, Dict!Next
<1>3. CASE ~bundle.collects
  <2>1. Lossy' = Lossy
    BY <1>3 DEF Lossy
  <2>2. QED  BY <2>1, SameMaps DEF Refines, Dict!vars
<1>4. QED  BY <1>1, <1>2, <1>3

LEMMA RefinesTailFull ==
    ASSUME UNCHANGED bundle, Frozen' <=> Frozen, NEW n \in Name, NEW v \in Value,
           SameDefuns, SameValues, n \notin Known,
           defun_table_used >= DEFUN_OVERFLOW_CAP,
           Called("defun_set", n, v), ended = "no", ended' = "exit",
           UNCHANGED <<defun_table_used, values_table_used>>
    PROVE  Refines
<1>1. Dict!DefunSet(n, v)
  BY SameMaps DEF Dict!DefunSet, Called, Lossy
<1>2. QED  BY <1>1, DictCalls DEF Refines

LEMMA RefinesValueSet ==
    ASSUME UNCHANGED bundle, Frozen' <=> Frozen, NEW n \in Name, NEW v \in Value,
           BindsValue(n, v), SameDefuns,
           values_table_used' = values_table_used + (IF n \in Stored THEN 0 ELSE 1),
           Called("value_set", n, v), ended = "no", UNCHANGED <<defun_table_used, ended>>
    PROVE  Refines
<1>1. [m \in Stored |-> value_get(m)]' = Dict!Bind([m \in Stored |-> value_get(m)], n, v)
  BY DEF BindsValue, Stored, Dict!Bind
<1>2. Dict!ValueSet(n, v)
  BY <1>1, SameMaps DEF Dict!ValueSet, Dict!Count, Called, Lossy
<1>3. QED  BY <1>2, DictCalls DEF Refines

LEMMA RefinesValuesFull ==
    ASSUME UNCHANGED bundle, Frozen' <=> Frozen, NEW n \in Name, NEW v \in Value,
           SameDefuns, SameValues, values_table_used >= VALUES_TABLE_CAP - 1,
           Called("value_set", n, v), ended = "no", ended' = "exit",
           UNCHANGED <<defun_table_used, values_table_used>>
    PROVE  Refines
<1>1. Dict!ValueSet(n, v)
  BY SameMaps DEF Dict!ValueSet, Called, Lossy
<1>2. QED  BY <1>1, DictCalls DEF Refines

LEMMA ValuesUnchanged ==
    ASSUME UNCHANGED <<valuevars, hash>>
    PROVE  SameValues /\ (Probing => Probing')
<1>1. UNCHANGED <<values_table, values_table_used, hash>>
  BY DEF valuevars
<1>2. \A n : ValueAt(n)' = ValueAt(n)
  BY <1>1 DEF ValueAt, Passes, Probe
<1>3. \A n : value_has(n)' = value_has(n)
  BY <1>2 DEF value_has
<1>4. SameValues
  BY <1>1, <1>2, <1>3 DEF SameValues, Stored, value_get
<1>5. QED  BY <1>1, <1>2, <1>4 DEF Probing, SameValues

LEMMA DefunsUnchanged ==
    ASSUME UNCHANGED <<bootstrap_keys, defun_table, buildvars, hash>>, Frozen' = Frozen
    PROVE  SameDefuns /\ Keys' = Keys /\ \A n : SlotsOf(n)' = SlotsOf(n)
<1>1. UNCHANGED <<defun_table_size, defun_buckets, defun_displacement, placed>>
  BY DEF buildvars
<1>2. \A n : PerfectSlot(n)' = PerfectSlot(n)
  BY <1>1 DEF PerfectSlot, hash_slot, hash_bucket
<1>3. \A n : SlotsOf(n)' = SlotsOf(n)
  BY <1>1, <1>2 DEF SlotsOf, OverflowTail, At
<1>4. \A n : defun_has(n)' = defun_has(n)
  BY <1>3 DEF defun_has
<1>5. \A n : defun_get(n)' = defun_get(n)
  BY <1>3, <1>4 DEF defun_get
<1>6. QED  BY <1>3, <1>4, <1>5 DEF SameDefuns, Known, Keys

\* While loading, the list of keys alone is the dictionary.
LEMMA LoadingDefuns ==
    ASSUME ~Frozen, ~Frozen', UNCHANGED bootstrap_keys
    PROVE  SameDefuns
  BY DEF SameDefuns, Known, defun_has, defun_get

LEMMA Cap == /\ DEFUN_OVERFLOW_CAP \in Nat /\ DEFUN_OVERFLOW_CAP > 0
             /\ DEFUN_TABLE_CAP \in Nat /\ VALUES_TABLE_CAP \in Nat
  BY SizesAssumption

-----------------------------------------------------------------------------
(* Stores.                                                                 *)

\* One more key in the list of a bundle that loads.
LEMMA BootstrapStore ==
    ASSUME IInv, ~Frozen, ~Frozen', UNCHANGED bundle,
           NEW n \in Name, NEW v \in Value, BootstrapSet(n, v)
    PROVE  /\ BindsDefun(n, v)
           /\ defun_table_used' = defun_table_used + (IF n \in Known THEN 0 ELSE 1)
           /\ defun_table_used' \in Nat
           /\ bootstrap_keys' \in [Name -> Value \cup {NoValue, Stale}]
           /\ (bundle.collects \/ NothingStale)'
           /\ Collecting'
<1>1. bootstrap_keys' = [bootstrap_keys EXCEPT ![n] = v] /\ v # NoValue
  BY NamesAssumption DEF BootstrapSet
<1>2. bootstrap_keys \in [Name -> Value \cup {NoValue, Stale}] /\ defun_table_used \in Nat
  BY DEF IInv, TablesTypeOK, NothingStale
<1>3. Known = Keys /\ Known' = Keys' /\ Keys' = Keys \cup {n}
  BY <1>1, <1>2 DEF Known, Keys, defun_has
<1>4. BindsDefun(n, v)
  BY <1>1, <1>2, <1>3 DEF BindsDefun, Keys, defun_get, defun_has
<1>5. defun_table_used' = defun_table_used + (IF n \in Known THEN 0 ELSE 1)
  BY <1>2, <1>3 DEF BootstrapSet
<1>6. Cardinality(Keys') = Cardinality(Keys) + (IF n \in Keys THEN 0 ELSE 1)
  BY <1>3, KeysFinite, FS_AddElement
<1>7. Collecting'
  BY <1>2, <1>3, <1>5, <1>6 DEF Collecting, IInv, BootstrapSet
<1>8. (bundle.collects \/ NothingStale)'
  BY <1>1, <1>2, NamesAssumption DEF IInv, TablesTypeOK, NothingStale, BootstrapSet
<1>9. QED  BY <1>1, <1>2, <1>4, <1>5, <1>7, <1>8

\* A store into a slot of the frozen table that is free or is the name's own.
LEMMA FrozenStore ==
    ASSUME IInv, Frozen, Frozen', UNCHANGED <<bundle, buildvars, hash>>,
           NEW n \in Name, NEW v \in Value, NEW i \in Slots, Store(i, n, v),
           \/ At(i) = n /\ defun_table_used' = defun_table_used
           \/ /\ At(i) = NoName /\ i = defun_table_used /\ i \in OverflowTail
              /\ SlotsOf(n) = {} /\ defun_table_used' = defun_table_used + 1
    PROVE  /\ BindsDefun(n, v)
           /\ defun_table_used' = defun_table_used + (IF n \in Known THEN 0 ELSE 1)
           /\ defun_table' \in [Slots -> DefunEntry]
           /\ (bundle.collects \/ NothingStale)'
           /\ Layout'
<1> USE Cap
<1>1. /\ defun_table' = [defun_table EXCEPT ![i] = Slot(n, v)]
      /\ n # NoName /\ Slot(n, v) \in DefunEntry
      /\ dirty' = dirty \cup {i} /\ young' = young \cup {i}
  BY NamesAssumption DEF Store, Slot, DefunEntry
<1>2. /\ defun_table \in [Slots -> DefunEntry] /\ BuildTyped
      /\ defun_table_used \in Nat
  BY DEF IInv, TablesTypeOK, BuildTyped
<1>3. /\ \A j \in Slots : At(j)' = IF j = i THEN n ELSE At(j)
      /\ \A j \in Slots : defun_table'[j] = IF j = i THEN Slot(n, v) ELSE defun_table[j]
  BY <1>1, <1>2 DEF At, Slot
<1>4. /\ UNCHANGED <<defun_table_size, defun_buckets, defun_displacement>>
      /\ \A m \in Name : PerfectSlot(m)' = PerfectSlot(m)
  BY DEF buildvars, PerfectSlot, hash_slot, hash_bucket
<1>5. Layout
  BY DEF IInv
<1>6. \A m \in Name : SlotsOf(m) = {j \in Slots : At(j) = m}
  BY <1>2, <1>5, FrozenLookup DEF DefunsExact
<1>7. Layout'
  <2>1. /\ defun_table_size' > 0 /\ defun_buckets' > 0
        /\ defun_table_size' + DEFUN_OVERFLOW_CAP <= DEFUN_TABLE_CAP
        /\ young' \subseteq dirty'
    BY <1>1, <1>4, <1>5 DEF Layout
  <2>2. defun_table_used' \in defun_table_size' .. defun_table_size' + DEFUN_OVERFLOW_CAP
    BY <1>2, <1>4, <1>5 DEF Layout, OverflowTail, BuildTyped
  <2>3. \A j \in Slots : At(j)' # NoName <=> j < defun_table_used'
    <3>1. \A j \in Slots : At(j) # NoName <=> j < defun_table_used
      BY <1>5 DEF Layout
    <3>2. CASE At(i) = n /\ defun_table_used' = defun_table_used
      BY <1>1, <1>3, <3>1, <3>2
    <3>3. CASE At(i) = NoName /\ i = defun_table_used /\ defun_table_used' = defun_table_used + 1
      BY <1>1, <1>2, <1>3, <3>1, <3>3 DEF Slots
    <3>4. QED  BY <3>2, <3>3
  <2>4. \A j \in Slots : j < defun_table_size' => PerfectSlot(At(j))' = j
    <3> SUFFICES ASSUME NEW j \in Slots, j < defun_table_size  PROVE PerfectSlot(At(j))' = j
      BY <1>4
    <3>1. PerfectSlot(At(j)) = j /\ At(j) # NoName
      BY <1>2, <1>5 DEF Layout, Slots, BuildTyped
    <3>2. At(j) \in Name
      BY <1>2, <3>1 DEF At, DefunEntry
    <3>3. At(j)' = At(j)
      BY <1>2, <1>3 DEF OverflowTail, BuildTyped, Slots
    <3>4. QED  BY <1>4, <3>1, <3>2, <3>3
  <2>5. NoDuplicates'
    <3>1. \A j, k \in Slots : At(j) = At(k) /\ At(j) # NoName => j = k
      BY <1>5 DEF Layout, NoDuplicates
    <3>2. CASE At(i) = n
      BY <1>3, <3>1, <3>2 DEF NoDuplicates
    <3>3. CASE SlotsOf(n) = {}
      <4>1. \A j \in Slots : At(j) # n
        BY <1>6, <3>3
      <4>2. QED  BY <1>3, <3>1, <4>1 DEF NoDuplicates
    <3>4. QED  BY <3>2, <3>3
  <2>6. QED  BY <2>1, <2>2, <2>3, <2>4, <2>5 DEF Layout
<1>8. BuildTyped'
  BY <1>2, <1>4 DEF BuildTyped
<1>9. DefunsExact'
  BY <1>7, <1>8, FrozenLookupNext
<1>10. /\ \A m \in Name : SlotsOf(m)' = {j \in Slots : At(j)' = m}
       /\ \A m \in Name, j \in Slots : At(j)' = m => SlotsOf(m)' = {j} /\ First(SlotsOf(m))' = j
  BY <1>9 DEF DefunsExact
<1>11. ASSUME NEW m \in Name, m # n
       PROVE  (m \in Known') = (m \in Known) /\ (m \in Known => defun_get(m)' = defun_get(m))
  <2>1. \A j \in Slots : At(j)' = m <=> At(j) = m
    BY <1>1, <1>3, <1>11, NamesAssumption
  <2>2. SlotsOf(m)' = SlotsOf(m)
    BY <1>6, <1>10, <2>1
  <2>3. defun_has(m)' = defun_has(m)
    BY <2>2 DEF defun_has
  <2>4. ASSUME m \in Known  PROVE defun_get(m)' = defun_get(m)
    <3>1. PICK j \in Slots : At(j) = m
      BY <1>6, <2>4 DEF Known, defun_has
    <3>2. First(SlotsOf(m)) = j /\ First(SlotsOf(m))' = j
      BY <1>2, <1>5, <1>10, <2>1, <3>1, FrozenLookup DEF DefunsExact
    <3>3. j # i
      BY <1>3, <1>11, <2>1, <3>1
    <3>4. defun_table'[j] = defun_table[j]
      BY <1>3, <3>3
    <3>5. QED  BY <2>3, <2>4, <3>2, <3>4 DEF defun_get, Known
  <2>5. QED  BY <2>3, <2>4 DEF Known
<1>12. n \in Known' /\ defun_get(n)' = v
  <2>1. SlotsOf(n)' = {i} /\ First(SlotsOf(n))' = i
    BY <1>3, <1>10
  <2>2. defun_table'[i].value = v
    BY <1>3 DEF Slot
  <2>3. QED  BY <2>1, <2>2 DEF Known, defun_has, defun_get
<1>13. BindsDefun(n, v)
  BY <1>11, <1>12 DEF BindsDefun, Known
<1>14. (n \in Known) = (SlotsOf(n) # {})
  BY DEF Known, defun_has
<1>15. defun_table_used' = defun_table_used + (IF n \in Known THEN 0 ELSE 1)
  BY <1>2, <1>6, <1>14
<1>16. (bundle.collects \/ NothingStale)'
  <2>1. ASSUME NothingStale, NEW j \in Slots  PROVE defun_table'[j].value # Stale
    BY <1>3, <2>1, NamesAssumption DEF NothingStale, Slot
  <2>2. bootstrap_keys' = bootstrap_keys
    BY DEF Store
  <2>3. NothingStale => NothingStale'
    BY <2>1, <2>2 DEF NothingStale
  <2>4. QED  BY <2>3 DEF IInv, TablesTypeOK
<1>17. QED  BY <1>1, <1>2, <1>7, <1>13, <1>15, <1>16

\* A store at the end of a probe sequence.
LEMMA ValueStore ==
    ASSUME IInv, UNCHANGED hash, NEW n \in Name, NEW v \in Value, StoreValue(n, v)
    PROVE  /\ BindsValue(n, v)
           /\ values_table_used' = values_table_used + (IF n \in Stored THEN 0 ELSE 1)
           /\ values_table_used' \in Nat
           /\ values_table' \in [ValueSlots -> TableEntry]
           /\ Probing'
<1> DEFINE at(i) == values_table[i].name
<1> USE Cap
<1>1. PICK k \in ValueSlots :
        /\ ProbeEnds(n, k)
        /\ values_table' = [values_table EXCEPT ![Probe(n, k)] = Slot(n, v)]
        /\ values_table_used' = values_table_used + (IF at(Probe(n, k)) = n THEN 0 ELSE 1)
  BY DEF StoreValue
<1> DEFINE p == Probe(n, k)
<1>2. /\ values_table \in [ValueSlots -> TableEntry] /\ hash \in Hashes
      /\ values_table_used \in Nat /\ n # NoName /\ Slot(n, v) \in TableEntry
  BY NamesAssumption DEF IInv, TablesTypeOK, Slot, TableEntry
<1>3. p \in ValueSlots /\ at(p) \in {NoName, n} /\ Passes(n, k) /\ k \in Nat
  BY <1>1, <1>2, ProbeRange DEF ProbeEnds, ValueSlots
<1>4. \A i \in ValueSlots :
        values_table'[i] = IF i = p THEN Slot(n, v) ELSE values_table[i]
  BY <1>1, <1>2, <1>3
<1>5. /\ \A i \in ValueSlots : values_table'[i].name = IF i = p THEN n ELSE at(i)
      /\ \A i \in ValueSlots : at(i) # NoName => values_table'[i].name = at(i)
  BY <1>3, <1>4 DEF Slot
<1>6. \A m, j : Probe(m, j)' = Probe(m, j)
  BY DEF Probe
<1>7. \A m \in Name, l \in ValueSlots : Passes(m, l) => Passes(m, l)'
  <2> SUFFICES ASSUME NEW m \in Name, NEW l \in ValueSlots, Passes(m, l)
               PROVE  Passes(m, l)'
    OBVIOUS
  <2>1. ASSUME NEW j \in 0 .. l - 1
        PROVE  values_table'[Probe(m, j)].name \notin {NoName, m}
    <3>1. j \in 0 .. l - 1 /\ Passes(m, l)
      BY <2>1
    <3>2. values_table[Probe(m, j)].name \notin {NoName, m}
      BY <3>1 DEF Passes
    <3>3. Probe(m, j) \in ValueSlots
      <4>1. l \in Int /\ j \in Nat
        BY <3>1 DEF ValueSlots
      <4>2. QED  BY <1>2, <4>1, ProbeRange
    <3>4. QED  BY <1>5, <3>2, <3>3
  <2>2. QED  BY <1>6, <2>1 DEF Passes
<1>8. Probing'
  <2> SUFFICES ASSUME NEW i \in ValueSlots, values_table'[i].name # NoName
               PROVE  (i \in ValueAt(values_table[i].name))'
    BY DEF Probing
  <2>1. CASE i = p
    <3>1. values_table'[i].name = n
      BY <1>5, <2>1
    <3>2. Passes(n, k)' /\ values_table'[Probe(n, k)'].name = n /\ i = Probe(n, k)'
      BY <1>3, <1>6, <1>7, <2>1, <3>1
    <3>3. QED  BY <3>1, <3>2 DEF ValueAt
  <2>2. CASE i # p
    <3>1. values_table'[i].name = at(i) /\ at(i) # NoName /\ at(i) \in Name
      BY <1>2, <1>5, <2>2 DEF TableEntry
    <3>2. i \in ValueAt(at(i))
      BY <3>1 DEF IInv, Probing
    <3>3. PICK l \in ValueSlots : i = Probe(at(i), l) /\ Passes(at(i), l)
      BY <3>2 DEF ValueAt
    <3>4. Passes(at(i), l)' /\ i = Probe(at(i), l)'
      BY <1>6, <1>7, <3>1, <3>3
    <3>5. i \in ValueAt(at(i))'
      BY <3>1, <3>4 DEF ValueAt
    <3>6. QED  BY <3>1, <3>5
  <2>3. QED  BY <2>1, <2>2
<1>9. ValuesExact /\ ValuesExact'
  BY <1>2, <1>8, ValueLookup, ValueLookupNext DEF IInv
<1>10. n \in Stored <=> at(p) = n
  <2>1. at(p) = n => n \in Stored
    BY <1>3, <1>9 DEF ValuesExact, Stored
  <2>2. ASSUME at(p) = NoName, n \in Stored  PROVE FALSE
    <3>1. PICK i \in ValueAt(n) : TRUE
      BY <2>2 DEF Stored, value_has
    <3>2. PICK l \in ValueSlots : at(Probe(n, l)) = n /\ Passes(n, l)
      BY <3>1 DEF ValueAt
    <3>3. l # k
      BY <1>2, <2>2, <3>2
    <3>4. CASE l < k
      BY <1>3, <3>2, <3>4 DEF Passes, ValueSlots
    <3>5. CASE k < l
      BY <1>3, <2>2, <3>2, <3>5 DEF Passes, ValueSlots
    <3>6. QED  BY <1>3, <3>3, <3>4, <3>5 DEF ValueSlots
  <2>3. at(p) = n \/ at(p) = NoName
    BY <1>3
  <2>4. QED  BY <2>1, <2>2, <2>3
<1>11. ASSUME NEW m \in Name, m # n
       PROVE  (m \in Stored') = (m \in Stored) /\ (m \in Stored => value_get(m)' = value_get(m))
  <2>1. \A i \in ValueSlots : values_table'[i].name = m <=> at(i) = m
    BY <1>3, <1>5, <1>11, NamesAssumption
  <2>2. (m \in Stored') = (m \in Stored)
    BY <1>9, <2>1 DEF ValuesExact, Stored
  <2>3. ASSUME m \in Stored  PROVE value_get(m)' = value_get(m)
    <3>1. PICK i \in ValueSlots : at(i) = m
      BY <1>9, <2>3 DEF ValuesExact, Stored
    <3>2. value_get(m) = values_table[i].value /\ value_get(m)' = values_table'[i].value
      BY <1>9, <2>1, <3>1 DEF ValuesExact
    <3>3. i # p
      BY <1>5, <1>11, <2>1, <3>1
    <3>4. QED  BY <1>4, <3>2, <3>3
  <2>4. QED  BY <2>2, <2>3
<1>12. n \in Stored' /\ value_get(n)' = v
  <2>1. values_table'[p] = Slot(n, v) /\ p \in ValueSlots
    BY <1>3, <1>4
  <2>2. values_table'[p].name = n /\ values_table'[p].value = v
    BY <2>1 DEF Slot
  <2>3. QED  BY <1>9, <2>1, <2>2 DEF ValuesExact, Stored
<1>13. BindsValue(n, v)
  BY <1>11, <1>12 DEF BindsValue, Stored
<1>14. values_table' \in [ValueSlots -> TableEntry]
  BY <1>1, <1>2
<1>15. QED  BY <1>1, <1>2, <1>8, <1>10, <1>13, <1>14

-----------------------------------------------------------------------------
(* Loading.                                                                *)

Loading == {"entries", "keywords", "values", "bare"}

\* A step of the loader that stores at most one defun.
LEMMA LoadingStep ==
    ASSUME IInv, phase \in Loading, phase' \in Loading, li' \in Nat \ {0}, ended = "no",
           UNCHANGED <<bundle, hash, buildvars, valuevars>>,
           \/ UNCHANGED <<defunvars, call, ended>>
           \/ \E n \in Name, v \in Value : defun_set(n, v)
    PROVE  IInv' /\ Refines
<1>1. ~Frozen /\ ~Frozen' /\ phase # "place" /\ phase' # "place"
  BY DEF Frozen, Loading
<1>2. /\ Placing' /\ Layout' /\ SameValues /\ Probing'
      /\ UNCHANGED <<values_table, values_table_used, defun_table_size, defun_buckets,
                     defun_displacement, placed>>
  BY <1>1, ValuesUnchanged DEF IInv, Placing, Layout, valuevars, buildvars
<1>3. phase' \in {"entries", "keywords", "values", "place", "runtime", "bare"}
  BY DEF Loading
<1>4. CASE UNCHANGED <<defunvars, call, ended>>
  <2>1. UNCHANGED <<bootstrap_keys, defun_table, defun_table_used, dirty, young, call, ended>>
    BY <1>4 DEF defunvars
  <2>2. TablesTypeOK'
    BY <1>2, <1>3, <2>1 DEF IInv, TablesTypeOK, NothingStale
  <2>3. Collecting'
    BY <1>1, <2>1 DEF IInv, Collecting, Keys
  <2>4. Refines
    BY <1>1, <1>2, <2>1, LoadingDefuns, RefinesStutter
  <2>5. QED  BY <1>2, <2>2, <2>3, <2>4 DEF IInv
<1>5. CASE \E n \in Name, v \in Value : defun_set(n, v)
  <2>1. PICK n \in Name, v \in Value : BootstrapSet(n, v) /\ Called("defun_set", n, v)
    BY <1>1, <1>5 DEF defun_set
  <2>2. UNCHANGED <<defun_table, dirty, young, ended>>
    BY <2>1 DEF BootstrapSet
  <2>3. /\ BindsDefun(n, v)
        /\ defun_table_used' = defun_table_used + (IF n \in Known THEN 0 ELSE 1)
        /\ defun_table_used' \in Nat
        /\ bootstrap_keys' \in [Name -> Value \cup {NoValue, Stale}]
        /\ (bundle.collects \/ NothingStale)'
        /\ Collecting'
    BY <1>1, <2>1, BootstrapStore
  <2>4. TablesTypeOK'
    BY <1>2, <1>3, <2>2, <2>3 DEF IInv, TablesTypeOK, NothingStale
  <2>5. Refines
    BY <1>1, <1>2, <2>1, <2>2, <2>3, RefinesDefunSet
  <2>6. QED  BY <1>2, <2>3, <2>4, <2>5 DEF IInv
<1>6. QED  BY <1>4, <1>5

LEMMA LoadStepKeeps ==
    ASSUME IInv, ParseEntry \/ BundleEnds \/ Keyword \/ KeywordsEnd
    PROVE  IInv' /\ Refines
<1>1. li \in Nat \ {0} /\ li + 1 \in Nat \ {0} /\ bundle \in Bundles
  BY DEF IInv, TablesTypeOK, NothingStale
<1>2. ASSUME ParseEntry  PROVE IInv' /\ Refines
  <2>1. bundle.entries \in Seq(Entry) /\ li \in 1 .. Len(bundle.entries)
    BY <1>1, <1>2, FilesAssumption DEF ParseEntry
  <2>2. bundle.entries[li] \in Entry
    BY <2>1
  <2>3. bundle.entries[li].name \in Name /\ bundle.entries[li].value \in Value
    BY <2>2 DEF Entry
  <2>4. \/ UNCHANGED <<defunvars, call, ended>>
        \/ \E n \in Name, v \in Value : defun_set(n, v)
    BY <1>2, <2>3 DEF ParseEntry
  <2>5. /\ phase \in Loading /\ phase' \in Loading /\ li' \in Nat \ {0} /\ ended = "no"
        /\ UNCHANGED <<bundle, hash, buildvars, valuevars>>
    BY <1>1, <1>2 DEF ParseEntry, In, Step, GoTo, Loading
  <2>6. QED  BY <2>4, <2>5, LoadingStep
<1>3. ASSUME BundleEnds \/ KeywordsEnd  PROVE IInv' /\ Refines
  <2>1. /\ phase \in Loading /\ phase' \in Loading /\ li' \in Nat \ {0} /\ ended = "no"
        /\ UNCHANGED <<bundle, hash, buildvars, valuevars, defunvars, call, ended>>
    BY <1>3 DEF BundleEnds, KeywordsEnd, In, GoTo, Loading
  <2>2. QED  BY <2>1, LoadingStep
<1>4. ASSUME Keyword  PROVE IInv' /\ Refines
  <2>1. Keywords[li] \in Name
    BY <1>1, <1>4, NamesAssumption DEF Keyword
  <2>2. symval[Keywords[li]] \in Value
    BY <2>1, NamesAssumption
  <2>3. \/ UNCHANGED <<defunvars, call, ended>>
        \/ \E n \in Name, v \in Value : defun_set(n, v)
    BY <1>4, <2>1, <2>2 DEF Keyword
  <2>4. /\ phase \in Loading /\ phase' \in Loading /\ li' \in Nat \ {0} /\ ended = "no"
        /\ UNCHANGED <<bundle, hash, buildvars, valuevars>>
    BY <1>1, <1>4 DEF Keyword, In, Step, Loading
  <2>5. QED  BY <2>3, <2>4, LoadingStep
<1>5. QED  BY <1>2, <1>3, <1>4

\* value_set keeps the invariant and is a step of the dictionary.
LEMMA ValueSetKeeps ==
    ASSUME IInv, ended = "no", phase' = phase, li' \in Nat \ {0},
           UNCHANGED <<bundle, hash, buildvars, defunvars>>,
           NEW n \in Name, NEW v \in Value, value_set(n, v)
    PROVE  IInv' /\ Refines
<1>1. UNCHANGED <<bootstrap_keys, defun_table, defun_table_used, dirty, young,
                  defun_table_size, defun_buckets, defun_displacement, placed>>
  BY DEF buildvars, defunvars
<1>2. /\ SameDefuns /\ Keys' = Keys /\ Frozen' = Frozen
      /\ \A m : SlotsOf(m)' = SlotsOf(m)
  BY DefunsUnchanged DEF Frozen, defunvars
<1>3. Collecting' /\ Placing' /\ Layout'
  <2>1. \A m : PerfectSlot(m)' = PerfectSlot(m) /\ hash_bucket(m)' = hash_bucket(m)
    BY <1>1 DEF PerfectSlot, hash_slot, hash_bucket
  <2>2. PlacedKeys' = PlacedKeys
    BY <1>1, <1>2, <2>1 DEF PlacedKeys
  <2>3. Collecting'
    BY <1>1, <1>2 DEF IInv, Collecting
  <2>4. Placing'
    BY <1>1, <1>2, <2>1, <2>2 DEF IInv, Placing, At
  <2>5. Layout'
    BY <1>1, <1>2, <2>1 DEF IInv, Layout, NoDuplicates, At
  <2>6. QED  BY <2>3, <2>4, <2>5
<1>4. CASE ValuesFull
  <2>1. UNCHANGED <<values_table, values_table_used>> /\ ended' = "exit"
    BY <1>4 DEF ValuesFull, valuevars
  <2>2. SameValues /\ Probing'
    BY <1>4, <2>1, ValuesUnchanged DEF IInv, valuevars
  <2>3. TablesTypeOK'
    BY <1>1, <2>1 DEF IInv, TablesTypeOK, NothingStale
  <2>4. Refines
    BY <1>1, <1>2, <1>4, <2>1, <2>2, RefinesValuesFull DEF ValuesFull, value_set
  <2>5. QED  BY <1>3, <2>2, <2>3, <2>4 DEF IInv
<1>5. CASE StoreValue(n, v)
  <2>1. /\ BindsValue(n, v)
        /\ values_table_used' = values_table_used + (IF n \in Stored THEN 0 ELSE 1)
        /\ values_table_used' \in Nat
        /\ values_table' \in [ValueSlots -> TableEntry]
        /\ Probing' /\ UNCHANGED ended
    BY <1>5, ValueStore DEF StoreValue
  <2>2. TablesTypeOK'
    BY <1>1, <2>1 DEF IInv, TablesTypeOK, NothingStale
  <2>3. Refines
    BY <1>1, <1>2, <2>1, RefinesValueSet DEF value_set
  <2>4. QED  BY <1>3, <2>1, <2>2, <2>3 DEF IInv
<1>6. QED  BY <1>4, <1>5 DEF value_set

-----------------------------------------------------------------------------
(* Freezing.                                                               *)

LEMMA DefunFreezeKeeps ==
    ASSUME IInv, DefunFreeze
    PROVE  IInv' /\ Refines
<1> USE Cap
<1>1. /\ phase = "values" /\ phase' = "place" /\ li' = 1 /\ ~Frozen /\ ~Frozen'
      /\ placed' = {} /\ defun_table' = [i \in Slots |-> Empty]
      /\ UNCHANGED <<bundle, hash, bootstrap_keys, defun_table_used, dirty, young,
                     values_table, values_table_used, call, ended>>
  BY DEF DefunFreeze, In, GoTo, Frozen, valuevars
<1>2. /\ defun_table_used \in Nat /\ defun_table_used > 0
      /\ defun_table_used = Cardinality(Keys) /\ Keys' = Keys
  BY <1>1 DEF IInv, TablesTypeOK, Collecting, Keys
<1>3. /\ defun_table_size' = defun_table_used
      /\ defun_buckets' \in Nat /\ defun_buckets' > 0
      /\ defun_displacement' = [b \in 0 .. defun_buckets' - 1 |-> 0]
  BY <1>2 DEF DefunFreeze
<1>4. Empty \in DefunEntry /\ 0 \in Displacements /\ Empty.value # Stale
  BY SizesAssumption, NamesAssumption DEF Empty, DefunEntry, Displacements
<1>5. TablesTypeOK'
  <2>1. defun_table' \in [Slots -> DefunEntry]
    BY <1>1, <1>4
  <2>2. defun_displacement' \in [0 .. defun_buckets' - 1 -> Displacements]
    BY <1>3, <1>4
  <2>3. defun_table_size' \in Nat /\ defun_buckets' \in Nat /\ placed' \subseteq 0 .. defun_buckets' - 1
    BY <1>1, <1>2, <1>3
  <2>4. /\ bundle \in Bundles /\ hash \in Hashes /\ dirty \subseteq Slots /\ young \subseteq Slots
        /\ bootstrap_keys \in [Name -> Value \cup {NoValue, Stale}]
        /\ values_table \in [ValueSlots -> TableEntry] /\ values_table_used \in Nat
        /\ ended \in {"no", "exit"}
    BY DEF IInv, TablesTypeOK
  <2>5. phase' = "place" /\ li' \in Nat \ {0}
    BY <1>1
  <2>6. (bundle.collects \/ NothingStale)'
    BY <1>1, <1>4 DEF IInv, TablesTypeOK, NothingStale
  <2>7. QED  BY <1>1, <1>2, <2>1, <2>2, <2>3, <2>4, <2>5, <2>6 DEF TablesTypeOK
<1>6. Collecting' /\ Layout'
  BY <1>1, <1>2 DEF IInv, Collecting, Layout
<1>7. PlacedKeys' = {}
  BY <1>1 DEF PlacedKeys
<1>8. \A i \in Slots : At(i)' = NoName
  BY <1>1 DEF At, Empty
<1>9. Placing'
  BY <1>1, <1>2, <1>3, <1>7, <1>8 DEF Placing
<1>10. SameDefuns /\ SameValues /\ Probing'
  BY <1>1, LoadingDefuns, ValuesUnchanged DEF IInv, valuevars
<1>11. Refines
  BY <1>1, <1>10, RefinesStutter
<1>12. QED  BY <1>5, <1>6, <1>9, <1>10, <1>11 DEF IInv

LEMMA PlaceBucketKeeps ==
    ASSUME IInv, PlaceBucket
    PROVE  IInv' /\ Refines
<1> USE Cap
<1>1. /\ phase = "place" /\ phase' = "place" /\ ~Frozen /\ ~Frozen'
      /\ UNCHANGED <<bundle, hash, li, defun_table_size, defun_buckets, bootstrap_keys,
            defun_table_used, dirty, young, values_table, values_table_used, call, ended>>
  BY DEF PlaceBucket, In, Frozen, valuevars, loadvars
<1>2. PICK b \in Unplaced, d \in Displacements :
        /\ Fits(b, d)
        /\ defun_displacement' = [defun_displacement EXCEPT ![b] = d]
        /\ placed' = placed \cup {b}
        /\ defun_table' = [i \in Slots |->
                IF \E n \in Bucket(b) : hash_slot(n, d) = i
                THEN LET n == CHOOSE n \in Bucket(b) : hash_slot(n, d) = i
                     IN  Slot(n, bootstrap_keys[n])
                ELSE defun_table[i]]
  BY DEF PlaceBucket
<1>3. /\ defun_table \in [Slots -> DefunEntry] /\ hash \in Hashes
      /\ defun_table_size \in Nat /\ defun_table_size > 0 /\ defun_buckets \in Nat
      /\ defun_buckets > 0 /\ bootstrap_keys \in [Name -> Value \cup {NoValue, Stale}]
      /\ defun_displacement \in [0 .. defun_buckets - 1 -> Displacements]
      /\ placed \subseteq 0 .. defun_buckets - 1 /\ b \in 0 .. defun_buckets - 1
      /\ b \notin placed /\ defun_table_size + DEFUN_OVERFLOW_CAP <= DEFUN_TABLE_CAP
      /\ defun_table_size = Cardinality(Keys)
  <2>1. defun_table_used > 0 /\ defun_table_used = Cardinality(Keys)
    BY <1>1 DEF IInv, Collecting
  <2>2. /\ defun_table_size = Cardinality(Keys) /\ defun_buckets > 0
    BY <1>1 DEF IInv, Placing
  <2>3. QED  BY <2>1, <2>2, KeysFinite DEF IInv, TablesTypeOK, Unplaced
<1>4. /\ Keys' = Keys /\ Keys \subseteq Name
      /\ \A n \in Name : \A e : hash_slot(n, e)' = hash_slot(n, e)
      /\ \A n \in Name : hash_bucket(n)' = hash_bucket(n)
  BY <1>1 DEF Keys, hash_slot, hash_bucket
<1>5. /\ \A n \in PlacedKeys : n \in Name /\ n \in Keys /\ PerfectSlot(n)' = PerfectSlot(n)
      /\ \A n \in Bucket(b) : n \in Name /\ n \in Keys /\ PerfectSlot(n)' = hash_slot(n, d)
      /\ PlacedKeys' = PlacedKeys \cup Bucket(b)
  BY <1>2, <1>3, <1>4 DEF PlacedKeys, Bucket, PerfectSlot
<1>6. /\ \A n \in Bucket(b) : hash_slot(n, d) \in 0 .. defun_table_size - 1
      /\ 0 .. defun_table_size - 1 \subseteq Slots
  BY <1>2, <1>3, <1>5, SlotRange DEF Slots
<1>7. /\ \A m, n \in Bucket(b) : hash_slot(m, d) = hash_slot(n, d) => m = n
      /\ \A n \in Bucket(b), m \in PlacedKeys : hash_slot(n, d) # PerfectSlot(m)
  BY <1>2 DEF Fits, UsedSlots
<1>8. \A n \in Bucket(b) : defun_table'[hash_slot(n, d)] = Slot(n, bootstrap_keys[n])
  <2> SUFFICES ASSUME NEW n \in Bucket(b)
               PROVE  defun_table'[hash_slot(n, d)] = Slot(n, bootstrap_keys[n])
    OBVIOUS
  <2>1. (CHOOSE m \in Bucket(b) : hash_slot(m, d) = hash_slot(n, d)) = n
    BY <1>7
  <2>2. hash_slot(n, d) \in Slots
    BY <1>6
  <2>3. QED  BY <1>2, <2>1, <2>2
<1>9. \A i \in Slots : (\A n \in Bucket(b) : hash_slot(n, d) # i) => defun_table'[i] = defun_table[i]
  BY <1>2
<1>10. \A n \in Bucket(b) : Slot(n, bootstrap_keys[n]) \in DefunEntry
  BY <1>3, <1>5 DEF Keys, Slot, DefunEntry
<1>11. \A i \in Slots :
         \/ defun_table'[i] = defun_table[i]
         \/ \E n \in Bucket(b) : i = hash_slot(n, d) /\ defun_table'[i] = Slot(n, bootstrap_keys[n])
  BY <1>8, <1>9
<1>12. TablesTypeOK'
  <2>1. defun_table' \in [Slots -> DefunEntry]
    <3>1. \A i \in Slots : defun_table'[i] \in DefunEntry
      BY <1>3, <1>10, <1>11
    <3>2. defun_table' = [i \in Slots |-> defun_table'[i]]
      BY <1>2
    <3>3. QED  BY <3>1, <3>2
  <2>2. defun_displacement' \in [0 .. defun_buckets' - 1 -> Displacements]
    BY <1>1, <1>2, <1>3
  <2>3. placed' \subseteq 0 .. defun_buckets' - 1
    BY <1>1, <1>2, <1>3
  <2>4. (bundle.collects \/ NothingStale)'
    <3>1. ASSUME NothingStale, NEW i \in Slots  PROVE defun_table'[i].value # Stale
      <4>1. /\ \A n \in Bucket(b) : bootstrap_keys[n] # Stale
            /\ defun_table[i].value # Stale
        BY <1>5, <3>1 DEF NothingStale
      <4>2. CASE defun_table'[i] = defun_table[i]
        BY <4>1, <4>2
      <4>3. ASSUME NEW n \in Bucket(b), defun_table'[i] = Slot(n, bootstrap_keys[n])
            PROVE  defun_table'[i].value # Stale
        BY <4>1, <4>3 DEF Slot
      <4>4. QED  BY <1>11, <4>2, <4>3
    <3>2. NothingStale => NothingStale'
      BY <1>1, <3>1 DEF NothingStale
    <3>3. QED  BY <1>1, <3>2 DEF IInv, TablesTypeOK
  <2>5. QED  BY <1>1, <2>1, <2>2, <2>3, <2>4 DEF IInv, TablesTypeOK
<1>13. Placing'
  <2>1. /\ \A i \in Slots : i >= defun_table_size => At(i) = NoName
        /\ \A i \in Slots : At(i) # NoName => At(i) \in Keys
        /\ \A n \in PlacedKeys : defun_table[PerfectSlot(n)] = Slot(n, bootstrap_keys[n])
        /\ \A m, n \in PlacedKeys : PerfectSlot(m) = PerfectSlot(n) => m = n
    BY <1>1 DEF IInv, Placing
  <2>2. \A i \in Slots : i >= defun_table_size => At(i)' = NoName
    <3> SUFFICES ASSUME NEW i \in Slots, i >= defun_table_size  PROVE At(i)' = NoName
      OBVIOUS
    <3>1. \A n \in Bucket(b) : hash_slot(n, d) # i
      BY <1>3, <1>6 DEF Slots
    <3>2. QED  BY <1>9, <2>1, <3>1 DEF At
  <2>3. \A i \in Slots : At(i)' # NoName => At(i)' \in Keys
    <3> SUFFICES ASSUME NEW i \in Slots, At(i)' # NoName  PROVE At(i)' \in Keys
      OBVIOUS
    <3>1. CASE defun_table'[i] = defun_table[i]
      BY <2>1, <3>1 DEF At
    <3>2. ASSUME NEW n \in Bucket(b), defun_table'[i] = Slot(n, bootstrap_keys[n])
          PROVE  At(i)' \in Keys
      BY <1>5, <3>2 DEF At, Slot
    <3>3. QED  BY <1>11, <3>1, <3>2
  <2>4. \A n \in PlacedKeys' : defun_table'[PerfectSlot(n)'] = Slot(n, bootstrap_keys[n])
    <3>1. ASSUME NEW n \in PlacedKeys
          PROVE  defun_table'[PerfectSlot(n)'] = Slot(n, bootstrap_keys[n])
      <4>1. PerfectSlot(n) \in Slots
        BY <1>3, <1>5, <1>6, PerfectRange DEF BuildTyped
      <4>2. defun_table'[PerfectSlot(n)] = defun_table[PerfectSlot(n)]
        BY <1>7, <1>9, <4>1
      <4>3. QED  BY <1>5, <2>1, <4>2
    <3>2. QED  BY <1>5, <1>8, <3>1
  <2>5. \A m, n \in PlacedKeys' : PerfectSlot(m)' = PerfectSlot(n)' => m = n
    BY <1>5, <1>7, <2>1
  <2>6. QED  BY <1>1, <1>3, <1>4, <2>2, <2>3, <2>4, <2>5 DEF Placing
<1>14. Collecting' /\ Layout'
  BY <1>1, <1>4 DEF IInv, Collecting, Layout
<1>15. SameDefuns /\ SameValues /\ Probing'
  BY <1>1, LoadingDefuns, ValuesUnchanged DEF IInv, valuevars
<1>16. Refines
  BY <1>1, <1>15, RefinesStutter
<1>17. QED  BY <1>12, <1>13, <1>14, <1>15, <1>16 DEF IInv

LEMMA DoubleBucketsKeeps ==
    ASSUME IInv, DoubleBuckets
    PROVE  IInv' /\ Refines
<1>1. /\ phase = "place" /\ phase' = "place" /\ ~Frozen /\ ~Frozen' /\ placed' = {}
      /\ defun_buckets' = defun_buckets * 2
      /\ defun_displacement' = [b \in 0 .. defun_buckets' - 1 |-> 0]
      /\ UNCHANGED <<bundle, hash, li, defun_table_size, bootstrap_keys, defun_table,
            defun_table_used, dirty, young, values_table, values_table_used, call, ended>>
  BY DEF DoubleBuckets, In, Frozen, valuevars, loadvars, defunvars
<1>2. defun_buckets \in Nat /\ defun_buckets > 0 /\ 0 \in Displacements
  BY <1>1, SizesAssumption DEF IInv, TablesTypeOK, Placing, Displacements
<1>3. defun_buckets' \in Nat /\ defun_buckets' > 0
  BY <1>1, <1>2
<1>4. TablesTypeOK'
  BY <1>1, <1>2, <1>3 DEF IInv, TablesTypeOK, NothingStale
<1>5. Keys' = Keys /\ PlacedKeys' = {}
  BY <1>1 DEF Keys, PlacedKeys
<1>6. Placing' /\ Collecting' /\ Layout'
  BY <1>1, <1>3, <1>5 DEF IInv, Placing, Collecting, Layout, At
<1>7. SameDefuns /\ SameValues /\ Probing'
  BY <1>1, LoadingDefuns, ValuesUnchanged DEF IInv, valuevars
<1>8. Refines
  BY <1>1, <1>7, RefinesStutter
<1>9. QED  BY <1>4, <1>6, <1>7, <1>8 DEF IInv

\* N keys in slots of their own fill all N slots: the assertion of
\* defun_freeze cannot fail, and the frozen table is the list of keys.
LEMMA FreezeEndsKeeps ==
    ASSUME IInv, FreezeEnds
    PROVE  IInv' /\ Refines
<1> USE Cap
<1>1. /\ phase = "place" /\ ~Frozen /\ Unplaced = {}
      /\ UNCHANGED <<defun_table_size, defun_buckets, defun_displacement, placed,
            defun_table, defun_table_used, values_table, values_table_used, call>>
  BY DEF FreezeEnds, In, Frozen, valuevars, buildvars
<1>2. /\ defun_table \in [Slots -> DefunEntry] /\ BuildTyped
      /\ defun_table_size \in Nat /\ defun_table_used \in Nat
      /\ bootstrap_keys \in [Name -> Value \cup {NoValue, Stale}]
  BY DEF IInv, TablesTypeOK, BuildTyped
<1>3. /\ defun_table_size = Cardinality(Keys) /\ defun_table_used = Cardinality(Keys)
      /\ defun_table_size > 0 /\ defun_buckets > 0 /\ dirty = {}
      /\ defun_table_size + DEFUN_OVERFLOW_CAP <= DEFUN_TABLE_CAP
  BY <1>1, KeysFinite DEF IInv, Collecting, Placing
<1>4. PlacedKeys = Keys /\ Keys \subseteq Name
  BY <1>1, <1>2, <1>3, BucketRange DEF PlacedKeys, Keys, Unplaced, BuildTyped
<1>5. /\ \A i \in Slots : i >= defun_table_size => At(i) = NoName
      /\ \A n \in Keys : defun_table[PerfectSlot(n)] = Slot(n, bootstrap_keys[n])
      /\ \A m, n \in Keys : PerfectSlot(m) = PerfectSlot(n) => m = n
  BY <1>1, <1>4 DEF IInv, Placing
<1>6. \A n \in Name : PerfectSlot(n) \in 0 .. defun_table_size - 1
  BY <1>2, <1>3, PerfectRange
<1> DEFINE f == [n \in Keys |-> PerfectSlot(n)]
<1>7. \A i \in 0 .. defun_table_size - 1 : \E n \in Keys : PerfectSlot(n) = i
  <2>1. f \in Injection(Keys, 0 .. defun_table_size - 1)
    <3>1. f \in [Keys -> 0 .. defun_table_size - 1]
      BY <1>4, <1>6
    <3>2. \A m, n \in Keys : f[m] = f[n] => m = n
      BY <1>5
    <3>3. QED  BY <3>1, <3>2 DEF Injection, IsInjective
  <2>2. IsFiniteSet(0 .. defun_table_size - 1) /\ Cardinality(0 .. defun_table_size - 1) = defun_table_size
    <3>1. 0 \in Int /\ defun_table_size - 1 \in Int /\ ~(0 > defun_table_size - 1)
          /\ defun_table_size - 1 - 0 + 1 = defun_table_size
      BY <1>2, <1>3
    <3>2. QED  BY <3>1, FS_Interval
  <2>3. f \in Surjection(Keys, 0 .. defun_table_size - 1)
    BY <1>3, <2>1, <2>2, FS_Injection
  <2>4. QED  BY <2>3 DEF Surjection
<1>8. 0 .. defun_table_size - 1 \subseteq Slots
  BY <1>2, <1>3 DEF Slots
<1>9. \A n \in Keys : At(PerfectSlot(n)) = n /\ n # NoName
  <2> SUFFICES ASSUME NEW n \in Keys  PROVE At(PerfectSlot(n)) = n /\ n # NoName
    OBVIOUS
  <2>1. defun_table[PerfectSlot(n)] = Slot(n, bootstrap_keys[n])
    BY <1>5
  <2>2. defun_table[PerfectSlot(n)].name = n
    BY <2>1 DEF Slot
  <2>3. QED  BY <1>4, <2>2, NamesAssumption DEF At
<1>10. \A i \in Slots : At(i) # NoName <=> i < defun_table_size
  BY <1>2, <1>5, <1>7, <1>9 DEF Slots
<1>11. \A i \in Slots : i < defun_table_size => At(i) \in Keys /\ PerfectSlot(At(i)) = i
  BY <1>2, <1>7, <1>9 DEF Slots
<1>12. NoDuplicates
  BY <1>10, <1>11 DEF NoDuplicates
<1>13. CollisionFree
  BY <1>2, <1>8, <1>10, <1>12 DEF CollisionFree, NoDuplicates
<1>14. /\ phase' = "runtime" /\ li' = 1 /\ UNCHANGED <<bundle, hash, ended>> /\ Frozen'
       /\ bootstrap_keys' = [n \in Name |-> NoValue]
       /\ dirty' = 0 .. defun_table_size - 1 /\ young' = 0 .. defun_table_size - 1
  BY <1>3, <1>13 DEF FreezeEnds, GoTo, Frozen
<1>15. TablesTypeOK'
  BY <1>1, <1>8, <1>14, NamesAssumption DEF IInv, TablesTypeOK, NothingStale
<1>16. \A n \in Name : PerfectSlot(n)' = PerfectSlot(n)
  BY <1>1, <1>14 DEF PerfectSlot, hash_slot, hash_bucket
<1>17. Layout'
  <2>1. \A i \in Slots : i < defun_table_size' => (PerfectSlot(At(i)) = i)'
    BY <1>1, <1>4, <1>11, <1>16 DEF At
  <2>2. NoDuplicates'
    BY <1>1, <1>12 DEF NoDuplicates, At
  <2>3. \A i \in Slots : At(i)' # NoName <=> i < defun_table_used'
    BY <1>1, <1>3, <1>10 DEF At
  <2>4. defun_table_used' \in defun_table_size' .. defun_table_size' + DEFUN_OVERFLOW_CAP
    BY <1>1, <1>2, <1>3
  <2>5. QED  BY <1>1, <1>3, <1>14, <2>1, <2>2, <2>3, <2>4 DEF Layout
<1>18. Collecting' /\ Placing'
  BY <1>14 DEF Collecting, Placing, Frozen
<1>19. SameDefuns
  <2>1. DefunsExact'
    BY <1>1, <1>2, <1>14, <1>17, FrozenLookupNext DEF BuildTyped
  <2>2. ASSUME NEW n \in Keys
        PROVE  SlotsOf(n)' = {PerfectSlot(n)} /\ First(SlotsOf(n))' = PerfectSlot(n)
    <3>1. PerfectSlot(n) \in Slots /\ defun_table'[PerfectSlot(n)].name = n /\ n \in Name
      BY <1>1, <1>4, <1>6, <1>8, <1>9 DEF At
    <3>2. \A i \in Slots : defun_table'[i].name = n => SlotsOf(n)' = {i} /\ First(SlotsOf(n))' = i
      BY <2>1, <3>1 DEF DefunsExact, At
    <3>3. QED  BY <3>1, <3>2
  <2>3. ASSUME NEW n \in Name, n \notin Keys  PROVE SlotsOf(n)' = {}
    <3>1. \A i \in Slots : At(i)' # n
      BY <1>1, <1>2, <1>10, <1>11, <2>3, NamesAssumption DEF At, Slots
    <3>2. SlotsOf(n)' = {i \in Slots : At(i)' = n}
      BY <2>1 DEF DefunsExact
    <3>3. QED  BY <3>1, <3>2
  <2>4. \A n \in Name : (n \in Keys <=> defun_has(n)) /\ (n \in Keys <=> defun_has(n)')
    BY <1>1, <1>14, <2>2, <2>3 DEF defun_has, Keys
  <2>5. ASSUME NEW n \in Keys  PROVE defun_get(n)' = defun_get(n)
    <3>1. n \in Name /\ defun_get(n) = bootstrap_keys[n]
      BY <1>1, <1>4, <2>4 DEF defun_get
    <3>2. defun_get(n)' = defun_table'[PerfectSlot(n)].value
      BY <1>14, <2>2, <2>4, <3>1 DEF defun_get
    <3>3. defun_table[PerfectSlot(n)] = Slot(n, bootstrap_keys[n])
      BY <1>5
    <3>4. defun_table'[PerfectSlot(n)].value = bootstrap_keys[n]
      BY <1>1, <3>3 DEF Slot
    <3>5. QED  BY <3>1, <3>2, <3>4
  <2>6. ASSUME NEW n \in Name, n \notin Keys  PROVE defun_get(n)' = defun_get(n)
    BY <2>4, <2>6 DEF defun_get
  <2>7. QED  BY <2>4, <2>5, <2>6 DEF SameDefuns, Known
<1>20. SameValues /\ Probing'
  BY <1>1, <1>14, ValuesUnchanged DEF IInv, valuevars
<1>21. Refines
  BY <1>1, <1>14, <1>19, <1>20, RefinesSettle DEF IInv, TablesTypeOK
<1>22. QED  BY <1>15, <1>17, <1>18, <1>20, <1>21 DEF IInv

-----------------------------------------------------------------------------
(* Calls after loading.                                                    *)

LEMMA FrozenDefunSet ==
    ASSUME IInv, phase = "runtime", ended = "no", UNCHANGED <<loadvars, buildvars, valuevars>>,
           NEW n \in Name, NEW v \in Value, defun_set(n, v)
    PROVE  IInv' /\ Refines
<1> USE Cap
<1>1. /\ Frozen /\ Frozen'
      /\ UNCHANGED <<bundle, hash, phase, li, defun_table_size, defun_buckets,
            defun_displacement, placed, values_table, values_table_used>>
  BY DEF Frozen, loadvars, buildvars, valuevars
<1>2. /\ BuildTyped /\ Layout /\ defun_table_used \in Nat /\ defun_table_size \in Nat
      /\ defun_table_size + DEFUN_OVERFLOW_CAP <= DEFUN_TABLE_CAP
      /\ defun_table_used \in defun_table_size .. defun_table_size + DEFUN_OVERFLOW_CAP
  BY <1>1 DEF IInv, TablesTypeOK, BuildTyped, Layout
<1>3. SameValues /\ Probing'
  BY <1>1, ValuesUnchanged DEF IInv, valuevars
<1>4. Collecting' /\ Placing'
  BY <1>1 DEF Collecting, Placing, Frozen
<1>5. /\ SlotsOf(n) = {i \in Slots : At(i) = n}
      /\ \A i \in Slots : At(i) = n => SlotsOf(n) = {i} /\ First(SlotsOf(n)) = i
  BY <1>1, <1>2, FrozenLookup DEF DefunsExact
<1>6. OverflowTail \subseteq Slots /\ \A i \in Slots : At(i) # NoName <=> i < defun_table_used
  BY <1>1, <1>2 DEF Layout, OverflowTail, Slots
<1>7. (n \in Known) = (SlotsOf(n) # {})
  BY <1>1 DEF Known, defun_has
<1>8. ASSUME NEW i \in Slots, Store(i, n, v),
             \/ At(i) = n /\ defun_table_used' = defun_table_used
             \/ /\ At(i) = NoName /\ i = defun_table_used /\ i \in OverflowTail
                /\ SlotsOf(n) = {} /\ defun_table_used' = defun_table_used + 1
      PROVE  IInv' /\ Refines
  <2>1. /\ BindsDefun(n, v) /\ Layout'
        /\ defun_table_used' = defun_table_used + (IF n \in Known THEN 0 ELSE 1)
        /\ defun_table' \in [Slots -> DefunEntry]
        /\ (bundle.collects \/ NothingStale)'
    BY <1>1, <1>8, FrozenStore
  <2>2. /\ dirty' = dirty \cup {i} /\ young' = young \cup {i} /\ UNCHANGED <<bootstrap_keys, ended>>
    BY <1>8 DEF Store
  <2>3. defun_table_used' \in Nat
    BY <1>2, <1>8
  <2>4. TablesTypeOK'
    BY <1>1, <1>8, <2>1, <2>2, <2>3 DEF IInv, TablesTypeOK, NothingStale
  <2>5. Refines
    BY <1>1, <1>3, <2>1, <2>2, RefinesDefunSet DEF defun_set
  <2>6. QED  BY <1>3, <1>4, <2>1, <2>4, <2>5 DEF IInv
<1>9. CASE UpdateSlot(n, v)
  <2>1. PICK i \in Slots : At(i) = n
    BY <1>5, <1>9 DEF UpdateSlot
  <2>2. First(SlotsOf(n)) = i
    BY <1>5, <2>1
  <2>3. QED  BY <1>8, <1>9, <2>1, <2>2 DEF UpdateSlot
<1>10. CASE AppendSlot(n, v)
  <2>1. PICK k \in OverflowTail : At(k) = NoName
    BY <1>10 DEF AppendSlot, FreeTail
  <2>2. defun_table_used \in OverflowTail /\ At(defun_table_used) = NoName
    BY <1>2, <1>6, <2>1 DEF OverflowTail
  <2>3. \A i \in FreeTail : i \in Int /\ defun_table_used <= i
    BY <1>2, <1>6 DEF FreeTail, OverflowTail
  <2>4. defun_table_used \in FreeTail
    BY <2>2 DEF FreeTail
  <2>5. First(FreeTail) = defun_table_used
    <3>1. \A i \in FreeTail : (\A j \in FreeTail : i <= j) => i = defun_table_used
      BY <1>2, <2>3, <2>4
    <3>2. \A j \in FreeTail : defun_table_used <= j
      BY <2>3
    <3>3. QED  BY <2>4, <3>1, <3>2 DEF First
  <2>6. QED  BY <1>6, <1>8, <1>10, <2>2, <2>5 DEF AppendSlot
<1>11. CASE TailFull(n)
  <2>1. /\ UNCHANGED <<bootstrap_keys, defun_table, defun_table_used, dirty, young>>
        /\ ended' = "exit" /\ SlotsOf(n) = {} /\ FreeTail = {}
    BY <1>11 DEF TailFull, defunvars
  <2>2. SameDefuns /\ Keys' = Keys /\ \A m : SlotsOf(m)' = SlotsOf(m)
    BY <1>1, <2>1, DefunsUnchanged DEF buildvars
  <2>3. TablesTypeOK'
    BY <1>1, <2>1 DEF IInv, TablesTypeOK, NothingStale
  <2>4. \A m : PerfectSlot(m)' = PerfectSlot(m)
    BY <1>1 DEF PerfectSlot, hash_slot, hash_bucket
  <2>5. Layout'
    BY <1>1, <1>2, <2>1, <2>4 DEF Layout, NoDuplicates, At
  <2>6. defun_table_used >= DEFUN_OVERFLOW_CAP
    <3>1. defun_table_used \notin OverflowTail
      BY <1>6, <1>2, <2>1 DEF FreeTail
    <3>2. QED  BY <1>2, <3>1 DEF OverflowTail
  <2>7. n \notin Known
    BY <1>7, <2>1
  <2>8. Refines
    BY <1>1, <1>3, <2>1, <2>2, <2>6, <2>7, RefinesTailFull DEF defun_set
  <2>9. QED  BY <1>3, <1>4, <2>3, <2>5, <2>8 DEF IInv
<1>12. QED  BY <1>1, <1>9, <1>10, <1>11 DEF defun_set

\* The values a scavenge could lose are in slots it scans.
LEMMA ScavengeKeeps ==
    ASSUME IInv, Scavenge
    PROVE  IInv' /\ Refines
<1>1. /\ Frozen /\ Frozen' /\ dirty' = {} /\ young' = {}
      /\ UNCHANGED <<bundle, hash, phase, li, defun_table_size, defun_buckets,
            defun_displacement, placed, bootstrap_keys, defun_table_used,
            values_table, values_table_used, call, ended>>
  BY DEF Scavenge, In, Frozen, loadvars, buildvars, valuevars
<1>2. /\ young \ dirty = {} /\ defun_table \in [Slots -> DefunEntry]
  BY <1>1 DEF IInv, TablesTypeOK, Layout
<1>3. defun_table' = defun_table
  BY <1>2 DEF Scavenge
<1>4. TablesTypeOK'
  BY <1>1, <1>3 DEF IInv, TablesTypeOK, NothingStale
<1>5. SameDefuns /\ SameValues /\ Probing'
  BY <1>1, <1>3, DefunsUnchanged, ValuesUnchanged DEF IInv, valuevars, buildvars
<1>6. \A m : PerfectSlot(m)' = PerfectSlot(m)
  BY <1>1 DEF PerfectSlot, hash_slot, hash_bucket
<1>7. Layout' /\ Collecting' /\ Placing'
  BY <1>1, <1>3, <1>6 DEF IInv, Layout, Collecting, Placing, NoDuplicates, At, Frozen
<1>8. Refines
  BY <1>1, <1>5, RefinesStutter
<1>9. QED  BY <1>4, <1>5, <1>7, <1>8 DEF IInv

\* A collection before the freeze changes values of the list only.
LEMMA CollectUnfrozenKeeps ==
    ASSUME IInv, CollectUnfrozen
    PROVE  IInv' /\ Refines
<1>1. /\ ~Frozen /\ ~Frozen' /\ phase # "place" /\ bundle.collects /\ ended = "no"
      /\ UNCHANGED <<bundle, hash, phase, li, defun_table_size, defun_buckets,
            defun_displacement, placed, defun_table, defun_table_used, dirty, young,
            values_table, values_table_used, call, ended>>
  BY DEF CollectUnfrozen, Frozen, loadvars, buildvars, valuevars
<1>2. PICK lost \in SUBSET {n \in Keys : bootstrap_keys[n] \in Moving} :
        bootstrap_keys' = [n \in Name |-> IF n \in lost THEN Stale ELSE bootstrap_keys[n]]
  BY DEF CollectUnfrozen
<1>3. bootstrap_keys \in [Name -> Value \cup {NoValue, Stale}]
  BY DEF IInv, TablesTypeOK
<1>4. /\ bootstrap_keys' \in [Name -> Value \cup {NoValue, Stale}]
      /\ \A n \in Name : bootstrap_keys'[n] = NoValue <=> bootstrap_keys[n] = NoValue
      /\ \A n \in Name : \/ bootstrap_keys'[n] = bootstrap_keys[n]
                         \/ bootstrap_keys[n] \in Moving /\ bootstrap_keys'[n] = Stale
  BY <1>2, <1>3, NamesAssumption DEF Keys
<1>5. Keys' = Keys
  BY <1>4 DEF Keys
<1>6. TablesTypeOK'
  BY <1>1, <1>4 DEF IInv, TablesTypeOK
<1>7. Collecting' /\ Placing' /\ Layout'
  BY <1>1, <1>5 DEF IInv, Collecting, Placing, Layout
<1>8. SameValues /\ Probing'
  BY <1>1, ValuesUnchanged DEF IInv, valuevars
<1>9. Known = Keys /\ Known' = Keys
  BY <1>1, <1>5 DEF Known, Keys, defun_has
<1>10. \A n \in Known : defun_get(n) = bootstrap_keys[n] /\ defun_get(n)' = bootstrap_keys'[n]
  BY <1>1, <1>9 DEF Known, Keys, defun_get, defun_has
<1>11. \A n \in Known : /\ \/ defun_get(n)' = defun_get(n)
                           \/ defun_get(n) \in Moving /\ defun_get(n)' = Stale
                        /\ defun_get(n)' \in Value \cup {Stale}
  BY <1>4, <1>5, <1>9, <1>10 DEF Keys
<1>12. Refines
  BY <1>1, <1>8, <1>9, <1>11, RefinesLose
<1>13. QED  BY <1>6, <1>7, <1>8, <1>12 DEF IInv

LEMMA CallsKeep ==
    ASSUME IInv, NEW n \in Name, NEW v \in Value, DefunSet(n, v) \/ ValueSet(n, v)
    PROVE  IInv' /\ Refines
<1>1. /\ phase \in {"runtime", "bare"} /\ ended = "no" /\ li \in Nat \ {0}
      /\ UNCHANGED <<loadvars, bundle, hash, phase, li, buildvars>>
  BY DEF DefunSet, ValueSet, Loaded, loadvars, IInv, TablesTypeOK
<1>2. CASE DefunSet(n, v) /\ phase = "runtime"
  BY <1>1, <1>2, FrozenDefunSet DEF DefunSet
<1>3. CASE DefunSet(n, v) /\ phase = "bare"
  BY <1>1, <1>3, LoadingStep DEF DefunSet, Loading
<1>4. CASE ValueSet(n, v)
  BY <1>1, <1>4, ValueSetKeeps DEF ValueSet
<1>5. QED  BY <1>1, <1>2, <1>3, <1>4

LEMMA StartupKeeps ==
    ASSUME IInv, StartupValue
    PROVE  IInv' /\ Refines
<1>1. li \in 1 .. Len(Startup) /\ li' \in Nat \ {0}
  <2>1. li \in Nat /\ li > 0 /\ li <= Len(Startup) /\ li' = li + 1
    BY DEF IInv, TablesTypeOK, StartupValue, Step
  <2>2. Len(Startup) \in Nat
    BY NamesAssumption
  <2>3. QED  BY <2>1, <2>2
<1>2. Startup[li] \in [name : Name, value : Value]
  <2>1. Startup \in Seq([name : Name, value : Value])
    BY NamesAssumption
  <2>2. QED  BY <1>1, <2>1, ElementOfSeq
<1>3. Startup[li].name \in Name /\ Startup[li].value \in Value
  BY <1>2
<1>4. QED  BY <1>1, <1>3, ValueSetKeeps DEF StartupValue, In, Step

-----------------------------------------------------------------------------
(* The theorems.                                                           *)

LEMMA TablesStart == TablesInit => IInv /\ Dict!Init
<1> SUFFICES ASSUME TablesInit  PROVE IInv /\ Dict!Init
  OBVIOUS
<1>1. /\ phase \in {"entries", "bare"} /\ ~Frozen /\ placed = {} /\ dirty = {} /\ young = {}
      /\ bootstrap_keys = [n \in Name |-> IF n \in PrimNames THEN primval[n] ELSE NoValue]
      /\ values_table = [i \in ValueSlots |-> Empty] /\ values_table_used = 0
      /\ defun_table_used = Cardinality(PrimNames)
  BY DEF TablesInit, Frozen
<1>2. Keys = PrimNames /\ IsFiniteSet(PrimNames)
  BY <1>1, NamesAssumption, FS_Subset DEF Keys
<1>3. Cardinality(PrimNames) \in Nat /\ Cardinality(PrimNames) > 0
  BY <1>2, NamesAssumption, FS_CardinalityType, FS_EmptySet
<1>4. Empty \in TableEntry /\ Empty \in DefunEntry /\ Empty.value # Stale
  BY NamesAssumption DEF Empty, TableEntry, DefunEntry
<1>5. TablesTypeOK
  <2>1. bootstrap_keys \in [Name -> Value \cup {NoValue, Stale}]
    BY <1>1, NamesAssumption
  <2>2. defun_table \in [Slots -> DefunEntry] /\ values_table \in [ValueSlots -> TableEntry]
    BY <1>4 DEF TablesInit
  <2>3. defun_buckets = 0 /\ defun_displacement \in [0 .. defun_buckets - 1 -> Displacements]
    <3>1. 0 .. 0 - 1 = {}
      OBVIOUS
    <3>2. QED  BY <3>1 DEF TablesInit
  <2>4. NothingStale
    BY <1>1, <1>4, NamesAssumption DEF TablesInit, NothingStale
  <2>5. QED  BY <1>1, <1>3, <2>1, <2>2, <2>3, <2>4 DEF TablesInit, TablesTypeOK
<1>6. Collecting /\ Placing /\ Layout
  BY <1>1, <1>2, <1>3 DEF Collecting, Placing, Layout
<1>7. Probing
  BY <1>1 DEF Probing, Empty
<1>8. Known = PrimNames /\ [n \in Known |-> defun_get(n)] = [n \in PrimNames |-> primval[n]]
  <2>1. Known = PrimNames
    BY <1>1, <1>2 DEF Known, Keys, defun_has
  <2>2. \A n \in PrimNames : defun_get(n) = primval[n]
    BY <1>1, <2>1, NamesAssumption DEF defun_get, Known
  <2>3. QED  BY <2>1, <2>2
<1>9. Stored = {}
  <2>1. ValuesExact
    BY <1>5, <1>7, ValueLookup DEF TablesTypeOK
  <2>2. \A i \in ValueSlots : values_table[i].name = NoName
    BY <1>1 DEF Empty
  <2>3. QED  BY <2>1, <2>2, NamesAssumption DEF ValuesExact, Stored
<1>10. Dict!Init
  <2>1. [n \in Stored |-> value_get(n)] = [n \in {} |-> n]
    BY <1>9
  <2>2. Lossy \in BOOLEAN
    BY FilesAssumption DEF TablesInit, Lossy, Frozen
  <2>3. QED  BY <1>1, <1>8, <2>1, <2>2 DEF Dict!Init, TablesInit
<1>11. QED  BY <1>5, <1>6, <1>7, <1>10 DEF IInv

LEMMA TablesSteps == IInv /\ [TablesNext]_tablesvars => IInv' /\ Refines
<1> SUFFICES ASSUME IInv, [TablesNext]_tablesvars  PROVE IInv' /\ Refines
  OBVIOUS
<1>1. CASE LoadStep
  BY <1>1, LoadStepKeeps, StartupKeeps, DefunFreezeKeeps, PlaceBucketKeeps, DoubleBucketsKeeps,
     FreezeEndsKeeps DEF LoadStep
<1>2. CASE \E n \in Name, v \in Value : DefunSet(n, v) \/ ValueSet(n, v)
  BY <1>2, CallsKeep
<1>3. CASE Scavenge
  BY <1>3, ScavengeKeeps
<1>4. CASE UNCHANGED tablesvars
  <2>1. UNCHANGED <<bundle, hash, phase, li, defun_table_size, defun_buckets, defun_displacement,
            placed, bootstrap_keys, defun_table, defun_table_used, dirty, young, values_table,
            values_table_used, call, ended>>
    BY <1>4 DEF tablesvars, loadvars, buildvars, defunvars, valuevars
  <2>2. TablesTypeOK'
    BY <2>1 DEF IInv, TablesTypeOK, NothingStale
  <2>3. /\ SameDefuns /\ SameValues /\ Probing' /\ Keys' = Keys
        /\ \A m : PerfectSlot(m)' = PerfectSlot(m) /\ hash_bucket(m)' = hash_bucket(m)
    <3>1. Frozen' = Frozen
      BY <2>1 DEF Frozen
    <3>2. QED  BY <2>1, <3>1, DefunsUnchanged, ValuesUnchanged
               DEF IInv, valuevars, buildvars, PerfectSlot, hash_slot, hash_bucket
  <2>4. PlacedKeys' = PlacedKeys
    BY <2>1, <2>3 DEF PlacedKeys
  <2>5. Collecting' /\ Placing' /\ Layout'
    BY <2>1, <2>3, <2>4 DEF IInv, Collecting, Placing, Layout, NoDuplicates, At, Frozen
  <2>6. Refines
    BY <2>1, <2>3, RefinesStutter DEF Frozen
  <2>7. QED  BY <2>2, <2>3, <2>5, <2>6 DEF IInv
<1>5. CASE CollectUnfrozen
  BY <1>5, CollectUnfrozenKeeps
<1>6. QED  BY <1>1, <1>2, <1>3, <1>4, <1>5 DEF TablesNext

\* Types, in every reachable state: a slot holds what a collection left of a
\* value only if the heap was collected before the freeze, the values table
\* never does, and defun_freeze never aborts.
THEOREM TablesTyped == TablesSpec => []TablesTypeOK
<1>1. IInv => TablesTypeOK
  BY DEF IInv
<1>2. QED  BY <1>1, TablesStart, TablesSteps, PTL DEF TablesSpec

\* The bundle loader, the perfect hash, its overflow tail and the probed table
\* of values implement two partial functions.  With any collections before
\* the freeze and any scavenges after it, only the former lose values, and of
\* those only closures in the list that is not frozen yet.
THEOREM TablesImplementDictionary == TablesSpec => KeepsDictionary
<1>1. TablesInit => Dict!Init
  BY TablesStart
<1>2. IInv /\ [TablesNext]_tablesvars => [Dict!Next]_(Dict!vars)
  BY TablesSteps DEF Refines
<1>3. QED  BY <1>1, <1>2, TablesStart, TablesSteps, PTL DEF TablesSpec, KeepsDictionary, Dict!Spec
=============================================================================
