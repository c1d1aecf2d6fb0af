----------------------------- MODULE ZincTables -----------------------------
(***************************************************************************)
(* The two name spaces of the Zinc virtual machine (zincvm.c): the defun   *)
(* table, collected in a list while the bundle loads, frozen into a        *)
(* minimal perfect hash and extended by an overflow tail, and the open-    *)
(* addressed table of values.  Loading and freezing are modelled with the  *)
(* calls that follow, with the collections that run before the freeze and  *)
(* do not know the list, and with the scavenges after it that look at      *)
(* dirty slots only.                                                       *)
(***************************************************************************)
EXTENDS Integers, Sequences, FiniteSets

CONSTANTS
    Name, Value, NoName, NoValue,
    Moving,             \* the values that point into the heap: closures
    Stale,              \* what is left of a value the collector did not keep
    PrimNames,          \* the names of prims.def
    primval, symval,    \* val_prim and val_symbol, as functions on Name
    Keywords,           \* the pattern tags, a sequence of names
    Startup,            \* the value_set calls of vm_load_bundle
    Bundles, Hashes,
    DEFUN_TABLE_CAP, DEFUN_OVERFLOW_CAP, VALUES_TABLE_CAP,
    MaxDisplacement,    \* displacements tried for a bucket
    MaxBuckets          \* bound: the doubling stops here

ASSUME NamesAssumption ==
    /\ IsFiniteSet(Name) /\ NoName \notin Name
    /\ NoValue \notin Value /\ Stale \notin Value /\ NoValue # Stale
    /\ Moving \subseteq Value
    /\ PrimNames \subseteq Name /\ PrimNames # {}
    /\ primval \in [Name -> Value] /\ symval \in [Name -> Value]
    /\ Keywords \in Seq(Name)
    /\ Startup \in Seq([name : Name, value : Value])

\* A parsed entry, or one the parser gives up on before or after its store.
Entry == [name : Name, value : Value, broken : {"no", "before", "after"}]

\* A bundle "collects" when what is allocated before the freeze, which is mostly
\* the code of its entries, fills the nursery or the heap to a trigger.
ASSUME FilesAssumption ==
    /\ \A b \in Bundles :
         b.opens \in BOOLEAN /\ b.collects \in BOOLEAN /\ b.entries \in Seq(Entry)
    /\ \A h \in Hashes :
         /\ h.h0 \in [Name -> Nat]
         /\ h.h1 \in [Name -> [0 .. MaxDisplacement - 1 -> Nat]]
         /\ h.hv \in [Name -> Nat]

ASSUME SizesAssumption ==
    /\ DEFUN_OVERFLOW_CAP \in Nat \ {0} /\ VALUES_TABLE_CAP \in Nat \ {0}
    /\ MaxDisplacement \in Nat \ {0} /\ MaxBuckets \in Nat
    /\ DEFUN_TABLE_CAP \in Nat
    /\ Cardinality(Name) + DEFUN_OVERFLOW_CAP <= DEFUN_TABLE_CAP

VARIABLES
    bundle, hash,       \* the file that is loaded, and the hash functions
    phase, li,          \* where loading is, and its loop index
    bootstrap_keys,
    defun_table, defun_table_size, defun_table_used,
    defun_buckets, defun_displacement,
    placed,             \* buckets whose keys have their slots
    values_table, values_table_used,
    dirty,              \* the bitset of defun slots the next scavenge scans
    young,              \* defun slots whose value is still in the nursery
    call, ended         \* the last call and how the process ended

loadvars   == <<bundle, hash, phase, li>>
buildvars  == <<defun_table_size, defun_buckets, defun_displacement, placed>>
defunvars  == <<bootstrap_keys, defun_table, defun_table_used, dirty, young>>
valuevars  == <<values_table, values_table_used>>
tablesvars == <<loadvars, buildvars, defunvars, valuevars, call, ended>>

Slots     == 0 .. DEFUN_TABLE_CAP - 1
ValueSlots == 0 .. VALUES_TABLE_CAP - 1
Empty     == [name |-> NoName, value |-> NoValue]
Slot(n, v) == [name |-> n, value |-> v]
At(i)     == defun_table[i].name

-----------------------------------------------------------------------------
(* The lookups.                                                            *)

Frozen  == phase = "runtime"
Keys    == {n \in Name : bootstrap_keys[n] # NoValue}

hash_bucket(n)  == hash.h0[n] % defun_buckets
hash_slot(n, d) == hash.h1[n][d] % defun_table_size
PerfectSlot(n)  == hash_slot(n, defun_displacement[hash_bucket(n)])
OverflowTail    == defun_table_size .. defun_table_size + DEFUN_OVERFLOW_CAP - 1
First(S)        == CHOOSE i \in S : \A j \in S : i <= j

\* The perfect slot comes before the tail, in the scan and in the table.
SlotsOf(n) == {i \in {PerfectSlot(n)} \cup OverflowTail : At(i) = n}

defun_has(n) == IF Frozen THEN SlotsOf(n) # {} ELSE bootstrap_keys[n] # NoValue

defun_get(n) ==
    IF ~defun_has(n) THEN IF n \in PrimNames THEN primval[n] ELSE symval[n]
    ELSE IF Frozen THEN defun_table[First(SlotsOf(n))].value ELSE bootstrap_keys[n]

defun_is_defined(n) == defun_has(n) \/ n \in PrimNames

Probe(n, k)  == (hash.hv[n] + k) % VALUES_TABLE_CAP
Passes(n, k) == \A j \in 0 .. k - 1 : values_table[Probe(n, j)].name \notin {NoName, n}
ValueAt(n)   == {Probe(n, k) : k \in {k \in ValueSlots :
                    Passes(n, k) /\ values_table[Probe(n, k)].name = n}}
value_has(n) == ValueAt(n) # {}
value_get(n) == IF value_has(n) THEN values_table[First(ValueAt(n))].value
                ELSE symval[n]

-----------------------------------------------------------------------------
(* The stores.                                                             *)

Called(op, n, v) == call' = [op |-> op, name |-> n, value |-> v]

BootstrapSet(n, v) ==
    /\ bootstrap_keys' = [bootstrap_keys EXCEPT ![n] = v]
    /\ defun_table_used' = IF n \in Keys THEN defun_table_used ELSE defun_table_used + 1
    /\ UNCHANGED <<defun_table, dirty, young, ended>>

\* Each definition named <of>_<change> is a changed form of <of>, which no other
\* definition uses: what the code would be with a mistake in it.
Store_NotMarked(i, n, v) ==
    /\ defun_table' = [defun_table EXCEPT ![i] = Slot(n, v)]
    /\ young' = young \cup {i}
    /\ UNCHANGED <<bootstrap_keys, dirty, ended>>

\* A store marks its slot: the value may be in the nursery.
Store(i, n, v) ==
    /\ defun_table' = [defun_table EXCEPT ![i] = Slot(n, v)]
    /\ dirty' = dirty \cup {i}
    /\ young' = young \cup {i}
    /\ UNCHANGED <<bootstrap_keys, ended>>

FreeTail == {i \in OverflowTail : At(i) = NoName}

UpdateSlot(n, v) ==
    /\ SlotsOf(n) # {}
    /\ Store(First(SlotsOf(n)), n, v)
    /\ UNCHANGED defun_table_used

AppendSlot(n, v) ==
    /\ SlotsOf(n) = {} /\ FreeTail # {}
    /\ Store(First(FreeTail), n, v)
    /\ defun_table_used' = defun_table_used + 1

TailFull(n) ==
    /\ SlotsOf(n) = {} /\ FreeTail = {}
    /\ ended' = "exit"
    /\ UNCHANGED defunvars

defun_set(n, v) ==
    /\ Called("defun_set", n, v)
    /\ IF Frozen THEN UpdateSlot(n, v) \/ AppendSlot(n, v) \/ TailFull(n)
       ELSE BootstrapSet(n, v)

ProbeEnds(n, k) == Passes(n, k) /\ values_table[Probe(n, k)].name \in {NoName, n}

\* The table is found full before the name is looked for.
ValuesFull ==
    /\ values_table_used >= VALUES_TABLE_CAP - 1
    /\ ended' = "exit"
    /\ UNCHANGED valuevars

StoreValue(n, v) ==
    /\ values_table_used < VALUES_TABLE_CAP - 1
    /\ \E k \in ValueSlots :
         /\ ProbeEnds(n, k)
         /\ values_table' = [values_table EXCEPT ![Probe(n, k)] = Slot(n, v)]
         /\ values_table_used' = values_table_used
                + (IF values_table[Probe(n, k)].name = n THEN 0 ELSE 1)
    /\ UNCHANGED ended

value_set(n, v) ==
    /\ Called("value_set", n, v)
    /\ ValuesFull \/ StoreValue(n, v)

-----------------------------------------------------------------------------
(* Loading a bundle.                                                       *)

TablesInit ==
    /\ bundle \in Bundles /\ hash \in Hashes
    /\ phase = (IF bundle.opens THEN "entries" ELSE "bare") /\ li = 1
    /\ bootstrap_keys = [n \in Name |-> IF n \in PrimNames THEN primval[n] ELSE NoValue]
    /\ defun_table = [i \in Slots |-> Empty]
    /\ defun_table_size = 0 /\ defun_table_used = Cardinality(PrimNames)
    /\ defun_buckets = 0 /\ defun_displacement = <<>> /\ placed = {}
    /\ values_table = [i \in ValueSlots |-> Empty] /\ values_table_used = 0
    /\ dirty = {} /\ young = {}
    /\ call = [op |-> "none"] /\ ended = "no"

GoTo(p) == phase' = p /\ li' = 1 /\ UNCHANGED <<bundle, hash>>
Step    == li' = li + 1 /\ UNCHANGED <<bundle, hash, phase>>
In(p)   == phase = p /\ ended = "no"

\* An entry that does not parse ends the bundle: what was stored stays.
ParseEntry ==
    /\ In("entries") /\ li <= Len(bundle.entries)
    /\ LET e == bundle.entries[li] IN
         /\ IF e.broken = "before" THEN UNCHANGED <<defunvars, call, ended>>
            ELSE defun_set(e.name, e.value)
         /\ IF e.broken = "no" THEN Step ELSE GoTo("keywords")
    /\ UNCHANGED <<buildvars, valuevars>>

BundleEnds ==
    /\ In("entries") /\ li > Len(bundle.entries)
    /\ GoTo("keywords")
    /\ UNCHANGED <<buildvars, defunvars, valuevars, call, ended>>

\* A pattern tag never replaces a primitive or a closure of the bundle.
Keyword ==
    /\ In("keywords") /\ li <= Len(Keywords)
    /\ IF defun_has(Keywords[li]) THEN UNCHANGED <<defunvars, call, ended>>
       ELSE defun_set(Keywords[li], symval[Keywords[li]])
    /\ Step
    /\ UNCHANGED <<buildvars, valuevars>>

KeywordsEnd ==
    /\ In("keywords") /\ li > Len(Keywords)
    /\ GoTo("values")
    /\ UNCHANGED <<buildvars, defunvars, valuevars, call, ended>>

StartupValue ==
    /\ In("values") /\ li <= Len(Startup)
    /\ value_set(Startup[li].name, Startup[li].value)
    /\ Step
    /\ UNCHANGED <<buildvars, defunvars>>

-----------------------------------------------------------------------------
(* defun_freeze.                                                           *)

Bucket(b)     == {n \in Keys : hash_bucket(n) = b}
PlacedKeys    == {n \in Keys : hash_bucket(n) \in placed}
UsedSlots     == {PerfectSlot(n) : n \in PlacedKeys}
Before(b, c)  == \/ Cardinality(Bucket(b)) > Cardinality(Bucket(c))
                 \/ Cardinality(Bucket(b)) = Cardinality(Bucket(c)) /\ b < c
Unplaced      == (0 .. defun_buckets - 1) \ placed
NextBucket(b) == b \in Unplaced /\ \A c \in Unplaced \ {b} : Before(b, c)

Fits(b, d) ==
    /\ \A n \in Bucket(b) : hash_slot(n, d) \notin UsedSlots
    /\ \A m, n \in Bucket(b) : hash_slot(m, d) = hash_slot(n, d) => m = n

Displacements == 0 .. MaxDisplacement - 1

\* The first layout tried: half as many buckets as keys, an empty table.
DefunFreeze ==
    /\ In("values") /\ li > Len(Startup)
    /\ defun_table_size' = defun_table_used
    /\ defun_buckets' = (IF defun_table_used \div 2 < 1 THEN 1 ELSE defun_table_used \div 2)
    /\ defun_displacement' = [b \in 0 .. defun_buckets' - 1 |-> 0]
    /\ placed' = {}
    /\ defun_table' = [i \in Slots |-> Empty]
    /\ GoTo("place")
    /\ UNCHANGED <<bootstrap_keys, defun_table_used, dirty, young, valuevars, call, ended>>

PlaceBucket ==
    /\ In("place")
    /\ \E b \in Unplaced, d \in Displacements :
         /\ NextBucket(b)
         /\ Fits(b, d) /\ \A c \in 0 .. d - 1 : ~Fits(b, c)
         /\ defun_displacement' = [defun_displacement EXCEPT ![b] = d]
         /\ placed' = placed \cup {b}
         /\ defun_table' = [i \in Slots |->
                IF \E n \in Bucket(b) : hash_slot(n, d) = i
                THEN LET n == CHOOSE n \in Bucket(b) : hash_slot(n, d) = i
                     IN  Slot(n, bootstrap_keys[n])
                ELSE defun_table[i]]
    /\ UNCHANGED <<loadvars, defun_table_size, defun_buckets, bootstrap_keys,
                   defun_table_used, dirty, young, valuevars, call, ended>>

\* No displacement fits: twice the buckets, and what the table holds stays.
DoubleBuckets ==
    /\ In("place") /\ defun_buckets * 2 <= MaxBuckets
    /\ \E b \in Unplaced : NextBucket(b) /\ \A d \in Displacements : ~Fits(b, d)
    /\ defun_buckets' = defun_buckets * 2
    /\ defun_displacement' = [b \in 0 .. defun_buckets * 2 - 1 |-> 0]
    /\ placed' = {}
    /\ UNCHANGED <<loadvars, defun_table_size, defunvars, valuevars, call, ended>>

CollisionFree ==
    /\ \A i \in 0 .. defun_table_size - 1 : At(i) # NoName
    /\ \A i, j \in 0 .. defun_table_size - 1 : At(i) = At(j) => i = j

FreezeEnds_NotMarked ==
    /\ In("place") /\ Unplaced = {}
    /\ GoTo("runtime")
    /\ bootstrap_keys' = [n \in Name |-> NoValue]
    /\ young' = 0 .. defun_table_size - 1
    /\ UNCHANGED <<buildvars, defun_table, defun_table_used, dirty, valuevars, call, ended>>

\* The layout is checked, every slot is marked, and the mode flips.
FreezeEnds ==
    /\ In("place") /\ Unplaced = {}
    /\ IF CollisionFree
       THEN /\ GoTo("runtime")
            /\ bootstrap_keys' = [n \in Name |-> NoValue]
            /\ dirty' = dirty \cup (0 .. defun_table_size - 1)
            /\ young' = 0 .. defun_table_size - 1
            /\ UNCHANGED ended
       ELSE ended' = "abort" /\ UNCHANGED <<loadvars, bootstrap_keys, dirty, young>>
    /\ UNCHANGED <<buildvars, defun_table, defun_table_used, valuevars, call>>

-----------------------------------------------------------------------------
(* The calls after loading.                                                *)

Loaded == phase \in {"runtime", "bare"} /\ ended = "no"

DefunSet(n, v) ==
    /\ Loaded
    /\ defun_set(n, v)
    /\ UNCHANGED <<loadvars, buildvars, valuevars>>

ValueSet(n, v) ==
    /\ Loaded
    /\ value_set(n, v)
    /\ UNCHANGED <<loadvars, buildvars, defunvars>>

\* A scavenge promotes what the dirty slots hold and resets the nursery.  A
\* full collection scans every slot: it keeps no less.
Scavenge ==
    /\ In("runtime")
    /\ defun_table' = [i \in Slots |->
            IF i \in young \ dirty THEN [defun_table[i] EXCEPT !.value = Stale] ELSE defun_table[i]]
    /\ dirty' = {} /\ young' = {}
    /\ UNCHANGED <<loadvars, buildvars, bootstrap_keys, defun_table_used, valuevars, call, ended>>

\* The parser, the list of primitive names and the calls of a process without a
\* bundle allocate, and the list of keys is no root: of the closures in it, any
\* that a collection moves or frees is stale from then on, and so is one whose
\* body moves while the parser still holds its old address.
CollectUnfrozen ==
    /\ bundle.collects /\ phase \in {"entries", "values", "bare"} /\ ended = "no"
    /\ \E lost \in SUBSET {n \in Keys : bootstrap_keys[n] \in Moving} :
         bootstrap_keys' = [n \in Name |-> IF n \in lost THEN Stale ELSE bootstrap_keys[n]]
    /\ UNCHANGED <<loadvars, buildvars, defun_table, defun_table_used, dirty, young,
                   valuevars, call, ended>>

LoadStep ==
    \/ ParseEntry \/ BundleEnds \/ Keyword \/ KeywordsEnd \/ StartupValue
    \/ DefunFreeze \/ PlaceBucket \/ DoubleBuckets \/ FreezeEnds

TablesNext ==
    \/ LoadStep
    \/ \E n \in Name, v \in Value : DefunSet(n, v) \/ ValueSet(n, v)
    \/ CollectUnfrozen \/ Scavenge

TablesSpec == TablesInit /\ [][TablesNext]_tablesvars

-----------------------------------------------------------------------------
(* Properties.                                                             *)

TableEntry == [name : Name \cup {NoName}, value : Value \cup {NoValue}]
DefunEntry == [name : Name \cup {NoName}, value : Value \cup {NoValue, Stale}]

NothingStale ==
    /\ \A n \in Name : bootstrap_keys[n] # Stale
    /\ \A i \in Slots : defun_table[i].value # Stale

\* The types: the values table never holds what a collection left of a value,
\* and the defuns do only if the heap was collected before the freeze; the
\* process ends by running out of room only.
TablesTypeOK ==
    /\ bundle \in Bundles /\ hash \in Hashes
    /\ phase \in {"entries", "keywords", "values", "place", "runtime", "bare"}
    /\ li \in Nat \ {0}
    /\ bootstrap_keys \in [Name -> Value \cup {NoValue, Stale}]
    /\ defun_table \in [Slots -> DefunEntry]
    /\ bundle.collects \/ NothingStale
    /\ defun_table_size \in Nat /\ defun_table_used \in Nat /\ defun_buckets \in Nat
    /\ defun_displacement \in [0 .. defun_buckets - 1 -> Displacements]
    /\ placed \subseteq 0 .. defun_buckets - 1
    /\ values_table \in [ValueSlots -> TableEntry]
    /\ values_table_used \in Nat
    /\ dirty \subseteq Slots /\ young \subseteq Slots
    /\ ended \in {"no", "exit"}

Known  == {n \in Name : defun_has(n)}
Stored == {n \in Name : value_has(n)}

\* While this holds a collection may lose closures of the defuns.
Lossy == bundle.collects /\ ~Frozen

\* Through loading, freezing, overflow and collections the tables are two
\* partial functions that a call changes at its own name only.  No scavenge
\* after the freeze loses a value; before it a collection may lose closures
\* of the defuns, and nothing else.  The process ends only when a table is
\* full, never on the assertion of defun_freeze.
Dict == INSTANCE Dictionary WITH
    Lost <- Stale,
    Primitives <- [n \in PrimNames |-> primval[n]],
    NPrimitives <- Cardinality(PrimNames),
    Spare <- DEFUN_OVERFLOW_CAP, Room <- VALUES_TABLE_CAP - 1,
    defuns <- [n \in Known |-> defun_get(n)], ndefuns <- defun_table_used,
    lossy <- Lossy,
    values <- [n \in Stored |-> value_get(n)], nvalues <- values_table_used

KeepsDictionary == Dict!Spec
=============================================================================
