----------------------------- MODULE ObjectGraph -----------------------------
(* What the collected heap of reference/shen-gc promises the virtual machine: *)
(* a graph of objects that never move.  A root, a table slot or a field names *)
(* an object by an identity that stays the same, and the graph holds exactly  *)
(* the objects that can be reached.  ShenHeap, with its pages, its forwarding *)
(* pointers and its two collectors, implements this graph.                    *)
EXTENDS Naturals, SequencesExt

CONSTANTS Ids,       \* identities of objects
          Types,     \* GC_TYPE_* tags
          MaxFields  \* the most pointer fields of an object

VARIABLES objects,  \* the reachable objects, as records of id, ty and fields
          shadow,   \* the shadow stack: what each root names
          defuns,   \* the defun table
          values    \* the values table

vars == <<objects, shadow, defuns, values>>

None == 0

Named(s) == {s[i] : i \in DOMAIN s} \ {None}

\* The objects of objs that can be reached from the identities of ids.
Live(objs, ids) ==
    LET near[n \in 0 .. Cardinality(objs)] ==
            IF n = 0
              THEN {o \in objs : o.id \in ids}
              ELSE LET r == near[n - 1]
                   IN  r \cup {o \in objs : \E q \in r : o.id \in Named(q.fields)}
    IN  near[Cardinality(objs)]

Trimmed(objs) ==
    objects' = Live(objs, Named(shadow') \cup Named(defuns') \cup Named(values'))

Init == /\ objects = {}
        /\ shadow = <<>>
        /\ Named(defuns) \cup Named(values) = {}

\* An allocation: a new object, its fields set from the roots, is pushed.
Pushed(ids) == /\ Len(shadow') = Len(shadow) + 1
               /\ \E i \in ids : shadow' = Append(shadow, i)

New ==
    /\ UNCHANGED <<defuns, values>>
    /\ Pushed(Ids \ {o.id : o \in objects})
    /\ \E t \in Types, n \in 0 .. MaxFields :
       \E fs \in [1 .. n -> Named(shadow) \cup {None}] :
          Trimmed(objects \cup {[id |-> Last(shadow'), ty |-> t, fields |-> fs]})

\* A store into one field of an object some root names; a store of what the field
\* holds already is a stuttering step.
Store ==
    /\ UNCHANGED <<shadow, defuns, values>>
    /\ objects' # objects
    /\ \E o \in {q \in objects : q.id \in Named(shadow)} :
       \E k \in DOMAIN o.fields, i \in Named(shadow) \cup {None} :
          Trimmed((objects \ {o}) \cup {[o EXCEPT !.fields[k] = i]})

\* Roots are pushed from what is reachable and popped from the end.
Push == /\ UNCHANGED <<defuns, values>>
        /\ Pushed({o.id : o \in objects})
        /\ Trimmed(objects)

Unwind == /\ UNCHANGED <<defuns, values>>
          /\ \E n \in 0 .. Len(shadow) - 1 : shadow' = SubSeq(shadow, 1, n)
          /\ Trimmed(objects)

SetDefun == /\ UNCHANGED <<shadow, values>>
            /\ \E d \in DOMAIN defuns, i \in Named(shadow) :
                  defuns' = [defuns EXCEPT ![d] = i]
            /\ Trimmed(objects)

SetValue == /\ UNCHANGED <<shadow, defuns>>
            /\ \E d \in DOMAIN values, i \in Named(shadow) :
                  values' = [values EXCEPT ![d] = i]
            /\ Trimmed(objects)

Next == New \/ Store \/ Push \/ Unwind \/ SetDefun \/ SetValue

Spec == Init /\ [][Next]_vars
=============================================================================
