----------------------------- MODULE Dictionary -----------------------------
(***************************************************************************)
(* What the tables of the virtual machine promise: two name spaces, each a *)
(* partial function from names to the last value stored, and a process that *)
(* ends with an error only when a table has no room for one more name.     *)
(* Until the defuns are settled, those that point into the heap may be lost.*)
(***************************************************************************)
EXTENDS Naturals

CONSTANTS Name, Value,
    Moving, Lost,   \* the values a collection may lose, and what is left of one
    Primitives,     \* the defuns that exist before anything is stored
    NPrimitives,    \* how many
    Spare,          \* names every defun table has room for
    Room            \* names the table of values has room for

VARIABLES
    defuns, ndefuns,    \* the defuns, and how many names they are
    lossy,              \* the defuns are not settled yet
    values, nvalues,
    call, ended         \* the last call, and how the process ended

vars == <<defuns, ndefuns, lossy, values, nvalues, call, ended>>

Count(f, n) == IF n \in DOMAIN f THEN 0 ELSE 1
Bind(f, n, v) == [m \in DOMAIN f \cup {n} |-> IF m = n THEN v ELSE f[m]]

Init ==
    /\ defuns = Primitives /\ ndefuns = NPrimitives /\ lossy \in BOOLEAN
    /\ values = [n \in {} |-> n] /\ nvalues = 0
    /\ call = [op |-> "none"]
    /\ ended = "no"

DefunSet(n, v) ==
    /\ ended = "no"
    /\ call' = [op |-> "defun_set", name |-> n, value |-> v]
    /\ \/ /\ defuns' = Bind(defuns, n, v)
          /\ ndefuns' = ndefuns + Count(defuns, n)
          /\ UNCHANGED ended
       \/ /\ n \notin DOMAIN defuns /\ ndefuns >= Spare
          /\ ended' = "exit"
          /\ UNCHANGED <<defuns, ndefuns>>
    /\ UNCHANGED <<lossy, values, nvalues>>

ValueSet(n, v) ==
    /\ ended = "no"
    /\ call' = [op |-> "value_set", name |-> n, value |-> v]
    /\ \/ /\ values' = Bind(values, n, v)
          /\ nvalues' = nvalues + Count(values, n)
          /\ UNCHANGED ended
       \/ /\ nvalues >= Room
          /\ ended' = "exit"
          /\ UNCHANGED <<values, nvalues>>
    /\ UNCHANGED <<defuns, ndefuns, lossy>>

\* The names stay, whatever becomes of the values.
Loses(before, after) ==
    /\ after \in [DOMAIN before -> Value \cup {Lost}]
    /\ \A n \in DOMAIN before :
         \/ after[n] = before[n]
         \/ before[n] \in Moving /\ after[n] = Lost

Lose ==
    /\ lossy /\ ended = "no"
    /\ Loses(defuns, defuns')
    /\ UNCHANGED <<ndefuns, lossy, values, nvalues, call, ended>>

Settle ==
    /\ lossy /\ lossy' = FALSE
    /\ UNCHANGED <<defuns, ndefuns, values, nvalues, call, ended>>

Calls == [op : {"defun_set", "value_set"}, name : Name, value : Value]

Next ==
    \/ call' \in Calls /\ (DefunSet(call'.name, call'.value) \/ ValueSet(call'.name, call'.value))
    \/ Lose \/ Settle

Spec == Init /\ [][Next]_vars
=============================================================================
