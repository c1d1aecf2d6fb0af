------------------------------- MODULE NatLemmas -------------------------------
(* Facts on natural numbers and intervals that the proofs of several modules  *)
(* cite.  Induction is over a set of numbers, not over a predicate: a proof by *)
(* induction names the set of the numbers its claim holds of.                 *)
EXTENDS Integers, FiniteSets, TLAPS, FiniteSetTheorems, WellFoundedInduction

\* A set of natural numbers that is not empty has a least element.
LEMMA Minimum ==
    ASSUME NEW S, S \subseteq Nat, S # {}
    PROVE  \E m \in S : \A k \in S : m <= k
<1>1. \E x \in S : \A y \in S : ~(<<y, x>> \in OpToRel(<, Nat))
  BY NatLessThanWellFounded, WFMin
<1>2. PICK x \in S : \A y \in S : ~(<<y, x>> \in OpToRel(<, Nat))
  BY <1>1
<1>3. \A y \in S : ~(y < x)
  BY <1>2 DEF OpToRel
<1>4. QED  BY <1>3

\* Induction over an interval: a set that holds its first number, and with a number
\* the next one, holds them all.
LEMMA IntervalInduction ==
    ASSUME NEW m \in Nat, NEW n \in Nat, NEW S, m \in S,
           \A i \in m .. n - 1 : i \in S => i + 1 \in S
    PROVE  m .. n \subseteq S
<1> DEFINE T == {i \in m .. n : i \notin S}
<1>1. SUFFICES ASSUME T # {}
               PROVE  FALSE
  OBVIOUS
<1>2. T \subseteq Nat
  OBVIOUS
<1>3. PICK i \in T : \A k \in T : i <= k
  <2> HIDE DEF T
  <2> QED  BY <1>1, <1>2, Minimum
<1>4. i # m /\ i - 1 \in m .. n - 1 /\ i - 1 \notin T
  BY <1>3
<1>5. i - 1 \in S /\ (i - 1) + 1 = i
  BY <1>4
<1>6. QED  BY <1>3, <1>4, <1>5

\* The number of numbers in an interval.
LEMMA IntervalCount ==
    ASSUME NEW a \in Nat, NEW b \in Nat, a <= b + 1
    PROVE  IsFiniteSet(a .. b) /\ Cardinality(a .. b) = b + 1 - a
BY FS_Interval

\* A set of numbers that an interval bounds is finite.
LEMMA BoundedFinite ==
    ASSUME NEW a \in Nat, NEW b \in Nat, NEW S, S \subseteq a .. b
    PROVE  IsFiniteSet(S) /\ Cardinality(S) \in Nat
<1>1. IsFiniteSet(a .. b)
  BY FS_Interval
<1>2. IsFiniteSet(S)
  BY <1>1, FS_Subset
<1>3. QED  BY <1>2, FS_CardinalityType

\* Division rounds down.
LEMMA Division ==
    ASSUME NEW a \in Nat, NEW d \in Nat \ {0}
    PROVE  /\ a \div d \in Nat
           /\ d * (a \div d) <= a
           /\ a < d * ((a \div d) + 1)
OBVIOUS

\* A page count is rounded up.
LEMMA DivisionUp ==
    ASSUME NEW a \in Nat \ {0}, NEW d \in Nat \ {0}
    PROVE  /\ (a + d - 1) \div d \in Nat \ {0}
           /\ a <= ((a + d - 1) \div d) * d
<1>1. a + d - 1 \in Nat
  OBVIOUS
<1> DEFINE q == (a + d - 1) \div d
<1>2. q \in Nat /\ d * q <= a + d - 1 /\ a + d - 1 < d * (q + 1)
  BY <1>1, Division
<1>3. d * (q + 1) = d * q + d /\ d * q = q * d
  BY <1>2
<1>4. a <= q * d
  BY <1>2, <1>3
<1>5. q # 0
  BY <1>4
<1>6. QED  BY <1>2, <1>4, <1>5

\* A remainder is below the divisor.
LEMMA Remainder ==
    ASSUME NEW a \in Nat, NEW d \in Nat \ {0}
    PROVE  a % d \in 0 .. d - 1
OBVIOUS
================================================================================
