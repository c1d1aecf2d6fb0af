-------------------------- MODULE StdinOrderProofs --------------------------
(***************************************************************************)
(* Proofs about StdinInput that nothing typed is lost, doubled or           *)
(* overtaken on its way through readers' buffers, bytes pushed back, parked *)
(* events and ESC waits, and that the end comes last: for any table and any *)
(* script, and programs with one task at a time.  Facts about sequences     *)
(* first, then about what readers hold, then one lemma for each part of the *)
(* loop.                                                                    *)
(***************************************************************************)
EXTENDS StdinInputProofs, NatLemmas

-----------------------------------------------------------------------------
(* Pieces put together *)

Joined(s, t) == s \o t

\* f is what the first pieces make, for each number of them.
Flattens(f, pieces, n) ==
    f = [i \in 1 .. n |-> IF i = 1 THEN pieces[i] ELSE Joined(f[i - 1], pieces[i])]

\* FlattenSeq is what its recursion says.
LEMMA FlattenSteps ==
    ASSUME NEW pieces, Len(pieces) \in Nat \ {0}
    PROVE  \E f : Flattens(f, pieces, Len(pieces)) /\ FlattenSeq(pieces) = f[Len(pieces)]
<1> DEFINE L == Len(pieces)
           S == {n \in Nat : \E f : Flattens(f, pieces, n)}
<1>1. 1 \in S
  <2> DEFINE f == [i \in 1 .. 1 |-> pieces[1]]
  <2>1. Flattens(f, pieces, 1)
    BY DEF Flattens
  <2>2. QED  BY <2>1
<1>2. ASSUME NEW n \in 1 .. L - 1, n \in S
      PROVE  n + 1 \in S
  <2>1. PICK f : Flattens(f, pieces, n)
    BY <1>2
  <2> DEFINE g == [i \in 1 .. n + 1 |-> IF i = n + 1 THEN Joined(f[n], pieces[n + 1]) ELSE f[i]]
  <2>2. ASSUME NEW i \in 1 .. n + 1
        PROVE  g[i] = IF i = 1 THEN pieces[i] ELSE Joined(g[i - 1], pieces[i])
    <3>1. CASE i = n + 1
      BY <3>1
    <3>2. CASE i \in 2 .. n
      <4>1. g[i] = f[i] /\ g[i - 1] = f[i - 1]
        BY <3>2
      <4>2. f[i] = Joined(f[i - 1], pieces[i])
        BY <2>1, <3>2 DEF Flattens
      <4>3. QED  BY <3>2, <4>1, <4>2
    <3>3. CASE i = 1
      BY <2>1, <3>3 DEF Flattens
    <3>4. QED  BY <3>1, <3>2, <3>3
  <2>3. Flattens(g, pieces, n + 1)
    BY <2>2 DEF Flattens
  <2>4. QED  BY <2>3
<1>3. L \in S
  <2> HIDE DEF S
  <2>1. \A n \in 1 .. L - 1 : n \in S => n + 1 \in S
    BY <1>2
  <2>2. 1 .. L \subseteq S
    BY <1>1, <2>1, IntervalInduction
  <2>3. QED  BY <2>2
<1> DEFINE flatten == CHOOSE f : Flattens(f, pieces, L)
<1>4. Flattens(flatten, pieces, L)
  BY <1>3
<1>5. FlattenSeq(pieces) = flatten[L]
  BY DEF FlattenSeq, Flattens, Joined
<1>6. QED  BY <1>4, <1>5

\* Two such functions agree as far as their pieces do.
LEMMA FlattensAgree ==
    ASSUME NEW p, NEW q, NEW n \in Nat, NEW m \in Nat, NEW k \in Nat \ {0}, k <= n, k <= m,
           NEW f, Flattens(f, p, n), NEW g, Flattens(g, q, m),
           \A i \in 1 .. k : p[i] = q[i]
    PROVE  f[k] = g[k]
<1> DEFINE S == {i \in Nat : f[i] = g[i]}
<1>1. 1 \in S
  BY DEF Flattens
<1>2. ASSUME NEW i \in 1 .. k - 1, i \in S
      PROVE  i + 1 \in S
  <2>1. f[i + 1] = Joined(f[i], p[i + 1]) /\ g[i + 1] = Joined(g[i], q[i + 1])
    BY DEF Flattens
  <2>2. QED  BY <1>2, <2>1
<1>3. 1 .. k \subseteq S
  <2> HIDE DEF S
  <2>1. \A i \in 1 .. k - 1 : i \in S => i + 1 \in S
    BY <1>2
  <2>2. QED  BY <1>1, <2>1, IntervalInduction
<1>4. QED  BY <1>3

LEMMA FlattenEmpty == FlattenSeq(<<>>) = <<>>
  BY DEF FlattenSeq

\* One more piece goes at the end.
LEMMA FlattenAppend ==
    ASSUME NEW T, NEW p \in Seq(Seq(T)), NEW q \in Seq(T)
    PROVE  FlattenSeq(Append(p, q)) = FlattenSeq(p) \o q
<1> DEFINE r == Append(p, q)
           L == Len(p)
<1>1. L \in Nat /\ Len(r) = L + 1 /\ r[L + 1] = q /\ \A i \in 1 .. L : r[i] = p[i]
  BY AppendProperties, LenProperties
<1> HIDE DEF r
<1>2. PICK g : Flattens(g, r, L + 1) /\ FlattenSeq(r) = g[L + 1]
  BY <1>1, FlattenSteps
<1>3. CASE L = 0
  <2>1. p = <<>>
    BY <1>3, EmptySeq
  <2>2. FlattenSeq(r) = q
    BY <1>1, <1>2, <1>3 DEF Flattens
  <2>3. <<>> \o q = q
    BY ConcatEmptySeq
  <2>4. QED  BY <2>1, <2>2, <2>3, FlattenEmpty DEF r
<1>4. CASE L # 0
  <2>1. PICK f : Flattens(f, p, L) /\ FlattenSeq(p) = f[L]
    BY <1>1, <1>4, FlattenSteps
  <2> HIDE DEF L
  <2>2. L \in Nat \ {0} /\ L + 1 \in Nat /\ L <= L /\ L <= L + 1
    BY <1>1, <1>4
  <2>3. \A i \in 1 .. L : p[i] = r[i]
    BY <1>1
  <2>4. Flattens(f, p, L) /\ Flattens(g, r, L + 1)
    BY <1>2, <2>1
  <2>5. f[L] = g[L]
    BY <2>2, <2>3, <2>4, FlattensAgree
  <2>6. L + 1 \in 1 .. L + 1 /\ L + 1 # 1 /\ (L + 1) - 1 = L
    BY <2>2
  <2>7. g[L + 1] = Joined(g[L], r[L + 1])
    BY <2>4, <2>6 DEF Flattens
  <2>8. QED  BY <1>1, <1>2, <2>1, <2>5, <2>7 DEF r, Joined
<1>5. QED  BY <1>3, <1>4

\* A sequence up to its next element.
LEMMA PrefixNext ==
    ASSUME NEW T, NEW s \in Seq(T), NEW n \in 0 .. Len(s) - 1
    PROVE  /\ SubSeq(s, 1, n + 1) = Append(SubSeq(s, 1, n), s[n + 1])
           /\ SubSeq(s, 1, n) \in Seq(T) /\ s[n + 1] \in T
<1>1. Len(s) \in Nat
  BY LenProperties
<1>2. n + 1 \in 1 .. Len(s)
  BY <1>1
<1>3. s[n + 1] \in T
  BY <1>2, ElementOfSeq
<1>4. SubSeq(s, 1, n) \in Seq(T)
  <2>1. \A i \in 1 .. n : s[i] \in T
    BY <1>1, ElementOfSeq
  <2>2. QED  BY <2>1, SubSeqProperties
<1>5. SubSeq(s, 1, n + 1) = SubSeq(s, 1, n) \o <<s[n + 1]>>
  <2>1. 1 \in 1 .. Len(s) /\ n + 1 \in 1 .. Len(s) /\ (n + 1) - 1 = n
    BY <1>1
  <2>2. QED  BY <2>1, SubSeqRecursiveSecond
<1>6. QED  BY <1>3, <1>4, <1>5, AppendIsConcat

\* What pieces make is a sequence of what they hold.
LEMMA FlattenTyped ==
    ASSUME NEW T, NEW p \in Seq(Seq(T))
    PROVE  FlattenSeq(p) \in Seq(T)
<1> DEFINE S == {n \in 0 .. Len(p) : FlattenSeq(SubSeq(p, 1, n)) \in Seq(T)}
<1>1. Len(p) \in Nat
  BY LenProperties
<1>2. 0 \in S
  <2>1. SubSeq(p, 1, 0) = <<>>
    <3>1. 1 \in Int /\ 0 \in Int /\ 0 < 1
      OBVIOUS
    <3>2. QED  BY <3>1, SubSeqEmpty
  <2>2. <<>> \in Seq(T)
    BY EmptySeq
  <2>3. FlattenSeq(SubSeq(p, 1, 0)) \in Seq(T)
    BY <2>1, <2>2, FlattenEmpty
  <2>4. QED  BY <1>1, <2>3
<1>3. ASSUME NEW n \in 0 .. Len(p) - 1, n \in S
      PROVE  n + 1 \in S
  <2>1. /\ SubSeq(p, 1, n + 1) = Append(SubSeq(p, 1, n), p[n + 1])
        /\ SubSeq(p, 1, n) \in Seq(Seq(T)) /\ p[n + 1] \in Seq(T)
    BY PrefixNext
  <2>2. FlattenSeq(SubSeq(p, 1, n + 1)) = FlattenSeq(SubSeq(p, 1, n)) \o p[n + 1]
    BY <2>1, FlattenAppend
  <2>3. FlattenSeq(SubSeq(p, 1, n + 1)) \in Seq(T)
    <3> DEFINE a == FlattenSeq(SubSeq(p, 1, n))
               b == p[n + 1]
    <3>1. a \in Seq(T) /\ b \in Seq(T)
      BY <1>3, <2>1
    <3> HIDE DEF a, b
    <3>2. a \o b \in Seq(T)
      BY <3>1, ConcatProperties
    <3>3. QED  BY <2>2, <3>2, Zenon DEF a, b
  <2>4. n + 1 \in 0 .. Len(p)
    BY <1>1
  <2>5. QED  BY <2>3, <2>4
<1>4. Len(p) \in S
  <2> HIDE DEF S
  <2>1. \A n \in 0 .. Len(p) - 1 : n \in S => n + 1 \in S
    BY <1>3
  <2>2. 0 .. Len(p) \subseteq S
    BY <1>1, <1>2, <2>1, IntervalInduction
  <2>3. QED  BY <1>1, <2>2
<1>5. QED  BY <1>4, SubSeqFull

\* What is made of a sequence element by element, and put together.
Mapped(g, s) == [n \in DOMAIN s |-> g[s[n]]]

LEMMA FunctionIsSeq ==
    ASSUME NEW U, NEW n \in Nat, NEW f \in [1 .. n -> U]
    PROVE  f \in Seq(U) /\ Len(f) = n
OBVIOUS

LEMMA MappedTyped ==
    ASSUME NEW E, NEW U, NEW g \in [E -> U], NEW s \in Seq(E)
    PROVE  Mapped(g, s) \in [1 .. Len(s) -> U]
<1>1. DOMAIN s = 1 .. Len(s) /\ \A n \in 1 .. Len(s) : s[n] \in E
  BY LenProperties, ElementOfSeq
<1>2. QED  BY <1>1 DEF Mapped

LEMMA FlattenMappedTyped ==
    ASSUME NEW E, NEW T, NEW g \in [E -> Seq(T)], NEW s \in Seq(E)
    PROVE  FlattenSeq(Mapped(g, s)) \in Seq(T)
<1> DEFINE U == Seq(T)
           m == Mapped(g, s)
<1>1. g \in [E -> U] /\ Len(s) \in Nat
  BY LenProperties
<1> HIDE DEF U
<1>2. m \in [1 .. Len(s) -> U]
  BY <1>1, MappedTyped
<1> HIDE DEF m
<1>3. m \in Seq(U)
  BY <1>1, <1>2, FunctionIsSeq
<1>4. QED  BY <1>3, FlattenTyped DEF m, U

LEMMA FlattenMapped ==
    ASSUME NEW E, NEW T, NEW g \in [E -> Seq(T)], NEW s \in Seq(E), NEW e \in E
    PROVE  FlattenSeq(Mapped(g, Append(s, e))) = FlattenSeq(Mapped(g, s)) \o g[e]
<1> DEFINE U == Seq(T)
           m == Mapped(g, s)
           t == Append(s, e)
           u == Append(m, g[e])
<1>1. /\ t \in Seq(E) /\ Len(t) = Len(s) + 1 /\ Len(s) \in Nat
      /\ t[Len(s) + 1] = e /\ \A n \in 1 .. Len(s) : t[n] = s[n]
      /\ DOMAIN t = 1 .. Len(s) + 1 /\ DOMAIN s = 1 .. Len(s)
  BY AppendProperties, LenProperties
<1>2. g[e] \in U /\ g \in [E -> U]
  OBVIOUS
<1> HIDE DEF U
<1>3. m \in Seq(U) /\ Len(m) = Len(s)
  <2>1. m \in [1 .. Len(s) -> U]
    BY <1>2, MappedTyped
  <2> HIDE DEF m
  <2>2. QED  BY <1>1, <2>1, FunctionIsSeq
<1>4. /\ u \in Seq(U) /\ Len(u) = Len(s) + 1 /\ u[Len(s) + 1] = g[e]
      /\ \A n \in 1 .. Len(s) : u[n] = m[n]
  <2> HIDE DEF m
  <2>1. QED  BY <1>2, <1>3, AppendProperties
<1>5. Mapped(g, t) \in Seq(U) /\ Len(Mapped(g, t)) = Len(s) + 1
  <2> HIDE DEF t
  <2>1. Mapped(g, t) \in [1 .. Len(t) -> U]
    BY <1>1, <1>2, MappedTyped
  <2> DEFINE v == Mapped(g, t)
  <2> HIDE DEF v
  <2>2. v \in [1 .. Len(t) -> U] /\ Len(t) \in Nat
    BY <1>1, <2>1 DEF v
  <2>3. v \in Seq(U) /\ Len(v) = Len(t)
    BY <2>2, FunctionIsSeq
  <2>4. QED  BY <1>1, <2>3 DEF v
<1>6. \A n \in 1 .. Len(s) + 1 : Mapped(g, t)[n] = u[n]
  BY <1>1, <1>4 DEF Mapped
<1> HIDE DEF u, t, m
<1>7. Mapped(g, t) = u
  BY <1>4, <1>5, <1>6, SeqEqual
<1>8. FlattenSeq(u) = FlattenSeq(m) \o g[e]
  BY <1>2, <1>3, FlattenAppend DEF u, U
<1>9. QED  BY <1>7, <1>8 DEF t, m

-----------------------------------------------------------------------------
(* What is typed, and what is decoded *)

\* The events whose bytes stand for them whatever is typed next: not the bare bytes
\* that also begin or continue a sequence.
ClearEvent == {Key("a"), Key("b"), Key("esc"), Key("up"), Key("utf8"), Mouse("m1"), Mouse("m2")}

LEMMA ClearEventTypes ==
    /\ ClearEvent \subseteq InputEvent /\ ClearEvent \subseteq AnyEvent
    /\ \A ev \in ClearEvent : ev.name # "eof"
  BY EventTypes DEF ClearEvent, InputEvent, Key, Mouse, Event, Kind, Name, Byte

LEMMA ClearBytes ==
    /\ Bytes(Key("a")) = <<"a">> /\ Bytes(Key("b")) = <<"b">>
    /\ Bytes(Key("esc")) = <<"esc">> /\ Bytes(Key("up")) = <<"esc", "[", "up">>
    /\ Bytes(Key("utf8")) = <<"lead", "cont">>
    /\ Bytes(Mouse("m1")) = <<"esc", "[", "m1">> /\ Bytes(Mouse("m2")) = <<"esc", "[", "m2">>
  BY DEF Bytes, Key, Mouse, Event

\* The bytes of an event: some, and the first begins no rest of another.
LEMMA ClearBytesTyped ==
    ASSUME NEW ev \in ClearEvent
    PROVE  /\ Bytes(ev) \in Seq(Byte) /\ Len(Bytes(ev)) \in Nat \ {0}
           /\ Bytes(ev)[1] \notin {"[", "cont"}
<1>1. /\ <<"a">> \in Seq(Byte) /\ <<"b">> \in Seq(Byte) /\ <<"esc">> \in Seq(Byte)
      /\ <<"esc", "[", "up">> \in Seq(Byte) /\ <<"lead", "cont">> \in Seq(Byte)
      /\ <<"esc", "[", "m1">> \in Seq(Byte) /\ <<"esc", "[", "m2">> \in Seq(Byte)
  BY DEF Byte
<1>2. Bytes(ev) \in {<<"a">>, <<"b">>, <<"esc">>, <<"esc", "[", "up">>, <<"lead", "cont">>,
                     <<"esc", "[", "m1">>, <<"esc", "[", "m2">>}
  BY ClearBytes DEF ClearEvent
<1>3. Bytes(ev) \in Seq(Byte)
  BY <1>1, <1>2
<1>4. Len(Bytes(ev)) \in Nat \ {0} /\ Bytes(ev)[1] \notin {"[", "cont"}
  BY <1>2
<1>5. QED  BY <1>3, <1>4

LEMMA FlatFacts ==
    /\ Flat(<<>>) = <<>>
    /\ \A s \in Seq(ClearEvent), ev \in ClearEvent : Flat(Append(s, ev)) = Flat(s) \o Bytes(ev)
    /\ \A s \in Seq(ClearEvent) : Flat(s) \in Seq(Byte)
<1> DEFINE g == [ev \in ClearEvent |-> Bytes(ev)]
<1>1. Flat(<<>>) = <<>>
  BY FlattenEmpty DEF Flat
<1>2. g \in [ClearEvent -> Seq(Byte)]
  BY ClearBytesTyped
<1>3. ASSUME NEW s \in Seq(ClearEvent)
      PROVE  Flat(s) = FlattenSeq(Mapped(g, s))
  <2>1. DOMAIN s = 1 .. Len(s) /\ \A n \in 1 .. Len(s) : s[n] \in ClearEvent
    BY LenProperties, ElementOfSeq
  <2>2. [n \in DOMAIN s |-> Bytes(s[n])] = [n \in DOMAIN s |-> g[s[n]]]
    BY <2>1
  <2>3. QED  BY <2>2 DEF Flat, Mapped
<1>4. ASSUME NEW s \in Seq(ClearEvent), NEW ev \in ClearEvent
      PROVE  Flat(Append(s, ev)) = Flat(s) \o Bytes(ev)
  <2>1. Append(s, ev) \in Seq(ClearEvent) /\ g[ev] = Bytes(ev)
    BY AppendProperties
  <2> HIDE DEF g
  <2>2. Flat(Append(s, ev)) = FlattenSeq(Mapped(g, Append(s, ev))) /\ Flat(s) = FlattenSeq(Mapped(g, s))
    BY <1>3, <2>1
  <2>3. g \in [ClearEvent -> Seq(Byte)]
    BY <1>2
  <2>4. FlattenSeq(Mapped(g, Append(s, ev))) = FlattenSeq(Mapped(g, s)) \o g[ev]
    BY <2>3, FlattenMapped, Zenon
  <2>5. QED  BY <2>1, <2>2, <2>4
<1>5. ASSUME NEW s \in Seq(ClearEvent)
      PROVE  Flat(s) \in Seq(Byte)
  <2> HIDE DEF g
  <2>1. g \in [ClearEvent -> Seq(Byte)]
    BY <1>2
  <2>2. FlattenSeq(Mapped(g, s)) \in Seq(Byte)
    BY <2>1, FlattenMappedTyped, Zenon
  <2>3. QED  BY <1>3, <2>2
<1>6. QED  BY <1>1, <1>4, <1>5

\* What an event adds to those of a kind.
Piece(k, ev) == IF ev.kind = k /\ ev.name # "eof" THEN <<ev>> ELSE <<>>

LEMMA TypedFacts ==
    ASSUME NEW k
    PROVE  /\ Typed(k, <<>>) = <<>>
           /\ \A ev \in AnyEvent : Piece(k, ev) \in Seq(AnyEvent)
           /\ \A s \in Seq(AnyEvent), ev \in AnyEvent :
                 Typed(k, Append(s, ev)) = Typed(k, s) \o Piece(k, ev)
           /\ \A s \in Seq(AnyEvent) : Typed(k, s) \in Seq(AnyEvent)
<1> DEFINE g == [ev \in AnyEvent |-> Piece(k, ev)]
<1>1. Typed(k, <<>>) = <<>>
  BY FlattenEmpty DEF Typed
<1>0. \A ev \in AnyEvent : Piece(k, ev) \in Seq(AnyEvent)
  BY DEF Piece
<1>2. g \in [AnyEvent -> Seq(AnyEvent)]
  BY <1>0
<1>3. ASSUME NEW s \in Seq(AnyEvent)
      PROVE  Typed(k, s) = FlattenSeq(Mapped(g, s))
  <2>1. DOMAIN s = 1 .. Len(s) /\ \A n \in 1 .. Len(s) : s[n] \in AnyEvent
    BY LenProperties, ElementOfSeq
  <2>2. [n \in DOMAIN s |-> Piece(k, s[n])] = [n \in DOMAIN s |-> g[s[n]]]
    BY <2>1
  <2>3. QED  BY <2>2 DEF Typed, Mapped, Piece
<1>4. ASSUME NEW s \in Seq(AnyEvent), NEW ev \in AnyEvent
      PROVE  Typed(k, Append(s, ev)) = Typed(k, s) \o Piece(k, ev)
  <2>1. Append(s, ev) \in Seq(AnyEvent) /\ g[ev] = Piece(k, ev)
    BY AppendProperties
  <2> HIDE DEF g
  <2>2. /\ Typed(k, Append(s, ev)) = FlattenSeq(Mapped(g, Append(s, ev)))
        /\ Typed(k, s) = FlattenSeq(Mapped(g, s))
    BY <1>3, <2>1
  <2>3. g \in [AnyEvent -> Seq(AnyEvent)]
    BY <1>2
  <2>4. FlattenSeq(Mapped(g, Append(s, ev))) = FlattenSeq(Mapped(g, s)) \o g[ev]
    BY <2>3, FlattenMapped, Zenon
  <2>5. QED  BY <2>1, <2>2, <2>4
<1>5. ASSUME NEW s \in Seq(AnyEvent)
      PROVE  Typed(k, s) \in Seq(AnyEvent)
  <2> HIDE DEF g
  <2>1. g \in [AnyEvent -> Seq(AnyEvent)]
    BY <1>2
  <2>2. FlattenSeq(Mapped(g, s)) \in Seq(AnyEvent)
    BY <2>1, FlattenMappedTyped, Zenon
  <2>3. QED  BY <1>3, <2>2
<1>6. QED  BY <1>0, <1>1, <1>4, <1>5

-----------------------------------------------------------------------------
(* Where the events of a script end in its bytes *)

\* Where the first n events end in the bytes of all.
EndOf(s, n) == Len(Flat(SubSeq(s, 1, n)))

LEMMA PrefixEmpty ==
    ASSUME NEW s
    PROVE  SubSeq(s, 1, 0) = <<>>
<1>1. 1 \in Int /\ 0 \in Int /\ 0 < 1
  OBVIOUS
<1>2. QED  BY <1>1, SubSeqEmpty

LEMMA PrefixTyped ==
    ASSUME NEW T, NEW s \in Seq(T), NEW n \in 0 .. Len(s)
    PROVE  /\ SubSeq(s, 1, n) \in Seq(T) /\ Len(SubSeq(s, 1, n)) = n
           /\ \A i \in 1 .. n : SubSeq(s, 1, n)[i] = s[i]
<1>1. Len(s) \in Nat
  BY LenProperties
<1>2. 1 \in Int /\ n \in Int /\ \A i \in 1 .. n : s[i] \in T
  BY <1>1, ElementOfSeq
<1>3. /\ SubSeq(s, 1, n) \in Seq(T)
      /\ Len(SubSeq(s, 1, n)) = IF 1 <= n THEN n - 1 + 1 ELSE 0
      /\ \A i \in 1 .. n - 1 + 1 : SubSeq(s, 1, n)[i] = s[1 + i - 1]
  BY <1>2, SubSeqProperties
<1>4. QED  BY <1>1, <1>3

LEMMA PrefixFlat ==
    ASSUME NEW s \in Seq(ClearEvent), NEW n \in 0 .. Len(s)
    PROVE  /\ SubSeq(s, 1, n) \in Seq(ClearEvent)
           /\ Flat(SubSeq(s, 1, n)) \in Seq(Byte) /\ EndOf(s, n) \in Nat
<1>1. SubSeq(s, 1, n) \in Seq(ClearEvent)
  BY PrefixTyped
<1>2. Flat(SubSeq(s, 1, n)) \in Seq(Byte)
  BY <1>1, FlatFacts
<1>3. QED  BY <1>1, <1>2, LenProperties DEF EndOf

LEMMA FlatNext ==
    ASSUME NEW s \in Seq(ClearEvent), NEW n \in 0 .. Len(s) - 1
    PROVE  /\ s[n + 1] \in ClearEvent /\ n \in 0 .. Len(s) /\ n + 1 \in 0 .. Len(s)
           /\ Flat(SubSeq(s, 1, n + 1)) = Flat(SubSeq(s, 1, n)) \o Bytes(s[n + 1])
           /\ EndOf(s, n + 1) = EndOf(s, n) + Len(Bytes(s[n + 1]))
           /\ \A i \in 1 .. EndOf(s, n) :
                 Flat(SubSeq(s, 1, n + 1))[i] = Flat(SubSeq(s, 1, n))[i]
           /\ \A i \in 1 .. Len(Bytes(s[n + 1])) :
                 Flat(SubSeq(s, 1, n + 1))[EndOf(s, n) + i] = Bytes(s[n + 1])[i]
<1>1. Len(s) \in Nat /\ n \in 0 .. Len(s) /\ n + 1 \in 0 .. Len(s)
  BY LenProperties
<1>2. SubSeq(s, 1, n + 1) = Append(SubSeq(s, 1, n), s[n + 1]) /\ s[n + 1] \in ClearEvent
  BY PrefixNext
<1>3. /\ SubSeq(s, 1, n) \in Seq(ClearEvent)
      /\ Flat(SubSeq(s, 1, n)) \in Seq(Byte) /\ EndOf(s, n) \in Nat
  BY <1>1, PrefixFlat
<1>4. Flat(SubSeq(s, 1, n + 1)) = Flat(SubSeq(s, 1, n)) \o Bytes(s[n + 1])
  BY <1>2, <1>3, FlatFacts
<1>5. Bytes(s[n + 1]) \in Seq(Byte) /\ Len(Bytes(s[n + 1])) \in Nat
  BY <1>2, ClearBytesTyped
<1> DEFINE f == Flat(SubSeq(s, 1, n))
           b == Bytes(s[n + 1])
           g == Flat(SubSeq(s, 1, n + 1))
<1>6. g = f \o b /\ f \in Seq(Byte) /\ b \in Seq(Byte) /\ Len(f) \in Nat /\ Len(b) \in Nat
  BY <1>3, <1>4, <1>5 DEF EndOf
<1>7. EndOf(s, n) = Len(f) /\ EndOf(s, n + 1) = Len(g)
  BY DEF EndOf
<1> HIDE DEF f, b, g
<1>8. Len(g) = Len(f) + Len(b)
  BY <1>6, ConcatProperties
<1>9. \A i \in 1 .. Len(f) : g[i] = f[i]
  BY <1>6, ConcatProperties
<1>10. \A i \in 1 .. Len(b) : g[Len(f) + i] = b[i]
  BY <1>6, ConcatProperties
<1>11. QED  BY <1>1, <1>2, <1>4, <1>7, <1>8, <1>9, <1>10 DEF f, b, g

\* The bytes of the first events begin the bytes of more.
LEMMA FlatGrows ==
    ASSUME NEW s \in Seq(ClearEvent), NEW n \in 0 .. Len(s), NEW m \in n .. Len(s)
    PROVE  /\ EndOf(s, n) <= EndOf(s, m) /\ (n < m => EndOf(s, n) < EndOf(s, m))
           /\ \A i \in 1 .. EndOf(s, n) :
                 Flat(SubSeq(s, 1, m))[i] = Flat(SubSeq(s, 1, n))[i]
<1> DEFINE P(k) == /\ EndOf(s, n) <= EndOf(s, k) /\ (n < k => EndOf(s, n) < EndOf(s, k))
                   /\ \A i \in 1 .. EndOf(s, n) :
                         Flat(SubSeq(s, 1, k))[i] = Flat(SubSeq(s, 1, n))[i]
           S == {k \in n .. Len(s) : P(k)}
<1>1. Len(s) \in Nat /\ n \in Nat /\ EndOf(s, n) \in Nat
  BY LenProperties, PrefixFlat
<1>2. n \in S
  BY <1>1
<1>3. ASSUME NEW k \in n .. Len(s) - 1, k \in S
      PROVE  k + 1 \in S
  <2>1. k \in 0 .. Len(s) - 1 /\ k \in 0 .. Len(s) /\ k + 1 \in n .. Len(s)
    BY <1>1
  <2>2. EndOf(s, k) \in Nat
    BY <2>1, PrefixFlat
  <2>3. /\ s[k + 1] \in ClearEvent
        /\ EndOf(s, k + 1) = EndOf(s, k) + Len(Bytes(s[k + 1]))
        /\ \A i \in 1 .. EndOf(s, k) :
                 Flat(SubSeq(s, 1, k + 1))[i] = Flat(SubSeq(s, 1, k))[i]
    BY <2>1, FlatNext
  <2>4. Len(Bytes(s[k + 1])) \in Nat \ {0}
    BY <2>3, ClearBytesTyped
  <2>5. P(k)
    BY <1>3
  <2>6. EndOf(s, n) < EndOf(s, k + 1)
    BY <1>1, <2>2, <2>3, <2>4, <2>5
  <2>7. \A i \in 1 .. EndOf(s, n) : Flat(SubSeq(s, 1, k + 1))[i] = Flat(SubSeq(s, 1, n))[i]
    <3>1. \A i \in 1 .. EndOf(s, n) : i \in 1 .. EndOf(s, k)
      BY <1>1, <2>2, <2>5
    <3>2. QED  BY <2>3, <2>5, <3>1
  <2>8. QED  BY <1>1, <2>1, <2>2, <2>3, <2>4, <2>6, <2>7
<1>4. m \in S
  <2> HIDE DEF S
  <2>1. \A k \in n .. Len(s) - 1 : k \in S => k + 1 \in S
    BY <1>3
  <2>2. n .. Len(s) \subseteq S
    BY <1>1, <1>2, <2>1, IntervalInduction
  <2>3. QED  BY <2>2
<1>5. QED  BY <1>4

LEMMA FlatEnds ==
    ASSUME NEW s \in Seq(ClearEvent)
    PROVE  /\ EndOf(s, 0) = 0 /\ EndOf(s, Len(s)) = Len(Flat(s)) /\ Flat(s) \in Seq(Byte)
           /\ Len(Flat(s)) \in Nat /\ Len(s) \in Nat
<1>1. SubSeq(s, 1, Len(s)) = s
  BY SubSeqFull
<1>2. EndOf(s, 0) = 0
  BY PrefixEmpty, FlatFacts, EmptySeq DEF EndOf
<1>3. QED  BY <1>1, <1>2, FlatFacts, LenProperties DEF EndOf

\* The bytes of the next event, where it begins.
LEMMA BytesOfNext ==
    ASSUME NEW s \in Seq(ClearEvent), NEW n \in 0 .. Len(s) - 1
    PROVE  /\ EndOf(s, n + 1) <= Len(Flat(s))
           /\ EndOf(s, n + 1) = EndOf(s, n) + Len(Bytes(s[n + 1]))
           /\ \A i \in 1 .. Len(Bytes(s[n + 1])) : Flat(s)[EndOf(s, n) + i] = Bytes(s[n + 1])[i]
<1>1. /\ n + 1 \in 0 .. Len(s) /\ Len(s) \in n + 1 .. Len(s) /\ n \in 0 .. Len(s)
      /\ Len(s) \in Nat
  BY FlatEnds
<1>2. /\ EndOf(s, n + 1) <= EndOf(s, Len(s))
      /\ \A i \in 1 .. EndOf(s, n + 1) :
            Flat(SubSeq(s, 1, Len(s)))[i] = Flat(SubSeq(s, 1, n + 1))[i]
  BY <1>1, FlatGrows
<1>3. SubSeq(s, 1, Len(s)) = s
  BY SubSeqFull
<1>4. /\ EndOf(s, n + 1) = EndOf(s, n) + Len(Bytes(s[n + 1]))
      /\ \A i \in 1 .. Len(Bytes(s[n + 1])) :
                 Flat(SubSeq(s, 1, n + 1))[EndOf(s, n) + i] = Bytes(s[n + 1])[i]
      /\ s[n + 1] \in ClearEvent
  BY FlatNext
<1>5. EndOf(s, n) \in Nat /\ Len(Bytes(s[n + 1])) \in Nat
  BY <1>1, <1>4, PrefixFlat, ClearBytesTyped
<1>6. \A i \in 1 .. Len(Bytes(s[n + 1])) : EndOf(s, n) + i \in 1 .. EndOf(s, n + 1)
  BY <1>4, <1>5
<1>7. EndOf(s, n + 1) <= Len(Flat(s))
  BY <1>2, FlatEnds
<1>8. QED  BY <1>2, <1>3, <1>4, <1>6, <1>7

\* What decodeInput makes of bytes that begin with an event, or a part of one.
LEMMA DecodesClear ==
    ASSUME NEW ev \in ClearEvent, NEW buf \in Seq(Byte), buf # <<>>,
           \A i \in 1 .. Len(Bytes(ev)) : i <= Len(buf) => buf[i] = Bytes(ev)[i],
           Len(buf) > Len(Bytes(ev)) => buf[Len(Bytes(ev)) + 1] \notin {"[", "cont"}
    PROVE  \/ /\ decodeInput(buf) = Incomplete
              /\ \/ Len(buf) < Len(Bytes(ev))
                 \/ ev = Key("esc") /\ buf = <<"esc">>
           \/ /\ decodeInput(buf) = Decoded(ev, Len(Bytes(ev)))
              /\ Len(Bytes(ev)) <= Len(buf)
<1>1. Len(buf) \in Nat /\ Len(buf) >= 1
  BY LenProperties, EmptySeq
<1>2. Len(buf) = 1 \/ Len(buf) >= 2
  <2> DEFINE n == Len(buf)
  <2>1. n \in Nat /\ n >= 1
    BY <1>1
  <2> HIDE DEF n
  <2>2. n = 1 \/ n >= 2
    BY <2>1
  <2>3. QED  BY <2>2 DEF n
<1>3. CASE ev \in {Key("a"), Key("b")}
  <2>1. PICK x \in {"a", "b"} : Bytes(ev) = <<x>> /\ ev = Key(x)
    BY <1>3, ClearBytes
  <2>2. buf[1] = x /\ Len(Bytes(ev)) = 1
    BY <1>1, <2>1
  <2>3. QED  BY <1>1, <2>1, <2>2 DEF decodeInput
<1>4. CASE ev = Key("esc")
  <2>1. Bytes(ev) = <<"esc">> /\ buf[1] = "esc"
    BY <1>1, <1>4, ClearBytes
  <2>2. CASE Len(buf) = 1
    <3>1. buf = <<"esc">>
      BY <2>1, <2>2
    <3>2. decodeEsc(buf) = Incomplete
      BY <2>2 DEF decodeEsc
    <3>3. decodeInput(buf) = Incomplete
      BY <2>1, <3>2 DEF decodeInput
    <3>4. QED  BY <1>4, <3>1, <3>3
  <2>3. CASE Len(buf) >= 2
    <3>1. Len(Bytes(ev)) = 1 /\ buf[2] # "["
      BY <1>1, <2>1, <2>3
    <3>2. decodeEsc(buf) = Decoded(ev, 1)
      BY <1>4, <2>3, <3>1 DEF decodeEsc
    <3>3. decodeInput(buf) = Decoded(ev, 1)
      BY <2>1, <3>2 DEF decodeInput
    <3>4. QED  BY <2>3, <3>1, <3>3
  <2>4. QED  BY <1>2, <2>2, <2>3
<1>5. CASE ev = Key("utf8")
  <2>1. Bytes(ev) = <<"lead", "cont">> /\ Len(Bytes(ev)) = 2
    BY <1>5, ClearBytes
  <2>2. buf[1] = "lead" /\ (2 <= Len(buf) => buf[2] = "cont")
    BY <1>1, <2>1
  <2>3. CASE Len(buf) = 1
    <3>1. decodeUtf8(buf) = Incomplete
      BY <2>3 DEF decodeUtf8
    <3>2. QED  BY <2>1, <2>2, <2>3, <3>1 DEF decodeInput
  <2>4. CASE Len(buf) >= 2
    <3>1. decodeUtf8(buf) = Decoded(ev, 2)
      BY <1>5, <2>2, <2>4 DEF decodeUtf8
    <3>2. QED  BY <2>1, <2>2, <2>4, <3>1 DEF decodeInput
  <2>5. QED  BY <1>2, <2>3, <2>4
<1>6. CASE ev \in {Key("up"), Mouse("m1"), Mouse("m2")}
  <2>1. PICK x \in {"up", "m1", "m2"} : /\ Bytes(ev) = <<"esc", "[", x>>
                                        /\ ev = IF x = "up" THEN Key("up") ELSE Mouse(x)
    BY <1>6, ClearBytes
  <2>2. /\ buf[1] = "esc" /\ (2 <= Len(buf) => buf[2] = "[") /\ (3 <= Len(buf) => buf[3] = x)
        /\ Len(Bytes(ev)) = 3
    BY <1>1, <2>1
  <2>3. CASE Len(buf) < 3
    <3>1. decodeEsc(buf) = Incomplete
      BY <1>1, <2>2, <2>3 DEF decodeEsc
    <3>2. QED  BY <2>2, <2>3, <3>1 DEF decodeInput
  <2>4. CASE Len(buf) >= 3
    <3>1. decodeEsc(buf) = Decoded(ev, 3)
      BY <2>1, <2>2, <2>4 DEF decodeEsc
    <3>2. QED  BY <2>2, <2>4, <3>1 DEF decodeInput
  <2>5. QED  BY <1>1, <2>3, <2>4
<1>7. QED  BY <1>3, <1>4, <1>5, <1>6 DEF ClearEvent

-----------------------------------------------------------------------------
(* Parts of a sequence, and what they decode to *)

\* What concatenation is made of.
LEMMA Concatenated ==
    ASSUME NEW T, NEW a \in Seq(T), NEW b \in Seq(T)
    PROVE  /\ Len(a) \in Nat /\ Len(b) \in Nat
           /\ Joined(a, b) \in Seq(T) /\ Len(Joined(a, b)) = Len(a) + Len(b)
           /\ \A i \in 1 .. Len(a) : Joined(a, b)[i] = a[i]
           /\ \A i \in 1 .. Len(b) : Joined(a, b)[Len(a) + i] = b[i]
<1> DEFINE m == Len(a)
           n == Len(b)
           w == Joined(a, b)
<1>1. m \in Nat /\ n \in Nat
  BY LenProperties
<1>2. w \in Seq(T) /\ Len(w) = m + n
  BY ConcatProperties DEF Joined
<1>3. \A i \in 1 .. m + n : w[i] = IF i <= m THEN a[i] ELSE b[i - m]
  BY ConcatProperties DEF Joined
<1> HIDE DEF m, n, w
<1>4. \A i \in 1 .. m : w[i] = a[i]
  BY <1>1, <1>3
<1>5. \A i \in 1 .. n : w[m + i] = b[i]
  <2>1. \A i \in 1 .. n : m + i \in 1 .. m + n /\ ~(m + i <= m) /\ (m + i) - m = i
    BY <1>1
  <2>2. QED  BY <1>3, <2>1
<1>6. QED  BY <1>1, <1>2, <1>4, <1>5 DEF m, n, w

\* The elements of t after the first e, up to the m-th.
Part(t, e, m) == SubSeq(t, e + 1, m)

\* a and then b are what t has there.
Spans(a, b, t, e, m) == Joined(a, b) = Part(t, e, m)

LEMMA PartTyped ==
    ASSUME NEW T, NEW t \in Seq(T), NEW e \in Nat, NEW m \in Nat, e <= m, m <= Len(t)
    PROVE  /\ Part(t, e, m) \in Seq(T) /\ Len(Part(t, e, m)) = m - e
           /\ \A i \in 1 .. m - e : Part(t, e, m)[i] = t[e + i]
<1> DEFINE w == Part(t, e, m)
<1>1. \A i \in e + 1 .. m : t[i] \in T
  <2>1. Len(t) \in Nat
    BY LenProperties
  <2>2. \A i \in e + 1 .. m : i \in 1 .. Len(t)
    BY <2>1
  <2>3. QED  BY <2>2, ElementOfSeq
<1>2. /\ w \in Seq(T)
      /\ Len(w) = IF e + 1 <= m THEN m - (e + 1) + 1 ELSE 0
      /\ \A i \in 1 .. m - (e + 1) + 1 : w[i] = t[(e + 1) + i - 1]
  BY <1>1, SubSeqProperties DEF Part
<1> HIDE DEF w
<1>3. /\ w \in Seq(T) /\ Len(w) = m - e
      /\ \A i \in 1 .. m - e : w[i] = t[e + i]
  BY <1>2
<1>4. QED  BY <1>3 DEF w

\* Two sequences that together are a part of one.
LEMMA PartSplit ==
    ASSUME NEW T, NEW t \in Seq(T), NEW e \in Nat, NEW m \in Nat, e <= m, m <= Len(t),
           NEW a \in Seq(T), NEW b \in Seq(T), Spans(a, b, t, e, m)
    PROVE  /\ e + Len(a) + Len(b) = m
           /\ \A i \in 1 .. Len(a) : a[i] = t[e + i]
           /\ \A i \in 1 .. Len(b) : b[i] = t[e + (Len(a) + i)]
<1> DEFINE x == Len(a)
           y == Len(b)
           w == Joined(a, b)
           p == Part(t, e, m)
<1>1. Len(p) = m - e /\ \A i \in 1 .. m - e : p[i] = t[e + i]
  BY PartTyped
<1>2. /\ x \in Nat /\ y \in Nat /\ Len(w) = x + y
      /\ \A i \in 1 .. x : w[i] = a[i]
      /\ \A i \in 1 .. y : w[x + i] = b[i]
  <2>1. x \in Nat /\ y \in Nat /\ Len(w) = x + y
    BY Concatenated
  <2>2. \A i \in 1 .. x : w[i] = a[i]
    BY Concatenated
  <2>3. \A i \in 1 .. y : w[x + i] = b[i]
    BY Concatenated
  <2>4. QED  BY <2>1, <2>2, <2>3
<1>3. Len(w) = Len(p) /\ \A i \in 1 .. m - e : w[i] = p[i]
  BY Zenon DEF Spans
<1> HIDE DEF x, y, w, p
<1>4. x + y = m - e /\ e + x + y = m
  BY <1>1, <1>2, <1>3
<1>5. \A i \in 1 .. x : i \in 1 .. m - e
  BY <1>2, <1>4
<1>6. \A i \in 1 .. y : x + i \in 1 .. m - e
  BY <1>2, <1>4
<1>7. \A i \in 1 .. x : a[i] = t[e + i]
  BY <1>1, <1>2, <1>3, <1>5
<1>8. \A i \in 1 .. y : b[i] = t[e + (x + i)]
  BY <1>1, <1>2, <1>3, <1>6
<1>9. QED  BY <1>4, <1>7, <1>8 DEF x, y

LEMMA RestIsPart ==
    ASSUME NEW s, NEW n
    PROVE  Rest(s, n) = Part(s, n, Len(s))
  BY DEF Rest, Part

LEMMA PartDrop ==
    ASSUME NEW T, NEW t \in Seq(T), NEW e \in Nat, NEW m \in Nat, e <= m, m <= Len(t),
           NEW a \in Seq(T), NEW b \in Seq(T), Spans(a, b, t, e, m),
           NEW n \in Nat, n <= Len(a)
    PROVE  /\ e + n <= m /\ Rest(a, n) \in Seq(T)
           /\ Spans(Rest(a, n), b, t, e + n, m)
<1> DEFINE x == Len(a)
           y == Len(b)
           f == e + n
           r == Rest(a, n)
           k == Len(r)
           v == Joined(r, b)
           q == Part(t, f, m)
<1>1. /\ x \in Nat /\ y \in Nat /\ e + x + y = m
      /\ \A i \in 1 .. x : a[i] = t[e + i]
      /\ \A i \in 1 .. y : b[i] = t[e + (x + i)]
  BY PartSplit, LenProperties
<1>2. r \in Seq(T) /\ k = x - n /\ \A i \in 1 .. x - n : r[i] = a[n + i]
  <2> DEFINE p == Part(a, n, x)
  <2>1. n <= x /\ x <= Len(a) /\ x \in Nat
    BY <1>1
  <2>2. p \in Seq(T) /\ Len(p) = x - n /\ \A i \in 1 .. x - n : p[i] = a[n + i]
    <3> HIDE DEF x
    <3>1. QED  BY <2>1, PartTyped
  <2>3. r = p
    BY RestIsPart
  <2> HIDE DEF r, p
  <2>4. QED  BY <2>2, <2>3, Zenon
<1>3. f \in Nat /\ f <= m
  <2> HIDE DEF x, y
  <2>1. n <= x
    BY DEF x
  <2>2. QED  BY <1>1, <2>1
<1>4. q \in Seq(T) /\ Len(q) = m - f /\ \A i \in 1 .. m - f : q[i] = t[f + i]
  <2> HIDE DEF f
  <2>1. QED  BY <1>3, PartTyped
<1>5. /\ v \in Seq(T) /\ k \in Nat /\ Len(v) = k + y
      /\ \A i \in 1 .. k : v[i] = r[i]
      /\ \A i \in 1 .. y : v[k + i] = b[i]
  <2> HIDE DEF r
  <2>0. r \in Seq(T)
    BY <1>2
  <2>1. v \in Seq(T) /\ k \in Nat /\ Len(v) = k + y
    BY <2>0, Concatenated
  <2>2. \A i \in 1 .. k : v[i] = r[i]
    BY <2>0, Concatenated
  <2>3. \A i \in 1 .. y : v[k + i] = b[i]
    BY <2>0, Concatenated
  <2>4. QED  BY <2>1, <2>2, <2>3
<1>6. v = q
  <2>0. n <= x
    OBVIOUS
  <2> HIDE DEF v, x, y, k, q, r
  <2>1. /\ k + y = m - f /\ k = x - n /\ x \in Nat /\ y \in Nat /\ k \in Nat
        /\ e + x + y = m
    BY <1>1, <1>2, <1>5
  <2>2. ASSUME NEW i \in 1 .. k + y
        PROVE  v[i] = q[i]
    <3>1. q[i] = t[f + i] /\ i \in Nat
      <4>1. i \in 1 .. m - f /\ i \in Nat
        BY <2>1
      <4>2. \A j \in 1 .. m - f : q[j] = t[f + j]
        BY <1>4
      <4>3. QED  BY <4>1, <4>2
    <3>2. CASE i <= k
      <4>1. i \in 1 .. k /\ n + i \in 1 .. x /\ e + (n + i) = f + i
        BY <2>0, <2>1, <3>1, <3>2
      <4>2. v[i] = a[n + i] /\ a[n + i] = t[e + (n + i)]
        BY <1>1, <1>2, <1>5, <4>1
      <4>3. QED  BY <3>1, <4>1, <4>2
    <3>3. CASE i > k
      <4>1. i - k \in 1 .. y /\ k + (i - k) = i /\ e + (x + (i - k)) = f + i
        BY <2>1, <3>1, <3>3
      <4>2. v[i] = b[i - k] /\ b[i - k] = t[e + (x + (i - k))]
        BY <1>1, <1>5, <4>1
      <4>3. QED  BY <3>1, <4>1, <4>2
    <3>4. QED  BY <1>5, <3>1, <3>2, <3>3
  <2>3. QED  BY <1>4, <1>5, <2>1, <2>2, SeqEqual
<1>7. Spans(r, b, t, f, m)
  BY <1>6, Zenon DEF Spans, v, q
<1>8. QED  BY <1>2, <1>3, <1>7 DEF r, f

\* The bytes buf are too few of those of the next event, or an ESC alone.
TooFew(buf, s, n) ==
    /\ decodeInput(buf) = Incomplete
    /\ \/ EndOf(s, n) + Len(buf) < EndOf(s, n + 1)
       \/ s[n + 1] = Key("esc") /\ buf = <<"esc">>

\* The bytes buf decode to the next event; what follows begins where it ends.
TheNext(buf, rest, s, n, m) ==
    /\ decodeInput(buf) = Decoded(s[n + 1], Len(Bytes(s[n + 1])))
    /\ Len(Bytes(s[n + 1])) <= Len(buf)
    /\ EndOf(s, n + 1) <= m
    /\ Spans(Rest(buf, Len(Bytes(s[n + 1]))), rest, Flat(s), EndOf(s, n + 1), m)

\* Bytes that begin where an event does are too few of its own, or decode to it.
LEMMA DecodesNext ==
    ASSUME NEW s \in Seq(ClearEvent), NEW n \in 0 .. Len(s), NEW m \in 0 .. Len(Flat(s)),
           NEW buf \in Seq(Byte), NEW rest \in Seq(Byte), buf # <<>>,
           EndOf(s, n) <= m, Spans(buf, rest, Flat(s), EndOf(s, n), m)
    PROVE  /\ n < Len(s) /\ EndOf(s, n) + Len(buf) + Len(rest) = m
           /\ TooFew(buf, s, n) \/ TheNext(buf, rest, s, n, m)
<1> DEFINE t == Flat(s)
           e == EndOf(s, n)
<1>1. t \in Seq(Byte) /\ Len(t) \in Nat /\ Len(s) \in Nat /\ EndOf(s, Len(s)) = Len(t)
  BY FlatEnds
<1>2. e \in Nat
  BY PrefixFlat
<1>3. Len(buf) \in Nat /\ Len(buf) >= 1 /\ Len(rest) \in Nat
  BY LenProperties, EmptySeq
<1> HIDE DEF t, e
<1>4. m \in Nat /\ e <= m /\ m <= Len(t) /\ Spans(buf, rest, t, e, m)
  BY <1>1 DEF t, e
<1>7. /\ e + Len(buf) + Len(rest) = m
      /\ \A i \in 1 .. Len(buf) : buf[i] = t[e + i]
  BY <1>1, <1>2, <1>4, PartSplit
<1>8. n < Len(s)
  <2>1. SUFFICES ASSUME n = Len(s) PROVE FALSE
    BY <1>1
  <2>2. e = Len(t)
    BY <1>1, <2>1 DEF e
  <2>3. QED  BY <1>1, <1>2, <1>3, <1>4, <1>7, <2>2
<1> DEFINE ev == s[n + 1]
           b == Bytes(ev)
<1>9. /\ EndOf(s, n + 1) <= Len(t) /\ EndOf(s, n + 1) = e + Len(b)
      /\ \A i \in 1 .. Len(b) : t[e + i] = b[i]
      /\ ev \in ClearEvent
  <2>1. n \in 0 .. Len(s) - 1
    BY <1>1, <1>8
  <2>2. QED  BY <2>1, BytesOfNext, FlatNext DEF t, e
<1>10. b \in Seq(Byte) /\ Len(b) \in Nat /\ Len(b) >= 1
  BY <1>9, ClearBytesTyped
<1>11. Len(buf) > Len(b) => buf[Len(b) + 1] \notin {"[", "cont"}
  <2>1. SUFFICES ASSUME Len(buf) > Len(b) PROVE buf[Len(b) + 1] \notin {"[", "cont"}
    OBVIOUS
  <2>2. buf[Len(b) + 1] = t[e + (Len(b) + 1)]
    BY <1>3, <1>7, <1>10, <2>1
  <2>3. n + 1 < Len(s)
    <3>1. SUFFICES ASSUME n + 1 = Len(s) PROVE FALSE
      BY <1>1, <1>8
    <3>2. e + Len(b) = Len(t)
      BY <1>1, <1>9, <3>1
    <3>3. QED  BY <1>1, <1>2, <1>3, <1>4, <1>7, <1>10, <2>1, <3>2
  <2>4. n + 1 \in 0 .. Len(s) - 1
    BY <1>1, <2>3
  <2> DEFINE c == Bytes(s[n + 1 + 1])
  <2>5. /\ \A i \in 1 .. Len(c) : t[EndOf(s, n + 1) + i] = c[i]
        /\ s[n + 1 + 1] \in ClearEvent
    BY <2>4, BytesOfNext, FlatNext DEF t
  <2>6. Len(c) \in Nat \ {0} /\ c[1] \notin {"[", "cont"}
    BY <2>5, ClearBytesTyped
  <2> HIDE DEF c
  <2>7. t[(e + Len(b)) + 1] = c[1]
    BY <1>9, <2>5, <2>6
  <2>8. e + (Len(b) + 1) = (e + Len(b)) + 1
    BY <1>2, <1>10
  <2>9. QED  BY <2>2, <2>6, <2>7, <2>8
<1> HIDE DEF ev, b
<1>12. \A i \in 1 .. Len(b) : i <= Len(buf) => buf[i] = b[i]
  BY <1>3, <1>7, <1>9, <1>10
<1> DEFINE Short == /\ decodeInput(buf) = Incomplete
                    /\ Len(buf) < Len(b) \/ (ev = Key("esc") /\ buf = <<"esc">>)
           Whole == decodeInput(buf) = Decoded(ev, Len(b)) /\ Len(b) <= Len(buf)
<1>13. Short \/ Whole
  <2>1. \/ /\ decodeInput(buf) = Incomplete
           /\ \/ Len(buf) < Len(b)
              \/ ev = Key("esc") /\ buf = <<"esc">>
        \/ /\ decodeInput(buf) = Decoded(ev, Len(b))
           /\ Len(b) <= Len(buf)
    BY <1>9, <1>11, <1>12, DecodesClear DEF b
  <2>2. QED  BY <2>1
<1>14. CASE Short
  <2>1. Len(buf) < Len(b) => e + Len(buf) < e + Len(b)
    BY <1>2, <1>3, <1>10
  <2>2. QED  BY <1>7, <1>8, <1>9, <1>14, <2>1 DEF ev, e, TooFew
<1>15. CASE Whole
  <2>1. EndOf(s, n + 1) = e + Len(b)
    BY <1>9
  <2>2. /\ e + Len(b) <= m
        /\ Spans(Rest(buf, Len(b)), rest, t, e + Len(b), m)
    BY <1>1, <1>2, <1>4, <1>10, <1>15, PartDrop
  <2>3. QED  BY <1>7, <1>8, <1>15, <2>1, <2>2 DEF ev, e, b, t, TheNext
<1> HIDE DEF Short, Whole
<1>16. QED  BY <1>13, <1>14, <1>15

-----------------------------------------------------------------------------
(* The events of a kind *)

\* Joined obeys the laws of concatenation.
LEMMA JoinedLaws ==
    ASSUME NEW T
    PROVE  /\ \A a, b \in Seq(T) : Joined(a, b) \in Seq(T)
           /\ \A a \in Seq(T) : Joined(a, <<>>) = a /\ Joined(<<>>, a) = a
           /\ \A a, b, c \in Seq(T) : Joined(Joined(a, b), c) = Joined(a, Joined(b, c))
           /\ \A a \in Seq(T), e \in T : Joined(a, <<e>>) = Append(a, e) /\ <<e>> \in Seq(T)
           /\ <<>> \in Seq(T)
<1>1. \A a, b \in Seq(T) : Joined(a, b) \in Seq(T)
  BY ConcatProperties DEF Joined
<1>2. \A a \in Seq(T) : Joined(a, <<>>) = a /\ Joined(<<>>, a) = a
  BY ConcatEmptySeq DEF Joined
<1>3. \A a, b, c \in Seq(T) : Joined(Joined(a, b), c) = Joined(a, Joined(b, c))
  BY ConcatAssociative DEF Joined
<1>4. \A a \in Seq(T), e \in T : Joined(a, <<e>>) = Append(a, e) /\ <<e>> \in Seq(T)
  BY AppendIsConcat DEF Joined
<1>5. <<>> \in Seq(T)
  BY EmptySeq
<1>6. QED  BY <1>1, <1>2, <1>3, <1>4, <1>5

LEMMA JoinedOne ==
    ASSUME NEW T, NEW a \in Seq(T), NEW e \in T
    PROVE  Joined(a, <<e>>) = Append(a, e)
  BY AppendIsConcat DEF Joined

LEMMA JoinedAppend ==
    ASSUME NEW T, NEW a \in Seq(T), NEW z \in Seq(T), NEW e \in T
    PROVE  Joined(a, z) \in Seq(T) /\ Joined(a, Append(z, e)) = Append(Joined(a, z), e)
<1> DEFINE one == <<e>>
           b == a \o z
<1>1. one \in Seq(T)
  OBVIOUS
<1>2. z \o one = Append(z, e)
  BY AppendIsConcat
<1>3. b \in Seq(T)
  BY ConcatProperties
<1>4. b \o one = Append(b, e)
  <2> HIDE DEF b
  <2>1. QED  BY <1>3, AppendIsConcat
<1> HIDE DEF one
<1>5. (a \o z) \o one = a \o (z \o one)
  BY <1>1, ConcatAssociative
<1>6. a \o Append(z, e) = Append(b, e)
  BY <1>2, <1>4, <1>5, Zenon DEF b
<1>7. QED  BY <1>3, <1>6, Zenon DEF Joined, b

\* Typed goes through a sequence one event at a time.
LEMMA TypedSteps ==
    ASSUME NEW k
    PROVE  /\ Typed(k, <<>>) = <<>>
           /\ \A ev \in AnyEvent : Piece(k, ev) \in Seq(AnyEvent)
           /\ \A s \in Seq(AnyEvent), ev \in AnyEvent :
                 Typed(k, Append(s, ev)) = Joined(Typed(k, s), Piece(k, ev))
           /\ \A s \in Seq(AnyEvent) : Typed(k, s) \in Seq(AnyEvent)
  BY TypedFacts DEF Joined

LEMMA TypedJoined ==
    ASSUME NEW k, NEW s \in Seq(AnyEvent), NEW t \in Seq(AnyEvent)
    PROVE  Typed(k, Joined(s, t)) = Joined(Typed(k, s), Typed(k, t))
<1> DEFINE u(n) == SubSeq(t, 1, n)
           S == {n \in 0 .. Len(t) :
                   Typed(k, Joined(s, u(n))) = Joined(Typed(k, s), Typed(k, u(n)))}
<1>1. Len(t) \in Nat
  BY LenProperties
<1>2. 0 \in S
  <2>1. u(0) = <<>>
    BY PrefixEmpty
  <2>2. Typed(k, Joined(s, <<>>)) = Joined(Typed(k, s), Typed(k, <<>>))
    BY JoinedLaws, TypedSteps
  <2> HIDE DEF u
  <2>3. QED  BY <1>1, <2>1, <2>2
<1>3. ASSUME NEW n \in 0 .. Len(t) - 1, n \in S
      PROVE  n + 1 \in S
  <2> DEFINE e == t[n + 1]
             v == u(n)
             w == u(n + 1)
  <2>1. w = Append(v, e) /\ v \in Seq(AnyEvent) /\ e \in AnyEvent
    BY PrefixNext
  <2>2. Typed(k, Joined(s, v)) = Joined(Typed(k, s), Typed(k, v))
    BY <1>3
  <2>3. n + 1 \in 0 .. Len(t)
    BY <1>1
  <2> HIDE DEF e, v, w, u
  <2>4. Joined(s, w) = Append(Joined(s, v), e) /\ Joined(s, v) \in Seq(AnyEvent)
    BY <2>1, JoinedAppend
  <2>5. Typed(k, Joined(s, w)) = Joined(Joined(Typed(k, s), Typed(k, v)), Piece(k, e))
    <3> DEFINE j == Joined(s, v)
    <3>1. j \in Seq(AnyEvent)
      BY <2>4
    <3> HIDE DEF j
    <3>2. Typed(k, Append(j, e)) = Joined(Typed(k, j), Piece(k, e))
      BY <2>1, <3>1, TypedSteps
    <3>3. QED  BY <2>2, <2>4, <3>2, Zenon DEF j
  <2>6. Typed(k, w) = Joined(Typed(k, v), Piece(k, e))
    BY <2>1, TypedSteps
  <2>7. /\ Typed(k, s) \in Seq(AnyEvent) /\ Typed(k, v) \in Seq(AnyEvent)
        /\ Piece(k, e) \in Seq(AnyEvent)
    BY <2>1, TypedSteps
  <2>8. Typed(k, Joined(s, w)) = Joined(Typed(k, s), Typed(k, w))
    BY <2>5, <2>6, <2>7, JoinedLaws
  <2>9. QED  BY <2>3, <2>8 DEF w
<1>4. Len(t) \in S
  <2> HIDE DEF S
  <2>1. \A n \in 0 .. Len(t) - 1 : n \in S => n + 1 \in S
    BY <1>3
  <2>2. 0 .. Len(t) \subseteq S
    BY <1>1, <1>2, <2>1, IntervalInduction
  <2>3. QED  BY <1>1, <2>2
<1>5. u(Len(t)) = t
  BY SubSeqFull
<1> HIDE DEF u
<1>6. QED  BY <1>4, <1>5

LEMMA TypedNone ==
    ASSUME NEW k, NEW s \in Seq(AnyEvent), \A i \in 1 .. Len(s) : s[i].kind # k
    PROVE  Typed(k, s) = <<>>
<1> DEFINE S == {n \in 0 .. Len(s) : Typed(k, SubSeq(s, 1, n)) = <<>>}
<1>1. Len(s) \in Nat
  BY LenProperties
<1>2. 0 \in S
  <2>1. Typed(k, SubSeq(s, 1, 0)) = <<>>
    BY PrefixEmpty, TypedSteps, Zenon
  <2>2. QED  BY <1>1, <2>1
<1>3. ASSUME NEW n \in 0 .. Len(s) - 1, n \in S
      PROVE  n + 1 \in S
  <2>1. /\ SubSeq(s, 1, n + 1) = Append(SubSeq(s, 1, n), s[n + 1])
        /\ SubSeq(s, 1, n) \in Seq(AnyEvent) /\ s[n + 1] \in AnyEvent
    BY PrefixNext
  <2>2. n + 1 \in 1 .. Len(s) /\ n + 1 \in 0 .. Len(s)
    BY <1>1
  <2>3. Piece(k, s[n + 1]) = <<>>
    BY <2>2 DEF Piece
  <2>4. Typed(k, SubSeq(s, 1, n + 1)) = Joined(<<>>, <<>>)
    BY <1>3, <2>1, <2>3, TypedSteps
  <2>5. Joined(<<>>, <<>>) = <<>>
    BY JoinedLaws
  <2>6. QED  BY <2>2, <2>4, <2>5
<1>4. Len(s) \in S
  <2> HIDE DEF S
  <2>1. \A n \in 0 .. Len(s) - 1 : n \in S => n + 1 \in S
    BY <1>3
  <2>2. 0 .. Len(s) \subseteq S
    BY <1>1, <1>2, <2>1, IntervalInduction
  <2>3. QED  BY <1>1, <2>2
<1>5. QED  BY <1>4, SubSeqFull

\* What begins the events of a kind is those of a shorter prefix.
LEMMA TypedBegins ==
    ASSUME NEW k, NEW s \in Seq(AnyEvent), NEW n \in 0 .. Len(s),
           NEW a \in Seq(AnyEvent), NEW x \in Seq(AnyEvent),
           Joined(a, x) = Typed(k, SubSeq(s, 1, n))
    PROVE  \E m \in 0 .. n : a = Typed(k, SubSeq(s, 1, m))
<1> DEFINE P(i) == \A b, y \in Seq(AnyEvent) :
                      Joined(b, y) = Typed(k, SubSeq(s, 1, i))
                          => \E m \in 0 .. i : b = Typed(k, SubSeq(s, 1, m))
           S == {i \in 0 .. Len(s) : P(i)}
<1>1. Len(s) \in Nat
  BY LenProperties
<1>2. 0 \in S
  <2>1. SubSeq(s, 1, 0) = <<>> /\ Typed(k, <<>>) = <<>>
    BY PrefixEmpty, TypedSteps
  <2>2. ASSUME NEW b \in Seq(AnyEvent), NEW y \in Seq(AnyEvent), Joined(b, y) = <<>>
        PROVE  b = <<>>
    BY <2>2, ConcatEqualIffEmpty DEF Joined
  <2>3. 0 \in 0 .. 0 /\ 0 \in 0 .. Len(s)
    BY <1>1
  <2>4. QED  BY <2>1, <2>2, <2>3
<1>3. ASSUME NEW i \in 0 .. Len(s) - 1, i \in S
      PROVE  i + 1 \in S
  <2> DEFINE e == s[i + 1]
             v == SubSeq(s, 1, i)
             w == SubSeq(s, 1, i + 1)
  <2>1. w = Append(v, e) /\ v \in Seq(AnyEvent) /\ e \in AnyEvent
    BY PrefixNext
  <2>2. i + 1 \in 0 .. Len(s) /\ i + 1 \in 0 .. i + 1 /\ 0 .. i \subseteq 0 .. i + 1
    BY <1>1
  <2>3. P(i)
    BY <1>3
  <2>4. Typed(k, w) = Joined(Typed(k, v), Piece(k, e)) /\ Typed(k, v) \in Seq(AnyEvent)
    <3> HIDE DEF e, v, w
    <3>1. /\ Typed(k, Append(v, e)) = Joined(Typed(k, v), Piece(k, e))
          /\ Typed(k, v) \in Seq(AnyEvent)
      BY <2>1, TypedSteps
    <3>2. QED  BY <2>1, <3>1, Zenon
  <2>5. ASSUME NEW b \in Seq(AnyEvent), NEW y \in Seq(AnyEvent),
               Joined(b, y) = Typed(k, w)
        PROVE  \E m \in 0 .. i + 1 : b = Typed(k, SubSeq(s, 1, m))
    <3>1. CASE Piece(k, e) = <<>>
      <4>1. Joined(b, y) = Typed(k, v)
        BY <2>4, <2>5, <3>1, JoinedLaws
      <4>2. QED  BY <2>2, <2>3, <4>1
    <3>2. CASE Piece(k, e) = <<e>> /\ y = <<>>
      <4>1. b = Typed(k, w)
        BY <2>5, <3>2, JoinedLaws
      <4>2. QED  BY <2>2, <4>1
    <3>3. CASE Piece(k, e) = <<e>> /\ y # <<>>
      <4>1. PICK z \in Seq(AnyEvent), l \in AnyEvent : y = Append(z, l)
        BY <3>3, SequenceEmptyOrAppend
      <4>2. Joined(b, y) = Append(Joined(b, z), l) /\ Joined(b, z) \in Seq(AnyEvent)
        BY <4>1, JoinedAppend
      <4>3. Typed(k, w) = Append(Typed(k, v), e)
        <5>1. Joined(Typed(k, v), <<e>>) = Append(Typed(k, v), e)
          BY <2>1, <2>4, JoinedOne
        <5>2. QED  BY <2>4, <3>3, <5>1, Zenon
      <4>4. Joined(b, z) = Typed(k, v)
        <5>1. Append(Joined(b, z), l) = Append(Typed(k, v), e)
          BY <2>5, <4>2, <4>3
        <5>2. QED  BY <2>1, <2>4, <4>1, <4>2, <5>1, AppendInjective
      <4>5. QED  BY <2>2, <2>3, <4>1, <4>4
    <3>4. QED  BY <3>1, <3>2, <3>3 DEF Piece
  <2>6. QED  BY <2>2, <2>5
<1>4. n \in S
  <2> HIDE DEF S
  <2>1. \A i \in 0 .. Len(s) - 1 : i \in S => i + 1 \in S
    BY <1>3
  <2>2. 0 .. Len(s) \subseteq S
    BY <1>1, <1>2, <2>1, IntervalInduction
  <2>3. QED  BY <2>2
<1>5. QED  BY <1>4

\* An event that is the first of its kind may be taken out and put first.
LEMMA TypedTaken ==
    ASSUME NEW k, NEW s \in Seq(AnyEvent), NEW n \in 1 .. Len(s),
           \A i \in 1 .. n - 1 : s[i].kind # s[n].kind
    PROVE  Typed(k, s)
               = Joined(Piece(k, s[n]),
                        Typed(k, SubSeq(s, 1, n - 1) \o Rest(s, n)))
<1> DEFINE u == SubSeq(s, 1, n - 1)
           r == Rest(s, n)
           e == s[n]
<1>1. Len(s) \in Nat /\ n - 1 \in 0 .. Len(s) - 1 /\ n - 1 \in 0 .. Len(s) /\ n \in Nat
      /\ (n - 1) + 1 = n
  BY LenProperties
<1>2. u \in Seq(AnyEvent) /\ Len(u) = n - 1 /\ \A i \in 1 .. n - 1 : u[i] = s[i]
  BY <1>1, PrefixTyped
<1>3. r \in Seq(AnyEvent)
  BY <1>1, RestTyped
<1>4. e \in AnyEvent /\ <<e>> \in Seq(AnyEvent)
  BY ElementOfSeq, JoinedLaws
<1>5. s = Joined(Append(u, e), r)
  <2>1. SubSeq(s, 1, n) = Append(u, e)
    BY <1>1, PrefixNext
  <2>2. s = SubSeq(s, 1, n) \o Rest(s, n)
    <3>1. /\ 1 \in 1 .. Len(s) + 1 /\ n \in 1 - 1 .. Len(s) /\ Len(s) \in n .. Len(s)
      BY <1>1
    <3>2. SubSeq(s, 1, n) \o SubSeq(s, n + 1, Len(s)) = SubSeq(s, 1, Len(s))
      BY <3>1, ConcatAdjacentSubSeq
    <3>3. QED  BY <3>2, SubSeqFull, Zenon DEF Rest
  <2>3. QED  BY <2>1, <2>2, Zenon DEF Joined
<1>6. Typed(k, s) = Joined(Joined(Typed(k, u), Piece(k, e)), Typed(k, r))
  <2> HIDE DEF u, r, e
  <2>1. Append(u, e) \in Seq(AnyEvent) /\ Typed(k, Append(u, e)) = Joined(Typed(k, u), Piece(k, e))
    BY <1>2, <1>4, AppendProperties, TypedSteps
  <2>2. Typed(k, Joined(Append(u, e), r)) = Joined(Typed(k, Append(u, e)), Typed(k, r))
    BY <1>3, <2>1, TypedJoined
  <2>3. QED  BY <1>5, <2>1, <2>2, Zenon
<1>7. Typed(k, u \o r) = Joined(Typed(k, u), Typed(k, r))
  <2> HIDE DEF u, r
  <2>1. QED  BY <1>2, <1>3, TypedJoined DEF Joined
<1>8. /\ Typed(k, u) \in Seq(AnyEvent) /\ Typed(k, r) \in Seq(AnyEvent)
      /\ Piece(k, e) \in Seq(AnyEvent)
  BY <1>2, <1>3, <1>4, TypedSteps
<1>9. CASE e.kind = k
  <2>1. Typed(k, u) = <<>>
    <3>1. \A i \in 1 .. Len(u) : u[i].kind # k
      BY <1>2, <1>9
    <3>2. QED  BY <1>2, <3>1, TypedNone
  <2>2. QED  BY <1>6, <1>7, <1>8, <2>1, JoinedLaws
<1>10. CASE e.kind # k
  <2>1. Piece(k, e) = <<>>
    BY <1>10 DEF Piece
  <2>2. QED  BY <1>6, <1>7, <1>8, <2>1, JoinedLaws
<1>11. QED  BY <1>9, <1>10

-----------------------------------------------------------------------------
(* What is told, and what is unread *)

\* The events of h, and after them the events p that are parked, are the first n
\* of the script s.
TellsOf(h, p, s, n) ==
    \A k \in Kind : Joined(Typed(k, h), Typed(k, p)) = Typed(k, SubSeq(s, 1, n))

\* The bytes b, and after them those that wait, are what was typed after the first
\* n events of s, as far as it has been.
UnreadOf(b, rest, s, n, m) ==
    EndOf(s, n) <= m /\ Spans(b, rest, Flat(s), EndOf(s, n), m)

LEMMA ClearSeqTyped ==
    ASSUME NEW s \in Seq(ClearEvent)
    PROVE  s \in Seq(AnyEvent) /\ s \in Seq(InputEvent)
<1>1. Len(s) \in Nat /\ s \in [1 .. Len(s) -> ClearEvent]
  BY LenProperties
<1>2. s \in [1 .. Len(s) -> AnyEvent] /\ s \in [1 .. Len(s) -> InputEvent]
  BY <1>1, ClearEventTypes
<1>3. QED  BY <1>1, <1>2, FunctionIsSeq

\* The next event of the script.
LEMMA NextTyped ==
    ASSUME NEW k, NEW s \in Seq(ClearEvent), NEW n \in 0 .. Len(s) - 1
    PROVE  /\ Typed(k, SubSeq(s, 1, n + 1)) = Joined(Typed(k, SubSeq(s, 1, n)), Piece(k, s[n + 1]))
           /\ Typed(k, SubSeq(s, 1, n)) \in Seq(AnyEvent)
           /\ s[n + 1] \in ClearEvent
<1>1. s \in Seq(AnyEvent)
  BY ClearSeqTyped
<1>2. /\ SubSeq(s, 1, n + 1) = Append(SubSeq(s, 1, n), s[n + 1])
      /\ SubSeq(s, 1, n) \in Seq(AnyEvent) /\ s[n + 1] \in AnyEvent
  BY <1>1, PrefixNext
<1>3. QED  BY <1>2, PrefixNext, TypedSteps

\* The next event is told, while none of its kind is parked.
LEMMA TellsNext ==
    ASSUME NEW h \in Seq(AnyEvent), NEW p \in Seq(AnyEvent), NEW s \in Seq(ClearEvent),
           NEW n \in 0 .. Len(s) - 1, TellsOf(h, p, s, n),
           \A i \in 1 .. Len(p) : p[i].kind # s[n + 1].kind
    PROVE  TellsOf(Append(h, s[n + 1]), p, s, n + 1)
<1> DEFINE e == s[n + 1]
<1> SUFFICES ASSUME NEW k \in Kind
             PROVE  Joined(Typed(k, Append(h, e)), Typed(k, p)) = Typed(k, SubSeq(s, 1, n + 1))
  BY DEF TellsOf
<1> DEFINE H == Typed(k, h)
           P == Typed(k, p)
           N == Typed(k, SubSeq(s, 1, n))
           E == Piece(k, e)
<1>1. Typed(k, SubSeq(s, 1, n + 1)) = Joined(N, E) /\ N \in Seq(AnyEvent) /\ e \in AnyEvent
  BY NextTyped, ClearEventTypes
<1>2. Typed(k, Append(h, e)) = Joined(H, E) /\ H \in Seq(AnyEvent) /\ P \in Seq(AnyEvent)
      /\ E \in Seq(AnyEvent)
  BY <1>1, TypedSteps
<1>3. Joined(H, P) = N
  BY DEF TellsOf
<1>4. CASE e.kind = k
  <2>1. P = <<>>
    BY <1>4, TypedNone
  <2> HIDE DEF H, P, N, E
  <2>2. H = N
    BY <1>2, <1>3, <2>1, JoinedLaws
  <2>3. Joined(Joined(H, E), P) = Joined(N, E)
    BY <1>2, <2>1, <2>2, JoinedLaws
  <2>4. QED  BY <1>1, <1>2, <2>3, Zenon DEF P
<1>5. CASE e.kind # k
  <2>1. E = <<>>
    BY <1>5 DEF Piece
  <2> HIDE DEF H, P, N, E
  <2>2. Joined(H, E) = H /\ Joined(N, E) = N
    BY <1>1, <1>2, <2>1, JoinedLaws
  <2>3. QED  BY <1>1, <1>2, <1>3, <2>2, Zenon DEF P
<1>6. QED  BY <1>4, <1>5

\* The next event is parked.
LEMMA TellsParked ==
    ASSUME NEW h \in Seq(AnyEvent), NEW p \in Seq(AnyEvent), NEW s \in Seq(ClearEvent),
           NEW n \in 0 .. Len(s) - 1, TellsOf(h, p, s, n)
    PROVE  TellsOf(h, Append(p, s[n + 1]), s, n + 1)
<1> DEFINE e == s[n + 1]
<1> SUFFICES ASSUME NEW k \in Kind
             PROVE  Joined(Typed(k, h), Typed(k, Append(p, e))) = Typed(k, SubSeq(s, 1, n + 1))
  BY DEF TellsOf
<1> DEFINE H == Typed(k, h)
           P == Typed(k, p)
           N == Typed(k, SubSeq(s, 1, n))
           E == Piece(k, e)
<1>1. Typed(k, SubSeq(s, 1, n + 1)) = Joined(N, E) /\ N \in Seq(AnyEvent) /\ e \in AnyEvent
  BY NextTyped, ClearEventTypes
<1>2. Typed(k, Append(p, e)) = Joined(P, E) /\ H \in Seq(AnyEvent) /\ P \in Seq(AnyEvent)
      /\ E \in Seq(AnyEvent)
  BY <1>1, TypedSteps
<1>3. Joined(H, P) = N
  BY DEF TellsOf
<1> HIDE DEF H, P, N, E
<1>4. Joined(H, Joined(P, E)) = Joined(Joined(H, P), E)
  BY <1>2, JoinedLaws
<1>5. QED  BY <1>1, <1>2, <1>3, <1>4, Zenon DEF H

\* The oldest parked event of a kind is told.
LEMMA TellsTaken ==
    ASSUME NEW h \in Seq(AnyEvent), NEW p \in Seq(AnyEvent), NEW s, NEW n,
           TellsOf(h, p, s, n), NEW i \in 1 .. Len(p),
           \A j \in 1 .. i - 1 : p[j].kind # p[i].kind
    PROVE  TellsOf(Append(h, p[i]), SubSeq(p, 1, i - 1) \o Rest(p, i), s, n)
<1> DEFINE e == p[i]
           r == SubSeq(p, 1, i - 1) \o Rest(p, i)
<1>1. e \in AnyEvent
  BY ElementOfSeq
<1>2. r \in Seq(AnyEvent)
  <2>1. Len(p) \in Nat /\ i - 1 \in 0 .. Len(p) /\ i \in Nat
    BY LenProperties
  <2>2. SubSeq(p, 1, i - 1) \in Seq(AnyEvent) /\ Rest(p, i) \in Seq(AnyEvent)
    BY <2>1, PrefixTyped, RestTyped
  <2>3. QED  BY <2>2, ConcatProperties
<1> SUFFICES ASSUME NEW k \in Kind
             PROVE  Joined(Typed(k, Append(h, e)), Typed(k, r)) = Typed(k, SubSeq(s, 1, n))
  BY DEF TellsOf
<1> DEFINE H == Typed(k, h)
           P == Typed(k, p)
           R == Typed(k, r)
           E == Piece(k, e)
<1>3. P = Joined(E, R)
  BY TypedTaken
<1>4. Joined(H, P) = Typed(k, SubSeq(s, 1, n))
  BY DEF TellsOf
<1> HIDE DEF r
<1>5. Typed(k, Append(h, e)) = Joined(H, E) /\ H \in Seq(AnyEvent) /\ R \in Seq(AnyEvent)
      /\ E \in Seq(AnyEvent)
  BY <1>1, <1>2, TypedSteps
<1> HIDE DEF H, P, R, E
<1>6. Joined(Joined(H, E), R) = Joined(H, Joined(E, R))
  BY <1>5, JoinedLaws
<1>7. QED  BY <1>3, <1>4, <1>5, <1>6, Zenon DEF R

\* Something is told that is no key and no mouse event.
LEMMA TellsOther ==
    ASSUME NEW h \in Seq(AnyEvent), NEW p, NEW s, NEW n, TellsOf(h, p, s, n),
           NEW e \in AnyEvent, e.name = "eof" \/ e.kind \notin Kind
    PROVE  TellsOf(Append(h, e), p, s, n)
<1>1. ASSUME NEW k \in Kind
      PROVE  Typed(k, Append(h, e)) = Typed(k, h)
  <2>1. Piece(k, e) = <<>>
    BY DEF Piece
  <2>2. Typed(k, Append(h, e)) = Joined(Typed(k, h), <<>>) /\ Typed(k, h) \in Seq(AnyEvent)
    BY <2>1, TypedSteps
  <2>3. QED  BY <2>2, JoinedLaws
<1>2. QED  BY <1>1 DEF TellsOf

LEMMA TellsStart ==
    ASSUME NEW s
    PROVE  TellsOf(<<>>, <<>>, s, 0)
<1>1. \A k \in Kind : Joined(Typed(k, <<>>), Typed(k, <<>>)) = Typed(k, SubSeq(s, 1, 0))
  <2>1. \A k \in Kind : Typed(k, <<>>) = <<>>
    BY TypedSteps
  <2>2. SubSeq(s, 1, 0) = <<>> /\ Joined(<<>>, <<>>) = <<>>
    BY PrefixEmpty, JoinedLaws
  <2>3. QED  BY <2>1, <2>2
<1>2. QED  BY <1>1 DEF TellsOf

\* All that waits is read.
LEMMA UnreadRead ==
    ASSUME NEW b \in Seq(Byte), NEW rest \in Seq(Byte), NEW s, NEW n, NEW m,
           UnreadOf(b, rest, s, n, m)
    PROVE  UnreadOf(b \o rest, <<>>, s, n, m)
<1>1. Joined(b, rest) \in Seq(Byte)
  BY JoinedLaws
<1>2. Joined(Joined(b, rest), <<>>) = Joined(b, rest)
  BY <1>1, JoinedLaws
<1>3. Spans(Joined(b, rest), <<>>, Flat(s), EndOf(s, n), m)
  BY <1>2, Zenon DEF UnreadOf, Spans
<1>4. QED  BY <1>3, Zenon DEF UnreadOf, Joined

\* More is typed.
LEMMA UnreadType ==
    ASSUME NEW s \in Seq(ClearEvent), NEW n \in 0 .. Len(s), NEW m \in 0 .. Len(Flat(s)),
           NEW b \in Seq(Byte), NEW rest \in Seq(Byte), UnreadOf(b, rest, s, n, m),
           NEW l \in m + 1 .. Len(Flat(s))
    PROVE  UnreadOf(b, rest \o SubSeq(Flat(s), m + 1, l), s, n, l)
<1> DEFINE t == Flat(s)
           e == EndOf(s, n)
           u == Part(t, m, l)
<1>1. t \in Seq(Byte) /\ Len(t) \in Nat /\ e \in Nat /\ m \in Nat /\ l \in Nat
      /\ e <= m /\ m < l /\ e <= l /\ l <= Len(t) /\ m <= l
  BY FlatEnds, PrefixFlat DEF UnreadOf
<1>2. u \in Seq(Byte)
  BY <1>1, PartTyped
<1>3. Joined(Part(t, e, m), u) = Part(t, e, l)
  <2>1. e + 1 \in 1 .. Len(t) + 1 /\ m \in (e + 1) - 1 .. Len(t) /\ l \in m .. Len(t)
    BY <1>1
  <2>2. SubSeq(t, e + 1, m) \o SubSeq(t, m + 1, l) = SubSeq(t, e + 1, l)
    BY <1>1, <2>1, ConcatAdjacentSubSeq
  <2>3. QED  BY <2>2, Zenon DEF Joined, Part
<1>4. Joined(b, rest) = Part(t, e, m)
  BY Zenon DEF UnreadOf, Spans
<1> HIDE DEF u, t, e
<1>5. Joined(b, Joined(rest, u)) = Joined(Joined(b, rest), u)
  BY <1>2, JoinedLaws
<1>6. Spans(b, Joined(rest, u), t, e, l)
  BY <1>3, <1>4, <1>5, Zenon DEF Spans
<1>7. e <= l
  BY <1>1
<1>8. QED  BY <1>6, <1>7, Zenon DEF UnreadOf, t, e, u, Joined, Part

LEMMA UnreadStart ==
    ASSUME NEW s \in Seq(ClearEvent)
    PROVE  /\ UnreadOf(<<>>, <<>>, s, 0, 0)
           /\ UnreadOf(<<>>, Flat(s), s, 0, Len(Flat(s)))
<1>1. EndOf(s, 0) = 0 /\ Flat(s) \in Seq(Byte) /\ Len(Flat(s)) \in Nat
  BY FlatEnds
<1>2. Joined(<<>>, <<>>) = <<>> /\ Joined(<<>>, Flat(s)) = Flat(s)
  BY <1>1, JoinedLaws
<1>3. Part(Flat(s), 0, 0) = <<>>
  <2>1. SubSeq(Flat(s), 1, 0) = <<>>
    BY PrefixEmpty
  <2>2. 0 + 1 = 1
    OBVIOUS
  <2>3. QED  BY <2>1, <2>2, Zenon DEF Part
<1>4. Part(Flat(s), 0, Len(Flat(s))) = Flat(s)
  <2>1. SubSeq(Flat(s), 1, Len(Flat(s))) = Flat(s)
    BY <1>1, SubSeqFull
  <2>2. 0 + 1 = 1
    OBVIOUS
  <2>3. QED  BY <2>1, <2>2, Zenon DEF Part
<1>5. 0 <= 0 /\ 0 <= Len(Flat(s))
  BY <1>1
<1>6. Spans(<<>>, <<>>, Flat(s), 0, 0) /\ Spans(<<>>, Flat(s), Flat(s), 0, Len(Flat(s)))
  BY <1>2, <1>3, <1>4, Zenon DEF Spans
<1>7. QED  BY <1>1, <1>5, <1>6, Zenon DEF UnreadOf

\* What a reader's bytes decode to, if they do, is the next event.
LEMMA UnreadDecodes ==
    ASSUME NEW s \in Seq(ClearEvent), NEW n \in 0 .. Len(s), NEW m \in 0 .. Len(Flat(s)),
           NEW buf \in Seq(Byte), NEW rest \in Seq(Byte), UnreadOf(buf, rest, s, n, m),
           decodeInput(buf) # Incomplete
    PROVE  /\ n \in 0 .. Len(s) - 1 /\ n + 1 \in 0 .. Len(s)
           /\ decodeInput(buf).event = s[n + 1]
           /\ UnreadOf(Rest(buf, decodeInput(buf).consumed), rest, s, n + 1, m)
<1>1. buf # <<>>
  BY DEF decodeInput
<1>2. EndOf(s, n) <= m /\ Spans(buf, rest, Flat(s), EndOf(s, n), m)
  BY DEF UnreadOf
<1>3. /\ n < Len(s)
      /\ decodeInput(buf) = Decoded(s[n + 1], Len(Bytes(s[n + 1])))
      /\ EndOf(s, n + 1) <= m
      /\ Spans(Rest(buf, Len(Bytes(s[n + 1]))), rest, Flat(s), EndOf(s, n + 1), m)
  <2>1. n < Len(s)
    BY <1>1, <1>2, DecodesNext
  <2>2. TooFew(buf, s, n) \/ TheNext(buf, rest, s, n, m)
    BY <1>1, <1>2, DecodesNext
  <2>3. QED  BY <2>1, <2>2, Zenon DEF TooFew, TheNext
<1>4. n \in 0 .. Len(s) - 1 /\ n + 1 \in 0 .. Len(s)
  BY <1>3, LenProperties
<1>5. decodeInput(buf).event = s[n + 1] /\ decodeInput(buf).consumed = Len(Bytes(s[n + 1]))
  BY <1>3 DEF Decoded
<1>6. QED  BY <1>3, <1>4, <1>5, Zenon DEF UnreadOf

Lasts(a, b, e, m) == e + Len(a) + Len(b) = m

LEMMA UnreadLength ==
    ASSUME NEW s \in Seq(ClearEvent), NEW n \in 0 .. Len(s), NEW m \in 0 .. Len(Flat(s)),
           NEW buf \in Seq(Byte), NEW rest \in Seq(Byte), EndOf(s, n) <= m,
           Spans(buf, rest, Flat(s), EndOf(s, n), m)
    PROVE  Lasts(buf, rest, EndOf(s, n), m)
<1> DEFINE e == EndOf(s, n)
           t == Flat(s)
<1>1. t \in Seq(Byte) /\ Len(t) \in Nat /\ e \in Nat
  BY FlatEnds, PrefixFlat
<1>2. m \in Nat /\ e <= m /\ m <= Len(t) /\ Spans(buf, rest, t, e, m)
  BY <1>1
<1> HIDE DEF e, t
<1>3. e + Len(buf) + Len(rest) = m
  BY <1>1, <1>2, PartSplit
<1>4. QED  BY <1>3 DEF e, Lasts

\* The bytes of a reader that suspends.
Waits(buf) == decodeInput(buf) = Incomplete

\* When no more of them wait, and they end where an event does, then they are an ESC.
LEMMA UnreadWaits ==
    ASSUME NEW s \in Seq(ClearEvent), NEW n \in 0 .. Len(s), NEW l \in 0 .. Len(s),
           NEW buf \in Seq(Byte), buf # <<>>, UnreadOf(buf, <<>>, s, n, EndOf(s, l)),
           Waits(buf)
    PROVE  n \in 0 .. Len(s) - 1 /\ l = n + 1 /\ s[n + 1] = Key("esc") /\ buf = <<"esc">>
<1> DEFINE m == EndOf(s, l)
           e == EndOf(s, n)
           f == EndOf(s, n + 1)
<1>1. m \in 0 .. Len(Flat(s)) /\ e \in Nat /\ Len(s) \in Nat
  <2>1. m \in Nat /\ e \in Nat
    BY PrefixFlat
  <2>2. Len(s) \in l .. Len(s) /\ Len(s) \in Nat
    BY FlatEnds
  <2>3. m <= EndOf(s, Len(s))
    BY <2>2, FlatGrows
  <2>4. QED  BY <2>1, <2>2, <2>3, FlatEnds
<1>2. e <= m /\ Spans(buf, <<>>, Flat(s), e, m)
  BY DEF UnreadOf
<1>3. <<>> \in Seq(Byte) /\ Len(<<>>) = 0
  BY EmptySeq
<1>4. /\ n < Len(s) /\ e + Len(buf) + 0 = m
      /\ e + Len(buf) < f \/ (s[n + 1] = Key("esc") /\ buf = <<"esc">>)
  <2> DEFINE none == <<>>
  <2>1. none \in Seq(Byte) /\ Len(none) = 0
    BY <1>3
  <2>2. EndOf(s, n) <= m /\ Spans(buf, none, Flat(s), EndOf(s, n), m)
    BY <1>2 DEF e
  <2> HIDE DEF none, m, e, f
  <2>3. n < Len(s)
    BY <1>1, <2>1, <2>2, DecodesNext
  <2>4. Lasts(buf, none, EndOf(s, n), m)
    BY <1>1, <2>1, <2>2, UnreadLength
  <2>5. TooFew(buf, s, n) \/ TheNext(buf, none, s, n, m)
    BY <1>1, <2>1, <2>2, DecodesNext
  <2>6. ASSUME TheNext(buf, none, s, n, m)
        PROVE  FALSE
    <3>1. n \in 0 .. Len(s) - 1
      BY <1>1, <2>3
    <3>2. s[n + 1] \in ClearEvent
      BY <3>1, PrefixNext
    <3>3. Len(Bytes(s[n + 1])) # 0
      BY <3>2, ClearBytesTyped
    <3>4. Decoded(s[n + 1], Len(Bytes(s[n + 1]))) = Incomplete
      BY <2>6, Zenon DEF Waits, TheNext
    <3>5. QED  BY <3>3, <3>4 DEF Decoded, Incomplete
  <2>7. \/ EndOf(s, n) + Len(buf) < EndOf(s, n + 1)
        \/ s[n + 1] = Key("esc") /\ buf = <<"esc">>
    BY <2>5, <2>6, Zenon DEF TooFew
  <2>8. e + Len(buf) < f \/ (s[n + 1] = Key("esc") /\ buf = <<"esc">>)
    BY <2>7 DEF e, f
  <2>9. e + Len(buf) + 0 = m
    BY <2>1, <2>4 DEF e, Lasts
  <2>10. QED  BY <2>3, <2>8, <2>9
<1>5. Len(buf) \in Nat /\ Len(buf) >= 1
  BY LenProperties, EmptySeq
<1>6. l > n
  <2>1. SUFFICES ASSUME l <= n PROVE FALSE
    BY <1>1
  <2>2. n \in l .. Len(s)
    BY <1>1, <2>1
  <2>3. m <= e
    BY <2>2, FlatGrows
  <2> HIDE DEF m, e
  <2>4. QED  BY <1>1, <1>4, <1>5, <2>3
<1>7. n + 1 \in 0 .. Len(s) /\ l \in n + 1 .. Len(s) /\ n \in 0 .. Len(s) - 1
  BY <1>1, <1>4, <1>6
<1>8. f <= m /\ (n + 1 < l => f < m) /\ f \in Nat
  BY <1>7, FlatGrows, PrefixFlat
<1>9. s[n + 1] = Key("esc") /\ buf = <<"esc">>
  <2> HIDE DEF m, e, f
  <2>1. QED  BY <1>1, <1>4, <1>5, <1>8
<1>10. f = e + 1
  <2>1. f = e + Len(Bytes(s[n + 1]))
    BY <1>7, FlatNext
  <2>2. Len(Bytes(s[n + 1])) = 1
    BY <1>9, ClearBytes
  <2>3. QED  BY <2>1, <2>2
<1>11. l = n + 1
  <2>1. Len(buf) = 1
    BY <1>9
  <2> HIDE DEF m, e, f
  <2>2. ~(n + 1 < l)
    BY <1>1, <1>4, <1>8, <1>10, <2>1
  <2>3. QED  BY <1>1, <1>6, <2>2
<1>12. QED  BY <1>7, <1>9, <1>11

-----------------------------------------------------------------------------
(* The invariant of the stream *)

\* Nothing of s is left after its first n events, or an ESC that was waited for.
AllButEsc(s, n) == n = Len(s) \/ (n + 1 = Len(s) /\ s[n + 1] = Key("esc"))

\* The first n events of s are told in h or parked in p.  Unless the end of the
\* input has been seen, what follows them is unread in b and rest.
Streams(h, p, b, rest, eof, s, n, m) ==
    /\ TellsOf(h, p, s, n)
    /\ eof \/ UnreadOf(b, rest, s, n, m)
    /\ eof => AllButEsc(s, n)

\* The bytes of a reader that waits, and its mark of an ESC that does.
WaitsEsc(e) == e.esc_wait => e.buf # <<>> /\ e.buf[1] = "esc"

\* The ESC of the reader e is the next event of s.
EscIsNext(e, s, n) == e.buf = <<"esc">> /\ n < Len(s) /\ s[n + 1] = Key("esc")

\* What update has been given, an event that waits to be delivered, what is
\* parked, what a reader or the loop holds and what is left at fd 0 are together
\* what has been typed, divided at the end of the n-th event.
StreamAt(n) ==
    /\ \A i \in Slot : evals[i].at = "done" =>
          Streams(Append(got, evals[i].event), pending_events, stdin_pending, tty,
                  stdin_eof, session.script, n, sent)
    /\ \A i \in Slot : evals[i].at = "armed" =>
          /\ Streams(got, pending_events, evals[i].buf, tty,
                     stdin_eof, session.script, n, sent)
          /\ pc = "flush_esc" /\ evals[i].esc_wait => EscIsNext(evals[i], session.script, n)
    /\ (\A i \in Slot : evals[i].at \notin {"done", "armed"}) =>
          Streams(got, pending_events, stdin_pending, tty,
                  stdin_eof, session.script, n, sent)

\* A reader that is not being served waits for bytes it has not got.
Suspended ==
    \A i \in Slot : evals[i].at = "armed" /\ pc # "input" =>
        Waits(evals[i].buf) /\ WaitsEsc(evals[i])

Undisturbed == (hup => sent = Len(Flat(session.script))) /\ pending_events \in Seq(ClearEvent)

StreamInv ==
    /\ Undisturbed
    /\ Suspended
    /\ \E n \in 0 .. Len(session.script) : StreamAt(n)

\* Every event of the scripts can be told from what follows it.
ClearScripts == \A s \in Session : s.script \in Seq(ClearEvent)

Alone(c) == \A j \in Slot : j # c => evals[j].at = "idle"

LEMMA StreamDone ==
    ASSUME NEW c \in Slot, Alone(c)', evals'[c].at = "done", Undisturbed',
           NEW n \in 0 .. Len(session'.script),
           Streams(Append(got', evals'[c].event), pending_events', stdin_pending', tty',
                   stdin_eof', session'.script, n, sent')
    PROVE  StreamInv'
<1>1. \A i \in Slot : i # c => evals'[i].at = "idle"
  BY DEF Alone
<1>2. Suspended'
  BY <1>1 DEF Suspended
<1>3. StreamAt(n)'
  BY <1>1 DEF StreamAt
<1>4. QED  BY <1>2, <1>3 DEF StreamInv

LEMMA StreamArmed ==
    ASSUME NEW c \in Slot, Alone(c)', evals'[c].at = "armed", Undisturbed',
           NEW n \in 0 .. Len(session'.script),
           Streams(got', pending_events', evals'[c].buf, tty',
                   stdin_eof', session'.script, n, sent'),
           pc' = "flush_esc" /\ evals'[c].esc_wait => EscIsNext(evals'[c], session'.script, n),
           pc' # "input" => Waits(evals'[c].buf) /\ WaitsEsc(evals'[c])
    PROVE  StreamInv'
<1>1. \A i \in Slot : i # c => evals'[i].at = "idle"
  BY DEF Alone
<1>2. Suspended'
  BY <1>1 DEF Suspended
<1>3. StreamAt(n)'
  BY <1>1 DEF StreamAt
<1>4. QED  BY <1>2, <1>3 DEF StreamInv

LEMMA StreamNobody ==
    ASSUME \A j \in Slot : evals'[j].at \notin {"done", "armed"}, Undisturbed',
           NEW n \in 0 .. Len(session'.script),
           Streams(got', pending_events', stdin_pending', tty',
                   stdin_eof', session'.script, n, sent')
    PROVE  StreamInv'
<1>1. Suspended'
  BY DEF Suspended
<1>2. StreamAt(n)'
  BY DEF StreamAt
<1>3. QED  BY <1>1, <1>2 DEF StreamInv

\* A step that disturbs nothing of the stream.
LEMMA StreamKept ==
    ASSUME StreamInv,
           \A j \in Slot : /\ evals'[j].at = "done" \/ evals[j].at = "done" => evals'[j] = evals[j]
                           /\ evals'[j].at = "armed" \/ evals[j].at = "armed" => evals'[j] = evals[j],
           UNCHANGED <<stdin_pending, stdin_eof, pending_events, got, session, sent, tty>>,
           hup' => hup \/ sent = Len(Flat(session.script)),
           pc' = "flush_esc" => pc = "flush_esc", pc = "input" => pc' = "input"
    PROVE  StreamInv'
<1>1. Undisturbed'
  BY DEF StreamInv, Undisturbed
<1>2. Suspended'
  BY DEF StreamInv, Suspended
<1>3. PICK n \in 0 .. Len(session.script) : StreamAt(n)
  BY DEF StreamInv
<1>4. /\ \A j \in Slot : evals'[j].at = "done" => evals'[j] = evals[j]
      /\ \A j \in Slot : evals'[j].at = "armed" => evals'[j] = evals[j]
      /\ (\A i \in Slot : evals'[i].at \notin {"done", "armed"})
            => \A i \in Slot : evals[i].at \notin {"done", "armed"}
  OBVIOUS
<1>5. StreamAt(n)'
  BY <1>3, <1>4 DEF StreamAt
<1>6. QED  BY <1>1, <1>2, <1>3, <1>5 DEF StreamInv

\* Where one evaluation is in flight, there is no other.
LEMMA SingleAlone ==
    ASSUME ServedAlone, NEW c \in Slot, evals[c].at # "idle"
    PROVE  Alone(c)
  BY DEF ServedAlone, Single, Alone

\* The types that the stream rests on.
LEMMA StreamTypes ==
    ASSUME TypeOK, ClearScripts
    PROVE  /\ session.script \in Seq(ClearEvent)
           /\ Len(session.script) \in Nat
           /\ Flat(session.script) \in Seq(Byte) /\ Len(Flat(session.script)) \in Nat
           /\ sent \in 0 .. Len(Flat(session.script))
           /\ tty \in Seq(Byte) /\ stdin_pending \in Seq(Byte)
           /\ got \in Seq(AnyEvent) /\ pending_events \in Seq(AnyEvent)
           /\ \A i \in Slot : evals[i].buf \in Seq(Byte) /\ evals[i].event \in AnyEvent
<1>1. session \in Session /\ session.script \in Seq(ClearEvent)
  BY DEF TypeOK, ClearScripts
<1>2. /\ Flat(session.script) \in Seq(Byte) /\ Len(Flat(session.script)) \in Nat
      /\ Len(session.script) \in Nat
  BY <1>1, FlatEnds
<1>3. pending_events \in Seq(AnyEvent)
  <2>1. pending_events \in Seq(InputEvent)
    BY DEF TypeOK
  <2>2. /\ Len(pending_events) \in Nat
        /\ pending_events \in [1 .. Len(pending_events) -> InputEvent]
    BY <2>1, LenProperties
  <2>3. pending_events \in [1 .. Len(pending_events) -> AnyEvent]
    BY <2>2, EventTypes
  <2>4. QED  BY <2>2, <2>3, FunctionIsSeq
<1>4. \A i \in Slot : evals[i].buf \in Seq(Byte) /\ evals[i].event \in AnyEvent
  BY DEF TypeOK, Eval, Entry
<1>5. sent \in 0 .. Len(Flat(session.script)) /\ tty \in Seq(Byte) /\ stdin_pending \in Seq(Byte)
      /\ got \in Seq(AnyEvent)
  BY DEF TypeOK, typed
<1>6. QED  BY <1>1, <1>2, <1>3, <1>4, <1>5

-----------------------------------------------------------------------------
(* stepAll keeps it *)

\* What a step may rest on.
Known == TypeOK /\ ClearScripts /\ NobodyForgotten /\ ServedAlone /\ StreamInv

LEMMA OtherStreams ==
    ASSUME NEW h \in Seq(AnyEvent), NEW p, NEW b, NEW rest, NEW eof, NEW s, NEW n, NEW m,
           Streams(h, p, b, rest, eof, s, n, m),
           NEW e \in AnyEvent, e.name = "eof" \/ e.kind \notin Kind
    PROVE  Streams(Append(h, e), p, b, rest, eof, s, n, m)
<1>1. TellsOf(Append(h, e), p, s, n)
  BY TellsOther, Zenon DEF Streams
<1>2. QED  BY <1>1, Zenon DEF Streams

\* Where nobody waits and nothing is to be delivered.
LEMMA StreamQuiet ==
    ASSUME StreamInv, \A i \in Slot : evals[i].at \notin {"done", "armed"}
    PROVE  \E n \in 0 .. Len(session.script) :
              Streams(got, pending_events, stdin_pending, tty,
                      stdin_eof, session.script, n, sent)
<1>1. PICK n \in 0 .. Len(session.script) : StreamAt(n)
  BY DEF StreamInv
<1>2. Streams(got, pending_events, stdin_pending, tty, stdin_eof, session.script, n, sent)
  BY <1>1 DEF StreamAt
<1>3. QED  BY <1>2

LEMMA StreamOfReader ==
    ASSUME StreamInv, NEW c \in Slot, evals[c].at = "armed"
    PROVE  \E n \in 0 .. Len(session.script) :
              /\ Streams(got, pending_events, evals[c].buf, tty,
                         stdin_eof, session.script, n, sent)
              /\ pc = "flush_esc" /\ evals[c].esc_wait => EscIsNext(evals[c], session.script, n)
<1>1. PICK n \in 0 .. Len(session.script) : StreamAt(n)
  BY DEF StreamInv
<1>2. /\ Streams(got, pending_events, evals[c].buf, tty, stdin_eof, session.script, n, sent)
      /\ pc = "flush_esc" /\ evals[c].esc_wait => EscIsNext(evals[c], session.script, n)
  BY <1>1 DEF StreamAt
<1>3. QED  BY <1>2

\* A task that starts to read finds the end, an event or nothing.
LEMMA ReadStream ==
    ASSUME Known, leafReadAtEof \/ leafReadParked \/ leafReadArm
    PROVE  StreamInv'
<1> USE DEF input, control, source
<1>1. /\ evals \in [Slot -> Eval] /\ TypeOK /\ ClearScripts /\ ServedAlone /\ StreamInv
      /\ Undisturbed
  BY DEF Known, TypeOK, StreamInv
<1>2. ASSUME NEW i \in Slot, AtRead(i)
      PROVE  /\ evals[i].at = "start" /\ Alone(i) /\ pc = "step" /\ evals[i].task \in Kind
             /\ \A j \in Slot : evals[j].at \notin {"done", "armed"}
  <2>1. evals[i].at = "start" /\ Alone(i)
    BY <1>1, <1>2, SingleAlone DEF AtRead
  <2>2. QED  BY <1>2, <2>1 DEF AtRead, Stepped, Alone
<1>3. ASSUME NEW i \in Slot, AtRead(i), NEW ev \in AnyEvent,
             evals' = [evals EXCEPT ![i] = Done(@, ev)]
      PROVE  Alone(i)' /\ evals'[i].at = "done" /\ evals'[i].event = ev
  BY <1>1, <1>2, <1>3 DEF Alone, Done
<1>4. CASE leafReadAtEof
  <2>1. PICK i \in Slot : AtRead(i) /\ evals' = [evals EXCEPT ![i] = Done(@, Eof(evals[i].task))]
    BY <1>4 DEF leafReadAtEof, inputComplete
  <2> DEFINE ev == Eof(evals[i].task)
  <2>2. ev \in AnyEvent /\ ev.name = "eof"
    BY <1>2, <2>1, EventTypes DEF Eof, Event
  <2> HIDE DEF ev
  <2>3. Alone(i)' /\ evals'[i].at = "done" /\ evals'[i].event = ev
    BY <1>3, <2>1, <2>2 DEF ev
  <2>4. PICK n \in 0 .. Len(session.script) :
            Streams(got, pending_events, stdin_pending, tty, stdin_eof, session.script, n, sent)
    BY <1>1, <1>2, <2>1, StreamQuiet
  <2>5. Streams(Append(got, ev), pending_events, stdin_pending, tty, stdin_eof, session.script, n, sent)
    BY <1>1, <2>2, <2>4, OtherStreams, StreamTypes
  <2>6. /\ UNCHANGED <<got, pending_events, stdin_pending, tty, stdin_eof, session, sent, hup>>
        /\ Undisturbed'
    BY <1>1, <1>4 DEF leafReadAtEof, Undisturbed
  <2>7. QED  BY <2>3, <2>4, <2>5, <2>6, StreamDone
<1>5. CASE leafReadParked
  <2>1. PICK i \in Slot, l \in 1 .. Len(pending_events) :
            /\ AtRead(i) /\ Least(l, Parked(evals[i].task))
            /\ pending_events' = SubSeq(pending_events, 1, l - 1) \o Rest(pending_events, l)
            /\ evals' = [evals EXCEPT ![i] = Done(@, pending_events[l])]
    BY <1>5 DEF leafReadParked, inputComplete
  <2> DEFINE ev == pending_events[l]
  <2>2. ev \in AnyEvent
    BY <1>1, StreamTypes, ElementOfSeq
  <2>3. \A j \in 1 .. l - 1 : pending_events[j].kind # ev.kind
    <3>1. DOMAIN pending_events = 1 .. Len(pending_events) /\ Len(pending_events) \in Nat
      BY <1>1, StreamTypes, LenProperties
    <3>2. ev.kind = evals[i].task
      BY <2>1 DEF Least, Parked
    <3>3. ASSUME NEW j \in 1 .. l - 1, pending_events[j].kind = ev.kind
          PROVE  FALSE
      <4>1. j \in DOMAIN pending_events /\ ~(l <= j)
        BY <3>1
      <4>2. QED  BY <2>1, <3>2, <3>3, <4>1 DEF Least, Parked
    <3>4. QED  BY <3>3
  <2>4. Alone(i)' /\ evals'[i].at = "done" /\ evals'[i].event = ev
    <3> HIDE DEF ev
    <3>1. evals' = [evals EXCEPT ![i] = Done(@, ev)]
      BY <2>1 DEF ev
    <3>2. QED  BY <1>3, <2>1, <2>2, <3>1
  <2>5. PICK n \in 0 .. Len(session.script) :
            Streams(got, pending_events, stdin_pending, tty, stdin_eof, session.script, n, sent)
    BY <1>1, <1>2, <2>1, StreamQuiet
  <2>6. TellsOf(Append(got, ev), pending_events', session.script, n)
    <3>1. got \in Seq(AnyEvent) /\ pending_events \in Seq(AnyEvent)
      BY <1>1, StreamTypes
    <3>2. TellsOf(got, pending_events, session.script, n)
      BY <2>5, Zenon DEF Streams
    <3>3. TellsOf(Append(got, pending_events[l]),
                  SubSeq(pending_events, 1, l - 1) \o Rest(pending_events, l), session.script, n)
      BY <2>3, <3>1, <3>2, TellsTaken
    <3>4. QED  BY <2>1, <3>3, Zenon
  <2>7. /\ UNCHANGED <<got, stdin_pending, tty, stdin_eof, session, sent, hup>>
    BY <1>5 DEF leafReadParked
  <2>8. Streams(Append(got', ev), pending_events', stdin_pending', tty', stdin_eof',
                session'.script, n, sent')
    BY <2>5, <2>6, <2>7, Zenon DEF Streams
  <2>9. Undisturbed'
    <3>1. pending_events \in Seq(ClearEvent)
      BY <1>1 DEF Undisturbed
    <3>2. Len(pending_events) \in Nat /\ l - 1 \in 0 .. Len(pending_events) /\ l \in Nat
      BY <3>1, LenProperties
    <3>3. /\ SubSeq(pending_events, 1, l - 1) \in Seq(ClearEvent)
          /\ Rest(pending_events, l) \in Seq(ClearEvent)
      BY <3>1, <3>2, PrefixTyped, RestTyped
    <3>4. pending_events' \in Seq(ClearEvent)
      BY <2>1, <3>3, ConcatProperties
    <3>5. QED  BY <1>1, <2>7, <3>4 DEF Undisturbed
  <2> HIDE DEF ev
  <2>10. QED  BY <2>4, <2>5, <2>7, <2>8, <2>9, StreamDone
<1>6. CASE leafReadArm
  <2>1. PICK i \in Slot : /\ AtRead(i) /\ pc' = "input" /\ stdin_pending' = <<>>
                          /\ evals' = [evals EXCEPT ![i].at = "armed", ![i].buf = stdin_pending]
    BY <1>6 DEF leafReadArm, arm
  <2>2. Alone(i)' /\ evals'[i].at = "armed" /\ evals'[i].buf = stdin_pending
    BY <1>1, <1>2, <2>1 DEF Alone, Eval, Entry
  <2>3. PICK n \in 0 .. Len(session.script) :
            Streams(got, pending_events, stdin_pending, tty, stdin_eof, session.script, n, sent)
    BY <1>1, <1>2, <2>1, StreamQuiet
  <2>4. /\ UNCHANGED <<got, pending_events, tty, stdin_eof, session, sent, hup>>
        /\ Undisturbed'
    BY <1>1, <1>6 DEF leafReadArm, Undisturbed
  <2>5. QED  BY <2>1, <2>2, <2>3, <2>4, StreamArmed
<1>7. QED  BY <1>4, <1>5, <1>6

LEMMA StepAllStream ==
    ASSUME OneTaskAtATime, Known, stepAll
    PROVE  StreamInv'
<1> USE DEF input, control, source
<1>1. /\ evals \in [Slot -> Eval] /\ TypeOK /\ ClearScripts /\ ServedAlone /\ StreamInv
      /\ Undisturbed
  BY DEF Known, TypeOK, StreamInv
<1>2. CASE deliver
  <2>1. PICK i \in Slot :
            /\ Stepped(i) /\ evals[i].at = "done"
            /\ evals' = spawnFromCmd([evals EXCEPT ![i] = Idle], Respond(evals[i].event))
            /\ got' = Append(got, evals[i].event)
    BY <1>2 DEF deliver
  <2> DEFINE evs == [evals EXCEPT ![i] = Idle]
             cmd == Respond(evals[i].event)
  <2>2. Alone(i)
    BY <1>1, <2>1, SingleAlone
  <2>3. evs \in [Slot -> Eval] /\ \A j \in Slot : evs[j].at = "idle"
    BY <1>1, <2>1, <2>2, RecordTypes DEF Alone
  <2>4. cmd \in Seq(Task) /\ Len(cmd) <= 1
    BY <1>1, StreamTypes, ProgramAssumption DEF OneTaskAtATime
  <2> HIDE DEF evs, cmd
  <2>5. \A j \in Slot : evals'[j].at \notin {"done", "armed"}
    <3>1. evals' = spawnFromCmd(evs, cmd)
      BY <2>1 DEF evs, cmd
    <3>2. \A j \in Slot : spawnFromCmd(evs, cmd)[j].at \in {"idle", "start"}
      BY <2>3, <2>4, SpawnOne
    <3>3. QED  BY <3>1, <3>2
  <2>6. PICK n \in 0 .. Len(session.script) : StreamAt(n)
    BY <1>1 DEF StreamInv
  <2>7. Streams(Append(got, evals[i].event), pending_events, stdin_pending, tty,
                stdin_eof, session.script, n, sent)
    BY <2>1, <2>6 DEF StreamAt
  <2>8. /\ UNCHANGED <<pending_events, stdin_pending, tty, stdin_eof, session, sent, hup>>
        /\ Undisturbed'
    BY <1>1, <1>2 DEF deliver, Undisturbed
  <2>9. QED  BY <2>1, <2>5, <2>6, <2>7, <2>8, StreamNobody
<1>3. CASE leafSleep
  <2>1. \A j \in Slot : evals'[j] = evals[j] \/ (evals'[j].at = "asleep" /\ evals[j].at = "start")
    BY <1>1, <1>3 DEF leafSleep, Eval, Entry
  <2>2. QED  BY <1>1, <1>3, <2>1, StreamKept DEF leafSleep
<1>4. CASE leafReadAtEof \/ leafReadParked \/ leafReadArm
  BY <1>4, ReadStream
<1>5. CASE EndStepAll
  BY <1>1, <1>5, StreamKept DEF EndStepAll
<1>6. QED  BY <1>2, <1>3, <1>4, <1>5 DEF stepAll

-----------------------------------------------------------------------------
(* inputDrain keeps it *)

\* An ESC that was waited for is the next event.
LEMMA UnreadEsc ==
    ASSUME NEW s \in Seq(ClearEvent), NEW n \in 0 .. Len(s), NEW m \in 0 .. Len(Flat(s)),
           NEW buf \in Seq(Byte), Len(buf) = 1, NEW rest \in Seq(Byte),
           UnreadOf(buf, rest, s, n, m), n < Len(s), s[n + 1] = Key("esc")
    PROVE  UnreadOf(<<>>, rest, s, n + 1, m)
<1> DEFINE t == Flat(s)
           e == EndOf(s, n)
           f == EndOf(s, n + 1)
<1>1. t \in Seq(Byte) /\ Len(t) \in Nat /\ e \in Nat /\ Len(s) \in Nat
  BY FlatEnds, PrefixFlat
<1>2. n \in 0 .. Len(s) - 1
  BY <1>1
<1>3. f = e + 1
  <2>1. f = e + Len(Bytes(s[n + 1]))
    BY <1>2, FlatNext
  <2>2. Len(Bytes(s[n + 1])) = 1
    BY ClearBytes
  <2>3. QED  BY <2>1, <2>2
<1>4. Len(buf) = 1 /\ Rest(buf, 1) = <<>>
  <2>1. Len(Rest(buf, 1)) = 0
    BY SubSeqProperties DEF Rest
  <2>2. Rest(buf, 1) \in Seq(Byte)
    BY RestTyped
  <2>3. QED  BY <2>1, <2>2, EmptySeq
<1>5. m \in Nat /\ e <= m /\ m <= Len(t) /\ Spans(buf, rest, t, e, m)
  BY <1>1 DEF UnreadOf
<1> HIDE DEF t, e, f
<1>6. 1 \in Nat /\ 1 <= Len(buf)
  BY <1>4
<1>7. /\ e + 1 <= m
      /\ Spans(Rest(buf, 1), rest, t, e + 1, m)
  BY <1>1, <1>5, <1>6, PartDrop
<1>8. QED  BY <1>3, <1>4, <1>7, Zenon DEF UnreadOf, t, e, f

\* Where all has been typed, read and decoded as far as it goes, there is no more.
LEMMA UnreadEnd ==
    ASSUME NEW s \in Seq(ClearEvent), NEW n \in 0 .. Len(s), NEW buf \in Seq(Byte),
           UnreadOf(buf, <<>>, s, n, Len(Flat(s))), Waits(buf)
    PROVE  AllButEsc(s, n)
<1> DEFINE l == Len(s)
<1>1. l \in Nat /\ l \in 0 .. l /\ EndOf(s, l) = Len(Flat(s))
  BY FlatEnds
<1>2. UnreadOf(buf, <<>>, s, n, EndOf(s, l))
  BY <1>1, Zenon
<1>3. CASE buf # <<>>
  <2> HIDE DEF l
  <2>1. n \in 0 .. l - 1 /\ l = n + 1 /\ s[n + 1] = Key("esc")
    <3>1. Len(s) = l
      BY DEF l
    <3>2. QED  BY <1>1, <1>2, <1>3, <3>1, UnreadWaits
  <2>2. QED  BY <2>1 DEF AllButEsc, l
<1>4. CASE buf = <<>>
  <2> DEFINE m == EndOf(s, l)
             e == EndOf(s, n)
             none == <<>>
  <2>1. none \in Seq(Byte) /\ Len(none) = 0
    BY EmptySeq
  <2>2. e <= m /\ Spans(buf, none, Flat(s), e, m)
    BY <1>2, Zenon DEF UnreadOf
  <2>3. m \in 0 .. Len(Flat(s)) /\ m \in Nat /\ e \in Nat
    BY <1>1, FlatEnds, PrefixFlat
  <2>4. Lasts(buf, none, EndOf(s, n), m)
    <3> HIDE DEF m, none
    <3>1. QED  BY <2>1, <2>2, <2>3, UnreadLength
  <2>5. e = m
    <3>1. Len(buf) = 0
      BY <1>4
    <3> HIDE DEF m, none
    <3>2. QED  BY <2>1, <2>3, <2>4, <3>1 DEF Lasts
  <2>6. n = l
    <3>1. SUFFICES ASSUME n < l PROVE FALSE
      BY <1>1
    <3>2. n \in 0 .. Len(s) - 1 /\ l \in n + 1 .. Len(s)
      BY <1>1, <3>1
    <3>3. n + 1 \in 0 .. Len(s) /\ n + 1 \in Nat
      BY <3>2
    <3>4. EndOf(s, n) < EndOf(s, n + 1) /\ EndOf(s, n + 1) <= EndOf(s, l) /\ EndOf(s, n + 1) \in Nat
      BY <3>2, <3>3, FlatGrows, PrefixFlat
    <3> HIDE DEF l
    <3>5. QED  BY <2>3, <2>5, <3>4
  <2>7. QED  BY <2>6 DEF AllButEsc
<1>5. QED  BY <1>3, <1>4

\* What a reader's bytes decode to is the next event; it is told, or parked.
LEMMA DecodedStreams ==
    ASSUME NEW h \in Seq(AnyEvent), NEW p \in Seq(AnyEvent), NEW s \in Seq(ClearEvent),
           NEW n \in 0 .. Len(s), NEW m \in 0 .. Len(Flat(s)), NEW eof, ~eof,
           NEW b \in Seq(Byte), NEW rest \in Seq(Byte),
           Streams(h, p, b, rest, eof, s, n, m), decodeInput(b) # Incomplete,
           NEW ev, ev = decodeInput(b).event, NEW r, r = Rest(b, decodeInput(b).consumed)
    PROVE  /\ n + 1 \in 0 .. Len(s) /\ ev \in ClearEvent
           /\ (\A i \in 1 .. Len(p) : p[i].kind # ev.kind) =>
                 Streams(Append(h, ev), p, r, rest, eof, s, n + 1, m)
           /\ Streams(h, Append(p, ev), r, rest, eof, s, n + 1, m)
<1>1. TellsOf(h, p, s, n) /\ UnreadOf(b, rest, s, n, m)
  BY Zenon DEF Streams
<1>2. /\ n \in 0 .. Len(s) - 1 /\ n + 1 \in 0 .. Len(s)
      /\ ev = s[n + 1] /\ UnreadOf(r, rest, s, n + 1, m)
  BY <1>1, UnreadDecodes
<1>3. ev \in ClearEvent
  BY <1>2, NextTyped
<1>4. TellsOf(h, Append(p, ev), s, n + 1)
  BY <1>1, <1>2, TellsParked
<1>5. (\A i \in 1 .. Len(p) : p[i].kind # ev.kind) => TellsOf(Append(h, ev), p, s, n + 1)
  BY <1>1, <1>2, TellsNext
<1>6. QED  BY <1>2, <1>3, <1>4, <1>5, Zenon DEF Streams

\* The same for an ESC that was waited for.
LEMMA EscStreams ==
    ASSUME NEW h \in Seq(AnyEvent), NEW p \in Seq(AnyEvent), NEW s \in Seq(ClearEvent),
           NEW n \in 0 .. Len(s), NEW m \in 0 .. Len(Flat(s)), NEW eof, ~eof,
           NEW e, e.buf \in Seq(Byte), NEW rest \in Seq(Byte),
           Streams(h, p, e.buf, rest, eof, s, n, m), EscIsNext(e, s, n)
    PROVE  /\ n + 1 \in 0 .. Len(s) /\ Key("esc") \in ClearEvent
           /\ (\A i \in 1 .. Len(p) : p[i].kind # "key") =>
                 Streams(Append(h, Key("esc")), p, <<>>, rest, eof, s, n + 1, m)
           /\ Streams(h, Append(p, Key("esc")), <<>>, rest, eof, s, n + 1, m)
<1> DEFINE ev == Key("esc")
<1>1. TellsOf(h, p, s, n) /\ UnreadOf(e.buf, rest, s, n, m)
  BY Zenon DEF Streams
<1>2. Len(e.buf) = 1 /\ n < Len(s) /\ s[n + 1] = ev
  BY DEF EscIsNext
<1>3. n \in 0 .. Len(s) - 1 /\ n + 1 \in 0 .. Len(s)
  BY <1>2, LenProperties
<1>4. UnreadOf(<<>>, rest, s, n + 1, m)
  BY <1>1, <1>2, UnreadEsc
<1>5. ev \in ClearEvent /\ ev.kind = "key"
  BY <1>2, <1>3, NextTyped DEF Key, Event
<1> HIDE DEF ev
<1>6. TellsOf(h, Append(p, ev), s, n + 1)
  BY <1>1, <1>2, <1>3, TellsParked
<1>7. (\A i \in 1 .. Len(p) : p[i].kind # ev.kind) => TellsOf(Append(h, ev), p, s, n + 1)
  BY <1>1, <1>2, <1>3, TellsNext
<1>8. QED  BY <1>3, <1>4, <1>5, <1>6, <1>7, Zenon DEF Streams, ev

\* A reader that waits, while the input has not ended.
LEMMA ReaderFacts ==
    ASSUME Known, NEW c \in Slot, evals[c].at = "armed", pc # "eof"
    PROVE  /\ Alone(c) /\ stdin_pending = <<>> /\ ~stdin_eof
           /\ evals[c].task \in Kind
           /\ \A i \in 1 .. Len(pending_events) : pending_events[i].kind # evals[c].task
           /\ pc = "input" => cur = c
<1>1. Alone(c) /\ stdin_pending = <<>>
  BY SingleAlone DEF Known, ServedAlone, Armed
<1>2. ~stdin_eof
  BY DEF Known, NobodyForgotten, EofReachesAll, Armed
<1>3. evals[c].task \in Kind
  BY DEF Known, TypeOK, Eval
<1>4. \A i \in 1 .. Len(pending_events) : pending_events[i].kind # evals[c].task
  <2>1. DOMAIN pending_events = 1 .. Len(pending_events)
    BY LenProperties DEF Known, TypeOK
  <2>2. QED  BY <2>1 DEF Known, NobodyForgotten, NoReaderOverTypeahead, ArmedFor, Armed
<1>5. pc = "input" => cur = c
  BY DEF Known, TypeOK, ServedAlone, Single, Armed
<1>6. QED  BY <1>1, <1>2, <1>3, <1>4, <1>5

\* The event of the only reader's own kind is told next.
LEMMA ToldStream ==
    ASSUME Known, NEW c \in Slot, Alone(c), evals[c].at = "armed",
           NEW ev \in AnyEvent, evals' = [evals EXCEPT ![c] = Done(@, ev)],
           UNCHANGED <<pending_events, stdin_eof, tty, session, sent, hup, got>>,
           NEW n \in 0 .. Len(session.script),
           Streams(Append(got, ev), pending_events, stdin_pending', tty, stdin_eof,
                   session.script, n, sent)
    PROVE  StreamInv'
<1>1. Alone(c)' /\ evals'[c].at = "done" /\ evals'[c].event = ev
  BY DEF Alone, Done, Known, TypeOK
<1>2. Undisturbed'
  BY DEF Known, StreamInv, Undisturbed
<1>3. QED  BY <1>1, <1>2, StreamDone

LEMMA InputDrainStream ==
    ASSUME Known, inputDrain
    PROVE  StreamInv'
<1> USE DEF input, control, source
<1>1. /\ evals \in [Slot -> Eval] /\ TypeOK /\ ClearScripts /\ ServedAlone /\ StreamInv
      /\ Undisturbed /\ (pc = "input" => cur \in Slot /\ evals[cur].at = "armed")
      /\ back # "flush_esc"
  BY DEF Known, TypeOK, StreamInv, Armed
<1>2. CASE flushEof
  <2>1. evals' = evals /\ pc' = back /\ pc # "input"
    BY <1>1, <1>2 DEF flushEof, Least, ServedAlone
  <2>2. QED  BY <1>1, <1>2, <2>1, StreamKept DEF flushEof
<1>3. SUFFICES ASSUME pc = "input", NEW c \in Slot, c = cur PROVE StreamInv'
  BY <1>1, <1>2 DEF inputDrain, inputMatches, inputRoutes, inputReads, inputSuspends, inputAtEof
<1>4. /\ Alone(c) /\ stdin_pending = <<>> /\ ~stdin_eof /\ want \in Kind
      /\ \A i \in 1 .. Len(pending_events) : pending_events[i].kind # want
      /\ evals[c].at = "armed" /\ evals[c].task = want /\ evals[c].buf = buffered
  BY <1>1, <1>3, ReaderFacts DEF want, buffered
<1>5. PICK n \in 0 .. Len(session.script) :
          Streams(got, pending_events, buffered, tty, stdin_eof, session.script, n, sent)
  BY <1>1, <1>3, <1>4, StreamOfReader
<1>6. /\ session.script \in Seq(ClearEvent) /\ got \in Seq(AnyEvent)
      /\ pending_events \in Seq(AnyEvent) /\ tty \in Seq(Byte) /\ buffered \in Seq(Byte)
      /\ sent \in 0 .. Len(Flat(session.script))
  BY <1>1, <1>3, <1>4, StreamTypes
<1>7. ASSUME decoded # Incomplete
      PROVE  /\ n + 1 \in 0 .. Len(session.script) /\ decoded.event \in ClearEvent
             /\ decoded.event \in AnyEvent /\ decoded.event \in InputEvent
             /\ leftover \in Seq(Byte)
             /\ decoded.event.kind = want =>
                   Streams(Append(got, decoded.event), pending_events, leftover, tty, stdin_eof,
                           session.script, n + 1, sent)
             /\ Streams(got, Append(pending_events, decoded.event), leftover, tty, stdin_eof,
                        session.script, n + 1, sent)
  <2> DEFINE ev == decoded.event
             s == session.script
             b == buffered
             r == leftover
             k == want
  <2>1. /\ decodeInput(b) # Incomplete /\ ev = decodeInput(b).event
        /\ r = Rest(b, decodeInput(b).consumed)
    BY <1>7 DEF decoded, leftover
  <2>2. s \in Seq(ClearEvent) /\ n \in 0 .. Len(s) /\ sent \in 0 .. Len(Flat(s))
        /\ Streams(got, pending_events, b, tty, stdin_eof, s, n, sent)
    BY <1>5, <1>6
  <2>3. b \in Seq(Byte) /\ \A i \in 1 .. Len(pending_events) : pending_events[i].kind # k
    BY <1>4, <1>6
  <2>4. r \in Seq(Byte)
    BY <1>6, <2>1, DecodeTyped, RestTyped
  <2> SUFFICES /\ n + 1 \in 0 .. Len(s) /\ ev \in ClearEvent
               /\ ev \in AnyEvent /\ ev \in InputEvent
               /\ ev.kind = k =>
                     Streams(Append(got, ev), pending_events, r, tty, stdin_eof, s, n + 1, sent)
               /\ Streams(got, Append(pending_events, ev), r, tty, stdin_eof, s, n + 1, sent)
    BY <2>4
  <2> HIDE DEF ev, s, b, r, k
  <2>5. /\ n + 1 \in 0 .. Len(s) /\ ev \in ClearEvent
        /\ (\A i \in 1 .. Len(pending_events) : pending_events[i].kind # ev.kind) =>
              Streams(Append(got, ev), pending_events, r, tty, stdin_eof, s, n + 1, sent)
        /\ Streams(got, Append(pending_events, ev), r, tty, stdin_eof, s, n + 1, sent)
    <3>1. ~stdin_eof /\ got \in Seq(AnyEvent) /\ pending_events \in Seq(AnyEvent)
          /\ tty \in Seq(Byte)
      BY <1>4, <1>6
    <3>2. n + 1 \in 0 .. Len(s) /\ ev \in ClearEvent
      BY <2>1, <2>2, <2>3, <3>1, DecodedStreams
    <3>3. (\A i \in 1 .. Len(pending_events) : pending_events[i].kind # ev.kind) =>
              Streams(Append(got, ev), pending_events, r, tty, stdin_eof, s, n + 1, sent)
      BY <2>1, <2>2, <2>3, <3>1, DecodedStreams
    <3>4. Streams(got, Append(pending_events, ev), r, tty, stdin_eof, s, n + 1, sent)
      BY <2>1, <2>2, <2>3, <3>1, DecodedStreams
    <3>5. QED  BY <3>2, <3>3, <3>4
  <2>6. ev \in AnyEvent /\ ev \in InputEvent
    BY <2>5, ClearEventTypes
  <2>7. QED  BY <2>3, <2>5, <2>6
<1>8. CASE inputMatches
  <2>1. /\ decoded # Incomplete /\ decoded.event.kind = want
        /\ evals' = [evals EXCEPT ![c] = Done(@, decoded.event)]
        /\ stdin_pending' = stdin_pending \o leftover
        /\ UNCHANGED <<pending_events, stdin_eof, tty, session, sent, hup, got>>
    BY <1>3, <1>8 DEF inputMatches, PushBack, inputComplete
  <2>2. stdin_pending' = leftover
    BY <1>4, <1>7, <2>1
  <2>3. Streams(Append(got, decoded.event), pending_events, stdin_pending', tty, stdin_eof,
                session.script, n + 1, sent)
    BY <1>7, <2>1, <2>2
  <2>4. decoded.event \in AnyEvent /\ n + 1 \in 0 .. Len(session.script)
    BY <1>7, <2>1
  <2> DEFINE ev == decoded.event
             l == n + 1
  <2>5. /\ ev \in AnyEvent /\ evals' = [evals EXCEPT ![c] = Done(@, ev)]
        /\ l \in 0 .. Len(session.script)
        /\ Streams(Append(got, ev), pending_events, stdin_pending', tty, stdin_eof,
                   session.script, l, sent)
    BY <2>1, <2>3, <2>4
  <2> HIDE DEF ev, l
  <2>6. QED  BY <1>4, <2>1, <2>5, ToldStream
<1>9. CASE inputRoutes
  <2> DEFINE mid == [evals EXCEPT ![c].buf = leftover]
  <2>1. /\ decoded # Incomplete /\ decoded.event.kind # want
        /\ deliverInputEvent(mid, decoded.event)
        /\ UNCHANGED <<stdin_eof, stdin_pending, pc, tty, session, sent, hup, got>>
    BY <1>3, <1>9 DEF inputRoutes
  <2>2. /\ mid \in [Slot -> Eval] /\ mid[c].buf = leftover
        /\ \A j \in Slot : mid[j].at = evals[j].at /\ mid[j].task = evals[j].task
    BY <1>1, <1>7, <2>1 DEF Eval, Entry
  <2> HIDE DEF mid
  <2>3. evals' = mid /\ pending_events' = Append(pending_events, decoded.event)
    <3>1. c \in Armed /\ decoded.event \in InputEvent /\ decoded.event.kind # evals[c].task
      BY <1>4, <1>7, <2>1 DEF Armed
    <3>2. QED  BY <1>1, <2>1, <2>2, <3>1, DeliverAlone
  <2>4. Alone(c)' /\ evals'[c].at = "armed" /\ evals'[c].buf = leftover
    BY <1>4, <2>2, <2>3 DEF Alone
  <2>5. Undisturbed'
    <3>1. pending_events' \in Seq(ClearEvent)
      BY <1>1, <1>7, <2>1, <2>3, AppendProperties DEF Undisturbed
    <3>2. QED  BY <1>1, <2>1, <3>1 DEF Undisturbed
  <2> DEFINE l == n + 1
  <2>6. Streams(got', pending_events', evals'[c].buf, tty', stdin_eof',
                session'.script, l, sent')
    BY <1>7, <2>1, <2>3, <2>4
  <2>7. l \in 0 .. Len(session'.script) /\ pc' = "input"
    BY <1>3, <1>7, <2>1
  <2> HIDE DEF l
  <2>8. QED  BY <2>4, <2>5, <2>6, <2>7, StreamArmed
<1>10. CASE inputReads
  <2>1. /\ evals' = [evals EXCEPT ![c].buf = @ \o tty] /\ tty' = <<>>
        /\ UNCHANGED <<stdin_eof, pending_events, pc, session, sent, hup, got>>
    BY <1>3, <1>10 DEF inputReads
  <2>2. Alone(c)' /\ evals'[c].at = "armed" /\ evals'[c].buf = buffered \o tty
    BY <1>1, <1>4, <2>1 DEF Alone, Eval, Entry
  <2>3. UnreadOf(buffered \o tty, <<>>, session.script, n, sent)
    <3>1. UnreadOf(buffered, tty, session.script, n, sent)
      BY <1>4, <1>5, Zenon DEF Streams
    <3>2. QED  BY <1>6, <3>1, UnreadRead
  <2>4. Streams(got, pending_events, buffered \o tty, <<>>, stdin_eof, session.script, n, sent)
    BY <1>4, <1>5, <2>3, Zenon DEF Streams
  <2>5. Streams(got', pending_events', evals'[c].buf, tty', stdin_eof', session'.script, n, sent')
    BY <2>1, <2>2, <2>4, Zenon
  <2>6. Undisturbed' /\ pc' = "input" /\ n \in 0 .. Len(session'.script)
    BY <1>1, <1>3, <2>1 DEF Undisturbed
  <2>7. QED  BY <2>2, <2>5, <2>6, StreamArmed
<1>11. CASE inputSuspends
  <2>1. /\ evals' = [evals EXCEPT ![c].esc_wait = buffered # <<>> /\ buffered[1] = "esc"]
        /\ decoded = Incomplete /\ pc' = back
        /\ UNCHANGED <<stdin_eof, pending_events, tty, session, sent, hup, got>>
    BY <1>3, <1>11 DEF inputSuspends
  <2>2. /\ Alone(c)' /\ evals'[c].at = "armed" /\ evals'[c].buf = buffered
        /\ evals'[c].esc_wait = (buffered # <<>> /\ buffered[1] = "esc")
    BY <1>1, <1>4, <2>1 DEF Alone, Eval, Entry
  <2>3. Waits(evals'[c].buf) /\ WaitsEsc(evals'[c])
    BY <2>1, <2>2 DEF Waits, WaitsEsc, decoded
  <2>4. Streams(got', pending_events', evals'[c].buf, tty', stdin_eof', session'.script, n, sent')
    BY <1>5, <2>1, <2>2, Zenon
  <2>5. Undisturbed' /\ pc' # "flush_esc" /\ n \in 0 .. Len(session'.script)
    BY <1>1, <2>1 DEF Undisturbed
  <2>6. QED  BY <2>2, <2>3, <2>4, <2>5, StreamArmed
<1>12. CASE inputAtEof
  <2> DEFINE ev == Eof(want)
  <2>1. /\ evals' = [evals EXCEPT ![c] = Done(@, ev)]
        /\ decoded = Incomplete /\ tty = <<>> /\ hup /\ stdin_eof'
        /\ UNCHANGED <<stdin_pending, pending_events, tty, session, sent, hup, got>>
    BY <1>3, <1>12 DEF inputAtEof, inputComplete
  <2>2. ev \in AnyEvent /\ ev.name = "eof"
    BY <1>4, EventTypes DEF Eof, Event
  <2> HIDE DEF ev
  <2>3. Alone(c)' /\ evals'[c].at = "done" /\ evals'[c].event = ev
    BY <1>1, <1>4, <2>1 DEF Alone, Done
  <2>4. AllButEsc(session.script, n)
    <3>1. sent = Len(Flat(session.script))
      BY <1>1, <2>1 DEF Undisturbed
    <3>2. UnreadOf(buffered, tty, session.script, n, sent)
      BY <1>4, <1>5, Zenon DEF Streams
    <3>3. UnreadOf(buffered, <<>>, session.script, n, Len(Flat(session.script)))
      BY <2>1, <3>1, <3>2, Zenon
    <3>4. Waits(buffered)
      BY <2>1 DEF Waits, decoded
    <3>5. QED  BY <1>6, <3>3, <3>4, UnreadEnd
  <2>5. TellsOf(Append(got, ev), pending_events, session.script, n)
    <3>1. TellsOf(got, pending_events, session.script, n)
      BY <1>5, Zenon DEF Streams
    <3>2. QED  BY <1>6, <2>2, <3>1, TellsOther
  <2>6. Streams(Append(got', evals'[c].event), pending_events', stdin_pending', tty',
                stdin_eof', session'.script, n, sent')
    BY <2>1, <2>3, <2>4, <2>5 DEF Streams
  <2>7. Undisturbed' /\ n \in 0 .. Len(session'.script)
    BY <1>1, <2>1 DEF Undisturbed
  <2>8. QED  BY <2>3, <2>6, <2>7, StreamDone
<1>13. QED  BY <1>2, <1>8, <1>9, <1>10, <1>11, <1>12 DEF inputDrain

-----------------------------------------------------------------------------
(* The poll and the terminal keep it *)

\* The loop times out on a reader only when what it waits with is an ESC.
LEMMA TimeoutStream ==
    ASSUME Known, PollTimeout
    PROVE  StreamInv'
<1> USE DEF input, control, source
<1>1. /\ TypeOK /\ ClearScripts /\ ServedAlone /\ StreamInv /\ Undisturbed
  BY DEF Known, StreamInv
<1>2. /\ pc = "poll" /\ ~Readable /\ pc' \in {"exit", "flush_esc"}
      /\ Asleep = {} /\ PollSet # {} => EscWaiting # {} /\ Prompt
      /\ UNCHANGED <<evals, stdin_eof, stdin_pending, pending_events, session, sent, tty, hup, got>>
  BY DEF PollTimeout
<1>3. CASE \A j \in Slot : evals[j].at # "armed"
  <2>1. Undisturbed' /\ Suspended'
    BY <1>1, <1>2, <1>3 DEF Undisturbed, Suspended
  <2>2. PICK n \in 0 .. Len(session.script) : StreamAt(n)
    BY <1>1 DEF StreamInv
  <2>3. StreamAt(n)'
    BY <1>2, <1>3, <2>2 DEF StreamAt
  <2>4. QED  BY <1>2, <2>1, <2>2, <2>3 DEF StreamInv
<1>4. ASSUME NEW c \in Slot, evals[c].at = "armed"
      PROVE  StreamInv'
  <2>1. Alone(c) /\ stdin_pending = <<>> /\ ~stdin_eof
    BY <1>2, <1>4, ReaderFacts
  <2>2. c \in Armed /\ PollSet # {}
    BY <1>4, <2>1 DEF Armed, PollSet
  <2>3. tty = <<>>
    BY <1>2, <2>2 DEF Readable
  <2>4. Asleep = {}
    BY <1>4, <2>1 DEF Asleep, Alone
  <2>5. c \in EscWaiting /\ Prompt
    BY <1>2, <2>1, <2>2, <2>4 DEF EscWaiting, Armed, Alone
  <2>6. PICK n \in 0 .. Len(session.script) :
            Streams(got, pending_events, evals[c].buf, tty, stdin_eof, session.script, n, sent)
    BY <1>1, <1>4, StreamOfReader
  <2>7. Waits(evals[c].buf) /\ evals[c].buf # <<>> /\ WaitsEsc(evals[c])
    BY <1>1, <1>2, <1>4, <2>5 DEF StreamInv, Suspended, WaitsEsc, EscWaiting
  <2>8. EscIsNext(evals[c], session.script, n)
    <3> DEFINE s == session.script
               b == evals[c].buf
               m == sent
    <3>1. PICK l \in 0 .. Len(s) : m = EndOf(s, l)
      BY <2>5 DEF Prompt, Boundaries, EndOf
    <3>2. s \in Seq(ClearEvent) /\ b \in Seq(Byte)
      BY <1>1, StreamTypes
    <3>3. UnreadOf(b, <<>>, s, n, m)
      BY <2>1, <2>3, <2>6, Zenon DEF Streams
    <3>4. b # <<>> /\ Waits(b)
      BY <2>7
    <3> HIDE DEF s, b, m
    <3>5. UnreadOf(b, <<>>, s, n, EndOf(s, l))
      BY <3>1, <3>3, Zenon
    <3>6. n \in 0 .. Len(s)
      BY DEF s
    <3>7. n \in 0 .. Len(s) - 1 /\ s[n + 1] = Key("esc") /\ b = <<"esc">>
      BY <3>1, <3>2, <3>4, <3>5, <3>6, UnreadWaits
    <3>8. Len(s) \in Nat
      BY <3>2, LenProperties
    <3>9. n < Len(s)
      BY <3>7, <3>8
    <3>10. QED  BY <3>7, <3>9 DEF EscIsNext, s, b
  <2>9. /\ Alone(c)' /\ evals'[c].at = "armed"
    BY <1>2, <1>4, <2>1 DEF Alone
  <2>10. Undisturbed' /\ pc' # "input" /\ n \in 0 .. Len(session'.script)
    BY <1>1, <1>2 DEF Undisturbed
  <2>11. /\ Streams(got', pending_events', evals'[c].buf, tty', stdin_eof', session'.script, n, sent')
         /\ EscIsNext(evals'[c], session'.script, n)
         /\ Waits(evals'[c].buf) /\ WaitsEsc(evals'[c])
    BY <1>2, <2>6, <2>7, <2>8
  <2>12. QED  BY <2>9, <2>10, <2>11, StreamArmed
<1>5. QED  BY <1>3, <1>4

\* An ESC whose time is over is told, or handed on and parked.
LEMMA FlushEscStream ==
    ASSUME Known, flushEscWaits
    PROVE  StreamInv'
<1> USE DEF input, control, source
<1>1. /\ evals \in [Slot -> Eval] /\ TypeOK /\ ClearScripts /\ ServedAlone /\ StreamInv
      /\ Undisturbed /\ pc = "flush_esc"
  BY DEF Known, TypeOK, StreamInv, flushEscWaits
<1>2. CASE UNCHANGED <<evals, pending_events>> /\ pc' = "drain"
  BY <1>1, <1>2, StreamKept DEF flushEscWaits
<1> DEFINE esc == Key("esc")
<1>3. ASSUME NEW c \in EscWaiting
      PROVE  /\ c \in Slot /\ evals[c].at = "armed" /\ evals[c].esc_wait
             /\ Alone(c) /\ stdin_pending = <<>> /\ ~stdin_eof
             /\ \A i \in 1 .. Len(pending_events) : pending_events[i].kind # evals[c].task
  BY <1>1, <1>3, ReaderFacts DEF EscWaiting, Armed
<1>4. ASSUME NEW c \in EscWaiting
      PROVE  \E l \in 0 .. Len(session.script) :
               /\ esc \in ClearEvent
               /\ evals[c].task = "key" =>
                     Streams(Append(got, esc), pending_events, <<>>, tty, stdin_eof,
                             session.script, l, sent)
               /\ Streams(got, Append(pending_events, esc), <<>>, tty, stdin_eof,
                          session.script, l, sent)
  <2> DEFINE s == session.script
             e == evals[c]
             l(n) == n + 1
  <2>1. PICK n \in 0 .. Len(s) :
            Streams(got, pending_events, e.buf, tty, stdin_eof, s, n, sent) /\ EscIsNext(e, s, n)
    BY <1>1, <1>3, <1>4, StreamOfReader
  <2>2. s \in Seq(ClearEvent) /\ sent \in 0 .. Len(Flat(s)) /\ e.buf \in Seq(Byte)
        /\ got \in Seq(AnyEvent) /\ pending_events \in Seq(AnyEvent) /\ tty \in Seq(Byte)
        /\ ~stdin_eof
    BY <1>1, <1>3, <1>4, StreamTypes
  <2>3. e.task = "key" => \A i \in 1 .. Len(pending_events) : pending_events[i].kind # "key"
    BY <1>3, <1>4
  <2> HIDE DEF s, e
  <2>4. n + 1 \in 0 .. Len(s) /\ Key("esc") \in ClearEvent
    BY <2>1, <2>2, EscStreams
  <2>5. e.task = "key" =>
            Streams(Append(got, Key("esc")), pending_events, <<>>, tty, stdin_eof, s, n + 1, sent)
    BY <2>1, <2>2, <2>3, EscStreams
  <2>6. Streams(got, Append(pending_events, Key("esc")), <<>>, tty, stdin_eof, s, n + 1, sent)
    BY <2>1, <2>2, EscStreams
  <2>7. QED  BY <2>4, <2>5, <2>6 DEF s, e
<1>5. esc \in InputEvent /\ esc \in AnyEvent /\ esc.kind = "key"
  BY EventTypes DEF Name, Byte, Key, Event
<1>6. ASSUME NEW c \in EscWaiting, evals[c].task = "key", inputComplete(c, Key("esc")),
             UNCHANGED pending_events
      PROVE  StreamInv'
  <2>1. PICK l \in 0 .. Len(session.script) :
            Streams(Append(got, esc), pending_events, <<>>, tty, stdin_eof, session.script, l, sent)
    BY <1>4, <1>6
  <2>2. evals' = [evals EXCEPT ![c] = Done(@, esc)]
    BY <1>6 DEF inputComplete
  <2>3. UNCHANGED <<pending_events, stdin_eof, tty, session, sent, hup, got>>
        /\ stdin_pending' = <<>>
    BY <1>3, <1>6 DEF flushEscWaits
  <2> HIDE DEF esc
  <2>4. QED  BY <1>3, <1>5, <1>6, <2>1, <2>2, <2>3, ToldStream
<1>7. ASSUME NEW c \in EscWaiting, evals[c].task = "mouse", pc' = "flush_esc",
             deliverInputEvent([evals EXCEPT ![c].buf = <<>>, ![c].esc_wait = FALSE],
                               Key("esc"))
      PROVE  StreamInv'
  <2> DEFINE mid == [evals EXCEPT ![c].buf = <<>>, ![c].esc_wait = FALSE]
  <2>1. c \in Slot /\ c \in Armed /\ Alone(c) /\ evals[c].at = "armed"
    BY <1>3, <1>7 DEF Armed
  <2>2. /\ mid \in [Slot -> Eval] /\ mid[c].buf = <<>> /\ mid[c].esc_wait = FALSE
        /\ \A j \in Slot : mid[j].at = evals[j].at /\ mid[j].task = evals[j].task
    <3>1. <<>> \in Seq(Byte)
      OBVIOUS
    <3>2. QED  BY <1>1, <2>1, <3>1 DEF Eval, Entry
  <2>3. deliverInputEvent(mid, esc)
    BY <1>7
  <2> HIDE DEF mid, esc
  <2>4. evals' = mid /\ pending_events' = Append(pending_events, esc)
    BY <1>1, <1>5, <1>7, <2>1, <2>2, <2>3, DeliverAlone
  <2>5. Alone(c)' /\ evals'[c].at = "armed" /\ evals'[c].buf = <<>> /\ ~evals'[c].esc_wait
    BY <2>1, <2>2, <2>4 DEF Alone
  <2>6. UNCHANGED <<stdin_eof, tty, session, sent, hup, got>>
    BY DEF flushEscWaits
  <2>7. PICK l \in 0 .. Len(session.script) :
            /\ esc \in ClearEvent
            /\ Streams(got, Append(pending_events, esc), <<>>, tty, stdin_eof,
                       session.script, l, sent)
    BY <1>4, <1>7
  <2>8. Undisturbed'
    <3>1. pending_events' \in Seq(ClearEvent)
      BY <1>1, <2>4, <2>7, AppendProperties DEF Undisturbed
    <3>2. QED  BY <1>1, <2>6, <3>1 DEF Undisturbed
  <2>9. Waits(evals'[c].buf) /\ WaitsEsc(evals'[c])
    BY <2>5 DEF Waits, WaitsEsc, decodeInput
  <2>10. Streams(got', pending_events', evals'[c].buf, tty', stdin_eof', session'.script, l, sent')
    BY <2>4, <2>5, <2>6, <2>7, Zenon
  <2>11. l \in 0 .. Len(session'.script)
    BY <2>6, <2>7
  <2>12. QED  BY <2>1, <2>5, <2>8, <2>9, <2>10, <2>11, StreamArmed
<1>8. QED  BY <1>2, <1>6, <1>7, <1>1 DEF flushEscWaits, Least

\* More bytes come.
LEMMA TypeStream ==
    ASSUME Known, Type
    PROVE  StreamInv'
<1> USE DEF input, control, source
<1> DEFINE s == session.script
           t == Flat(s)
<1>1. PICK l \in sent + 1 .. Len(t) : tty' = tty \o SubSeq(t, sent + 1, l) /\ sent' = l
  BY DEF Type, typed
<1>2. /\ UNCHANGED <<evals, stdin_eof, stdin_pending, pending_events, pc, session, hup, got>>
  BY DEF Type
<1>3. /\ s \in Seq(ClearEvent) /\ sent \in 0 .. Len(t) /\ tty \in Seq(Byte)
      /\ stdin_pending \in Seq(Byte) /\ \A i \in Slot : evals[i].buf \in Seq(Byte)
      /\ Len(t) \in Nat
  BY StreamTypes DEF Known
<1>4. Undisturbed' /\ Suspended'
  <2>1. ~hup
    BY <1>1, <1>3 DEF Known, StreamInv, Undisturbed
  <2>2. QED  BY <1>2, <2>1 DEF Known, StreamInv, Undisturbed, Suspended
<1>5. PICK n \in 0 .. Len(s) : StreamAt(n)
  BY DEF Known, StreamInv
<1> HIDE DEF s
<1>6. ASSUME NEW h, NEW p, NEW b \in Seq(Byte), NEW eof,
             Streams(h, p, b, tty, eof, s, n, sent)
      PROVE  Streams(h, p, b, tty', eof, s, n, sent')
  <2>1. eof \/ UnreadOf(b, tty, s, n, sent)
    BY <1>6, Zenon DEF Streams
  <2>2. UnreadOf(b, tty, s, n, sent) => UnreadOf(b, tty \o SubSeq(t, sent + 1, l), s, n, l)
    BY <1>1, <1>3, <1>5, UnreadType
  <2>3. eof \/ UnreadOf(b, tty', s, n, sent')
    BY <1>1, <2>1, <2>2, Zenon
  <2>4. QED  BY <1>6, <2>3, Zenon DEF Streams
<1>7. StreamAt(n)'
  BY <1>2, <1>3, <1>5, <1>6 DEF StreamAt, s
<1>8. QED  BY <1>2, <1>4, <1>5, <1>7 DEF StreamInv, s

LEMMA PollStream ==
    ASSUME Known, BeforePoll \/ AfterPoll
    PROVE  StreamInv'
<1> USE DEF input, control, source
<1>1. /\ evals \in [Slot -> Eval] /\ TypeOK /\ ClearScripts /\ ServedAlone /\ StreamInv
      /\ Undisturbed
  BY DEF Known, TypeOK, StreamInv
<1>2. CASE drainPendingStdin
  BY <1>1, <1>2 DEF drainPendingStdin, Least, EmptyHanded, ServedAlone
<1>3. CASE EndPending \/ CheckRunnable
  BY <1>1, <1>3, StreamKept DEF EndPending, CheckRunnable
<1>4. CASE PollReady \/ drainReady \/ EndDrain \/ EndFlush
  BY <1>1, <1>4, StreamKept DEF PollReady, drainReady, EndDrain, EndFlush
<1>5. CASE sleepComplete
  <2>1. PICK i \in Asleep :
            evals' = [evals EXCEPT ![i] = IF @.task = "tick" THEN Done(@, Tick) ELSE Fresh("key")]
    BY <1>5 DEF sleepComplete
  <2>2. i \in Slot /\ Alone(i) /\ \A j \in Slot : evals[j].at \notin {"done", "armed"}
    BY <1>1, <2>1, SingleAlone DEF Asleep, Alone
  <2>3. PICK n \in 0 .. Len(session.script) :
            Streams(got, pending_events, stdin_pending, tty, stdin_eof, session.script, n, sent)
    BY <1>1, <2>2, StreamQuiet
  <2>4. /\ UNCHANGED <<pending_events, stdin_pending, stdin_eof, tty, session, sent, hup, got>>
        /\ Undisturbed' /\ n \in 0 .. Len(session'.script)
    BY <1>1, <1>5 DEF sleepComplete, Undisturbed
  <2>5. CASE evals[i].task = "tick"
    <3> DEFINE ev == Tick
    <3>1. ev \in AnyEvent /\ ev.kind \notin Kind
      BY EventTypes DEF Tick, Event, Kind
    <3>2. evals' = [evals EXCEPT ![i] = Done(@, ev)]
      BY <2>1, <2>5
    <3> HIDE DEF ev
    <3>3. Alone(i)' /\ evals'[i].at = "done" /\ evals'[i].event = ev
      BY <1>1, <2>2, <3>2 DEF Alone, Done
    <3>4. Streams(Append(got, ev), pending_events, stdin_pending, tty, stdin_eof, session.script, n, sent)
      BY <1>1, <2>3, <3>1, OtherStreams, StreamTypes
    <3>5. QED  BY <2>2, <2>4, <3>3, <3>4, StreamDone
  <2>6. CASE evals[i].task # "tick"
    <3>1. \A j \in Slot : evals'[j] = evals[j] \/ evals'[j].at = "start"
      BY <1>1, <2>1, <2>6, RecordTypes DEF Task
    <3>2. \A j \in Slot : evals'[j].at \notin {"done", "armed"}
      BY <2>2, <3>1
    <3>3. QED  BY <2>3, <2>4, <3>2, StreamNobody
  <2>7. QED  BY <2>5, <2>6
<1>6. QED  BY <1>2, <1>3, <1>4, <1>5, TimeoutStream, FlushEscStream DEF BeforePoll, AfterPoll

-----------------------------------------------------------------------------
(* Input in its order *)

LEMMA InitStream ==
    ASSUME OneTaskAtATime, ClearScripts, Init
    PROVE  StreamInv
<1> DEFINE evs == [i \in Slot |-> Idle]
           cmd == session.start
           s == session.script
<1>1. evs \in [Slot -> Eval] /\ \A i \in Slot : evs[i].at = "idle"
  BY RecordTypes
<1>2. cmd \in Seq(Task) /\ Len(cmd) <= 1
  BY SessionTypes DEF Init, OneTaskAtATime
<1>3. evals = spawnFromCmd(evs, cmd)
  BY DEF Init
<1>4. s \in Seq(ClearEvent) /\ Len(s) \in Nat
  <2>1. s \in Seq(ClearEvent)
    BY DEF Init, ClearScripts
  <2>2. QED  BY <2>1, LenProperties
<1> HIDE DEF evs, cmd, s
<1>5. \A i \in Slot : evals[i].at \in {"idle", "start"}
  BY <1>1, <1>2, <1>3, SpawnOne
<1>6. UnreadOf(<<>>, <<>>, s, 0, 0) /\ UnreadOf(<<>>, Flat(s), s, 0, Len(Flat(s)))
  BY <1>4, UnreadStart
<1>7. UnreadOf(stdin_pending, tty, s, 0, sent)
  <2>1. CASE session.arrival = "piped"
    <3>1. stdin_pending = <<>> /\ tty = Flat(s) /\ sent = Len(Flat(s))
      BY <2>1 DEF Init, typed, s
    <3>2. QED  BY <1>6, <3>1, Zenon
  <2>2. CASE session.arrival # "piped"
    <3>1. stdin_pending = <<>> /\ tty = <<>> /\ sent = 0
      BY <2>2 DEF Init
    <3>2. QED  BY <1>6, <3>1, Zenon
  <2>3. QED  BY <2>1, <2>2
<1>8. TellsOf(got, pending_events, s, 0)
  <2>1. got = <<>> /\ pending_events = <<>>
    BY DEF Init
  <2>2. QED  BY <2>1, TellsStart, Zenon
<1>9. ~stdin_eof
  BY DEF Init
<1>10. Streams(got, pending_events, stdin_pending, tty, stdin_eof, s, 0, sent)
  BY <1>7, <1>8, <1>9, Zenon DEF Streams
<1>11. StreamAt(0)
  BY <1>5, <1>10 DEF StreamAt, s
<1>12. Undisturbed
  <2>1. pending_events \in Seq(ClearEvent)
    BY DEF Init
  <2>2. hup => sent = Len(Flat(session.script))
    BY DEF Init, typed
  <2>3. QED  BY <2>1, <2>2 DEF Undisturbed
<1>13. Suspended
  BY <1>5 DEF Suspended
<1>14. 0 \in 0 .. Len(session.script)
  BY <1>4 DEF s
<1>15. QED  BY <1>11, <1>12, <1>13, <1>14 DEF StreamInv

LEMMA StreamStep ==
    ASSUME OneTaskAtATime, Known, [Next]_vars
    PROVE  StreamInv'
<1>1. StreamInv
  BY DEF Known
<1>2. CASE UNCHANGED vars
  BY <1>1, <1>2, StreamKept DEF vars, input, control, source
<1>3. CASE HangUp
  <2>1. hup' => hup \/ sent = Len(Flat(session.script))
    BY <1>3 DEF HangUp, typed
  <2>2. QED  BY <1>1, <1>3, <2>1, StreamKept DEF HangUp, input, control, source
<1>4. QED  BY <1>2, <1>3, StepAllStream, InputDrainStream, PollStream, TypeStream
           DEF Next, HostStep, Terminated

LEMMA StreamAlways ==
    ASSUME OneTaskAtATime, ClearScripts
    PROVE  Spec => []StreamInv
<1>1. Init => StreamInv
  BY InitStream
<1>2. TypeOK /\ NobodyForgotten /\ ServedAlone /\ StreamInv /\ [Next]_vars => StreamInv'
  BY StreamStep DEF Known
<1>3. QED  BY <1>1, <1>2, TypeCorrect, NobodyForgottenAlways, ServedAloneAlways, PTL DEF Spec

\* What is told is the beginning of what is typed.
LEMMA TellsInOrder ==
    ASSUME NEW h \in Seq(AnyEvent), NEW p \in Seq(AnyEvent), NEW s \in Seq(ClearEvent),
           NEW n \in 0 .. Len(s), TellsOf(h, p, s, n), NEW k \in Kind
    PROVE  \E l \in 0 .. Len(s) : Typed(k, h) = Typed(k, SubSeq(s, 1, l))
<1>1. Joined(Typed(k, h), Typed(k, p)) = Typed(k, SubSeq(s, 1, n))
  BY DEF TellsOf
<1>2. Typed(k, h) \in Seq(AnyEvent) /\ Typed(k, p) \in Seq(AnyEvent) /\ s \in Seq(AnyEvent)
  BY TypedSteps, ClearSeqTyped
<1>3. PICK l \in 0 .. n : Typed(k, h) = Typed(k, SubSeq(s, 1, l))
  BY <1>1, <1>2, TypedBegins
<1>4. l \in 0 .. Len(s)
  BY <1>2, LenProperties
<1>5. QED  BY <1>3, <1>4

\* The same without the last that is told.
LEMMA TellsBefore ==
    ASSUME NEW h \in Seq(AnyEvent), NEW p \in Seq(AnyEvent), NEW s \in Seq(ClearEvent),
           NEW n \in 0 .. Len(s), NEW ev \in AnyEvent, TellsOf(Append(h, ev), p, s, n), NEW k \in Kind
    PROVE  \E l \in 0 .. Len(s) : Typed(k, h) = Typed(k, SubSeq(s, 1, l))
<1> DEFINE H == Typed(k, h)
           E == Piece(k, ev)
           P == Typed(k, p)
           N == Typed(k, SubSeq(s, 1, n))
<1>1. Joined(Typed(k, Append(h, ev)), P) = N
  BY DEF TellsOf
<1>2. /\ H \in Seq(AnyEvent) /\ P \in Seq(AnyEvent) /\ E \in Seq(AnyEvent)
      /\ Typed(k, Append(h, ev)) = Joined(H, E)
  BY TypedSteps
<1> HIDE DEF H, E, P, N
<1>3. Joined(H, Joined(E, P)) = Joined(Joined(H, E), P) /\ Joined(E, P) \in Seq(AnyEvent)
  BY <1>2, JoinedLaws
<1>4. Joined(H, Joined(E, P)) = N
  BY <1>1, <1>2, <1>3, Zenon
<1>5. s \in Seq(AnyEvent) /\ n \in 0 .. Len(s)
  BY ClearSeqTyped
<1>6. PICK l \in 0 .. n : H = Typed(k, SubSeq(s, 1, l))
  BY <1>2, <1>3, <1>4, <1>5, TypedBegins DEF N
<1>7. l \in 0 .. Len(s)
  BY <1>5, LenProperties
<1>8. QED  BY <1>6, <1>7 DEF H

\* With one task at a time, and scripts whose events can be told apart, what the
\* program is given of each kind is what was typed, in its order: nothing is lost,
\* doubled or overtaken in the readers' buffers, the bytes pushed back, the parked
\* events and the ESC waits.
THEOREM InputInOrder ==
    ASSUME OneTaskAtATime, ClearScripts
    PROVE  Spec => []EventsInOrder
<1>1. TypeOK /\ StreamInv => EventsInOrder
  <2> SUFFICES ASSUME TypeOK, StreamInv, NEW k \in Kind
               PROVE  \E n \in 0 .. Len(session.script) :
                         Given(k) = Typed(k, SubSeq(session.script, 1, n))
    BY DEF EventsInOrder
  <2>1. /\ session.script \in Seq(ClearEvent) /\ got \in Seq(AnyEvent)
        /\ pending_events \in Seq(AnyEvent) /\ \A i \in Slot : evals[i].event \in AnyEvent
    BY StreamTypes
  <2>2. PICK n \in 0 .. Len(session.script) : StreamAt(n)
    BY DEF StreamInv
  <2>3. \/ TellsOf(got, pending_events, session.script, n)
        \/ \E i \in Slot : TellsOf(Append(got, evals[i].event), pending_events, session.script, n)
    BY <2>2 DEF StreamAt, Streams
  <2>4. CASE TellsOf(got, pending_events, session.script, n)
    BY <2>1, <2>4, TellsInOrder DEF Given
  <2>5. ASSUME NEW i \in Slot,
               TellsOf(Append(got, evals[i].event), pending_events, session.script, n)
        PROVE  \E l \in 0 .. Len(session.script) :
                  Given(k) = Typed(k, SubSeq(session.script, 1, l))
    BY <2>1, <2>5, TellsBefore DEF Given
  <2>6. QED  BY <2>3, <2>4, <2>5
<1>2. QED  BY <1>1, StreamAlways, TypeCorrect, PTL

-----------------------------------------------------------------------------
(* The end comes last *)

\* What a program does that reads events of the kind k only, one at a time.
TaskOf(k) == {k, "tick"} \cup (IF k = "key" THEN {"late"} ELSE {})

ReadsOnly(k) ==
    /\ \A s \in Session : s.start \in Seq(TaskOf(k))
    /\ \A ev \in AnyEvent : Respond(ev) \in Seq(TaskOf(k))

\* No script ends in an ESC: it might still wait for its time when the end comes.
NoEscLast == \A s \in Session : s.script # <<>> => s.script[Len(s.script)] # Key("esc")

\* The end of the input is told after all of s.
EndsAfter(k, s, h) ==
    \A n \in 1 .. Len(h) : h[n].name = "eof" =>
        h[n] = Eof(k) /\ Typed(k, SubSeq(h, 1, n)) = Typed(k, s)

EofInv(k) ==
    /\ \A i \in Slot : evals[i].task \in TaskOf(k)
    /\ \A i \in Slot : evals[i].at = "asleep" => evals[i].task \notin Kind
    /\ \A i \in Slot : evals[i].at = "done" /\ evals[i].event.name = "eof" =>
                           stdin_eof /\ evals[i].event = Eof(k)
    /\ \A n \in 1 .. Len(pending_events) : pending_events[n].kind # k
    /\ EndsAfter(k, session.script, got)

LEMMA TaskKinds ==
    ASSUME NEW k \in Kind
    PROVE  /\ TaskOf(k) \subseteq Task /\ k \in TaskOf(k) /\ "tick" \in TaskOf(k)
           /\ \A t \in TaskOf(k) : t \in Kind => t = k
           /\ \A t \in TaskOf(k) : t \notin Kind /\ t # "tick" => k = "key"
  BY DEF TaskOf, Task, Kind

LEMMA DecodedNames ==
    ASSUME NEW buf \in Seq(Byte)
    PROVE  decodeInput(buf).event.name # "eof"
<1>1. buf # <<>> => buf[1] \in Byte
  BY EmptySeq, ElementOfSeq, LenProperties
<1>2. \A b \in Byte : b # "eof"
  BY DEF Byte
<1>3. decodeEsc(buf).event.name # "eof"
  BY DEF decodeEsc, Decoded, Incomplete, NoEvent, Key, Mouse, Event
<1>4. decodeUtf8(buf).event.name # "eof"
  BY DEF decodeUtf8, Decoded, Incomplete, NoEvent, Key, Event
<1>5. CASE buf = <<>>
  BY <1>5 DEF decodeInput, Incomplete, Decoded, NoEvent, Event
<1>6. CASE buf # <<>> /\ buf[1] \notin {"esc", "lead"}
  BY <1>1, <1>2, <1>6 DEF decodeInput, Decoded, Key, Event
<1>7. CASE buf # <<>> /\ buf[1] = "esc"
  BY <1>3, <1>7 DEF decodeInput
<1>8. CASE buf # <<>> /\ buf[1] = "lead"
  BY <1>4, <1>8 DEF decodeInput
<1>9. QED  BY <1>5, <1>6, <1>7, <1>8

\* One more is told; if it is the end, then after all of s.
LEMMA EndsAfterAppend ==
    ASSUME NEW k, NEW s, NEW h \in Seq(AnyEvent), EndsAfter(k, s, h), NEW ev \in AnyEvent,
           ev.name = "eof" => ev = Eof(k) /\ Typed(k, Append(h, ev)) = Typed(k, s)
    PROVE  EndsAfter(k, s, Append(h, ev))
<1> DEFINE g == Append(h, ev)
           l == Len(h)
<1>1. l \in Nat /\ g \in Seq(AnyEvent) /\ Len(g) = l + 1 /\ g[l + 1] = ev
      /\ \A i \in 1 .. l : g[i] = h[i]
  BY AppendProperties, LenProperties
<1>2. SubSeq(g, 1, l + 1) = g
  BY <1>1, SubSeqFull
<1>3. ASSUME NEW n \in 1 .. l
      PROVE  SubSeq(g, 1, n) = SubSeq(h, 1, n)
  <2>1. n \in 0 .. Len(h) /\ n \in 0 .. Len(g) /\ n \in Nat
    BY <1>1
  <2>2. /\ SubSeq(h, 1, n) \in Seq(AnyEvent) /\ Len(SubSeq(h, 1, n)) = n
        /\ \A i \in 1 .. n : SubSeq(h, 1, n)[i] = h[i]
    BY <2>1, PrefixTyped
  <2>3. /\ SubSeq(g, 1, n) \in Seq(AnyEvent) /\ Len(SubSeq(g, 1, n)) = n
        /\ \A i \in 1 .. n : SubSeq(g, 1, n)[i] = g[i]
    BY <1>1, <2>1, PrefixTyped
  <2>4. \A i \in 1 .. n : g[i] = h[i]
    BY <1>1
  <2> DEFINE a == SubSeq(g, 1, n)
             b == SubSeq(h, 1, n)
  <2>5. a \in Seq(AnyEvent) /\ b \in Seq(AnyEvent) /\ Len(a) = Len(b)
        /\ \A i \in 1 .. Len(a) : a[i] = b[i]
    BY <2>2, <2>3, <2>4
  <2> HIDE DEF a, b
  <2>6. a = b
    BY <2>5, SeqEqual
  <2>7. QED  BY <2>6 DEF a, b
<1> HIDE DEF g, l
<1>4. ASSUME NEW n \in 1 .. Len(g), g[n].name = "eof"
      PROVE  g[n] = Eof(k) /\ Typed(k, SubSeq(g, 1, n)) = Typed(k, s)
  <2>1. CASE n = l + 1
    <3>1. ev = Eof(k) /\ Typed(k, g) = Typed(k, s)
      BY <1>1, <1>4, <2>1 DEF g
    <3>2. QED  BY <1>1, <1>2, <2>1, <3>1
  <2>2. CASE n # l + 1
    <3>1. n \in 1 .. l
      BY <1>1, <2>2
    <3>2. h[n] = Eof(k) /\ Typed(k, SubSeq(h, 1, n)) = Typed(k, s)
      BY <1>1, <1>4, <3>1 DEF EndsAfter, l
    <3>3. QED  BY <1>1, <1>3, <3>1, <3>2
  <2>3. QED  BY <2>1, <2>2
<1>5. EndsAfter(k, s, g)
  BY <1>4 DEF EndsAfter
<1>6. QED  BY <1>5 DEF g

\* A step in which nothing is told or parked, and no end is met.
LEMMA EofKept ==
    ASSUME NEW k, EofInv(k),
           \A j \in Slot : evals'[j].task \in TaskOf(k),
           \A j \in Slot : evals'[j].at = "asleep" => evals'[j].task \notin Kind,
           \A j \in Slot : evals'[j].at = "done" /\ evals'[j].event.name = "eof" =>
                               evals'[j] = evals[j] \/ (stdin_eof' /\ evals'[j].event = Eof(k)),
           stdin_eof => stdin_eof', UNCHANGED <<got, session>>,
           \A n \in 1 .. Len(pending_events') : pending_events'[n].kind # k
    PROVE  EofInv(k)'
<1>1. \A i \in Slot : evals'[i].at = "done" /\ evals'[i].event.name = "eof" =>
                          stdin_eof' /\ evals'[i].event = Eof(k)
  BY DEF EofInv
<1>2. EndsAfter(k, session'.script, got')
  BY DEF EofInv
<1>3. QED  BY <1>1, <1>2 DEF EofInv

\* The table is the same, as far as this goes.
LEMMA EofSame ==
    ASSUME NEW k, EofInv(k), evals' = evals, UNCHANGED <<got, session, stdin_eof, pending_events>>
    PROVE  EofInv(k)'
<1>1. \A n \in 1 .. Len(pending_events') : pending_events'[n].kind # k
  BY DEF EofInv
<1>2. /\ \A j \in Slot : evals'[j].task \in TaskOf(k)
      /\ \A j \in Slot : evals'[j].at = "asleep" => evals'[j].task \notin Kind
  BY DEF EofInv
<1>3. QED  BY <1>1, <1>2, EofKept

\* One evaluation is completed with an event.
LEMMA EofComplete ==
    ASSUME NEW k \in Kind, TypeOK, EofInv(k), NEW i \in Slot, NEW ev \in AnyEvent,
           evals' = [evals EXCEPT ![i] = Done(@, ev)],
           ev.name = "eof" => stdin_eof' /\ evals[i].task \in Kind /\ ev = Eof(evals[i].task),
           stdin_eof => stdin_eof', UNCHANGED <<got, session>>,
           \A n \in 1 .. Len(pending_events') : pending_events'[n].kind # k
    PROVE  EofInv(k)'
<1>1. evals \in [Slot -> Eval] /\ \A j \in Slot : evals[j].task \in TaskOf(k)
  BY DEF TypeOK, EofInv
<1>2. evals'[i].task = evals[i].task /\ evals'[i].at = "done" /\ evals'[i].event = ev
  BY <1>1 DEF Done
<1>3. \A j \in Slot : j # i => evals'[j] = evals[j]
  BY <1>1
<1>4. \A j \in Slot : evals'[j].task \in TaskOf(k)
  BY <1>1, <1>2, <1>3
<1>5. \A j \in Slot : evals'[j].at = "asleep" => evals'[j].task \notin Kind
  BY <1>2, <1>3 DEF EofInv
<1>6. evals[i].task \in Kind => evals[i].task = k
  BY <1>1, TaskKinds
<1>7. \A j \in Slot : evals'[j].at = "done" /\ evals'[j].event.name = "eof" =>
                          evals'[j] = evals[j] \/ (stdin_eof' /\ evals'[j].event = Eof(k))
  BY <1>2, <1>3, <1>6
<1>8. QED  BY <1>4, <1>5, <1>7, EofKept

LEMMA StepAllEof ==
    ASSUME NEW k \in Kind, OneTaskAtATime, ReadsOnly(k), NoEscLast, Known, EofInv(k), stepAll
    PROVE  EofInv(k)'
<1> USE DEF input, control, source
<1>1. /\ evals \in [Slot -> Eval] /\ TypeOK /\ ClearScripts /\ ServedAlone /\ StreamInv
      /\ \A n \in 1 .. Len(pending_events) : pending_events[n].kind # k
      /\ \A j \in Slot : evals[j].task \in TaskOf(k)
  BY DEF Known, TypeOK, StreamInv, EofInv
<1>2. CASE deliver
  <2>1. PICK i \in Slot :
            /\ Stepped(i) /\ evals[i].at = "done"
            /\ evals' = spawnFromCmd([evals EXCEPT ![i] = Idle], Respond(evals[i].event))
            /\ got' = Append(got, evals[i].event)
    BY <1>2 DEF deliver
  <2>2. UNCHANGED <<pending_events, stdin_eof, session>>
    BY <1>2 DEF deliver
  <2> DEFINE evs == [evals EXCEPT ![i] = Idle]
             cmd == Respond(evals[i].event)
             ev == evals[i].event
  <2>3. evs \in [Slot -> Eval] /\ \A j \in Slot : evs[j].at = "idle"
    <3>1. Alone(i)
      BY <1>1, <2>1, SingleAlone
    <3>2. QED  BY <1>1, <2>1, <3>1, RecordTypes DEF Alone
  <2>4. cmd \in Seq(TaskOf(k)) /\ cmd \in Seq(Task) /\ Len(cmd) <= 1 /\ ev \in AnyEvent
    BY <1>1, StreamTypes, ProgramAssumption DEF OneTaskAtATime, ReadsOnly
  <2>5. \A j \in Slot : evs[j].task \in TaskOf(k)
    BY <1>1, <2>1, TaskKinds DEF Idle
  <2> HIDE DEF evs, cmd
  <2>6. \A j \in Slot : evals'[j].task \in TaskOf(k) /\ evals'[j].at \notin {"asleep", "done"}
    <3>1. evals' = spawnFromCmd(evs, cmd)
      BY <2>1 DEF evs, cmd
    <3>2. \A n \in DOMAIN cmd : Fresh(cmd[n]).task \in TaskOf(k)
      <4>1. \A n \in DOMAIN cmd : cmd[n] \in TaskOf(k)
        BY <2>4, LenProperties, ElementOfSeq
      <4>2. QED  BY <4>1 DEF Fresh, Idle
    <3>3. \A j \in Slot : \/ evals'[j] = evs[j]
                          \/ \E n \in DOMAIN cmd : evals'[j] = Fresh(cmd[n])
      BY <2>3, <2>4, <3>1, SpawnOne
    <3>4. \A j \in Slot : evals'[j].at \in {"idle", "start"}
      BY <2>3, <2>4, <3>1, SpawnOne
    <3>5. QED  BY <2>5, <3>2, <3>3, <3>4
  <2>7. ev.name = "eof" => ev = Eof(k) /\ Typed(k, Append(got, ev)) = Typed(k, session.script)
    <3> DEFINE s == session.script
               P == Typed(k, pending_events)
               G == Typed(k, Append(got, ev))
    <3>1. SUFFICES ASSUME ev.name = "eof"
                   PROVE  ev = Eof(k) /\ G = Typed(k, s)
      OBVIOUS
    <3>2. stdin_eof /\ ev = Eof(k)
      BY <2>1, <3>1 DEF EofInv
    <3>3. PICK n \in 0 .. Len(s) : StreamAt(n)
      BY <1>1 DEF StreamInv
    <3>4. TellsOf(Append(got, ev), pending_events, s, n) /\ AllButEsc(s, n)
      BY <2>1, <3>2, <3>3 DEF StreamAt, Streams
    <3>5. s \in Seq(ClearEvent) /\ got \in Seq(AnyEvent) /\ pending_events \in Seq(AnyEvent)
      BY <1>1, StreamTypes
    <3>6. s # <<>> => s[Len(s)] # Key("esc")
      BY <1>1 DEF NoEscLast, TypeOK
    <3>7. n = Len(s)
      <4> HIDE DEF s
      <4>1. Len(s) \in Nat /\ (s = <<>> => Len(s) = 0)
        BY <3>5, LenProperties
      <4>2. QED  BY <3>4, <3>6, <4>1 DEF AllButEsc
    <3>8. Joined(G, P) = Typed(k, SubSeq(s, 1, n))
      BY <3>4 DEF TellsOf
    <3>9. SubSeq(s, 1, n) = s
      BY <3>5, <3>7, SubSeqFull
    <3>10. P = <<>>
      BY <1>1, <3>5, TypedNone
    <3>11. G \in Seq(AnyEvent)
      <4>1. Append(got, ev) \in Seq(AnyEvent)
        BY <2>4, <3>5, AppendProperties
      <4>2. QED  BY <4>1, TypedSteps
    <3> HIDE DEF G, P, s
    <3>12. Joined(G, P) = G
      BY <3>10, <3>11, JoinedLaws
    <3>13. G = Typed(k, s)
      BY <3>8, <3>9, <3>12, Zenon
    <3>14. QED  BY <3>2, <3>13
  <2>8. EndsAfter(k, session.script, Append(got, ev))
    <3>1. EndsAfter(k, session.script, got) /\ got \in Seq(AnyEvent)
      BY <1>1, StreamTypes DEF EofInv
    <3> HIDE DEF ev
    <3>2. QED  BY <2>4, <2>7, <3>1, EndsAfterAppend
  <2>9. QED  BY <1>1, <2>1, <2>2, <2>6, <2>8 DEF EofInv
<1>3. CASE leafSleep
  <2>1. \A j \in Slot : /\ evals'[j].task = evals[j].task
                        /\ \/ evals'[j] = evals[j]
                           \/ evals'[j].at = "asleep" /\ evals[j].task \in {"tick", "late"}
    BY <1>1, <1>3 DEF leafSleep, Eval, Entry
  <2>2. \A j \in Slot : evals'[j].at = "asleep" => evals'[j].task \notin Kind
    BY <2>1 DEF EofInv, Kind
  <2>3. UNCHANGED <<got, session, stdin_eof, pending_events>>
    BY <1>3 DEF leafSleep
  <2>4. \A j \in Slot : evals'[j].task \in TaskOf(k)
    BY <1>1, <2>1
  <2>5. \A j \in Slot : evals'[j].at = "done" => evals'[j] = evals[j]
    BY <2>1
  <2>6. QED  BY <1>1, <2>2, <2>3, <2>4, <2>5, EofKept
<1>4. CASE leafReadAtEof
  <2>1. PICK i \in Slot : AtRead(i) /\ evals' = [evals EXCEPT ![i] = Done(@, Eof(evals[i].task))]
    BY <1>4 DEF leafReadAtEof, inputComplete
  <2> DEFINE ev == Eof(evals[i].task)
  <2>2. ev \in AnyEvent /\ evals[i].task \in Kind
    BY <2>1, EventTypes DEF AtRead
  <2>3. stdin_eof' /\ UNCHANGED <<got, session, stdin_eof, pending_events>>
    BY <1>4 DEF leafReadAtEof
  <2>4. evals' = [evals EXCEPT ![i] = Done(@, ev)] /\ ev = Eof(evals[i].task)
    BY <2>1
  <2> HIDE DEF ev
  <2>5. QED  BY <1>1, <2>2, <2>3, <2>4, EofComplete
<1>5. CASE leafReadParked
  <2>1. PICK i \in Slot, l \in 1 .. Len(pending_events) :
            /\ AtRead(i) /\ pending_events[l].kind = evals[i].task
    BY <1>5 DEF leafReadParked, Least, Parked
  <2>2. evals[i].task = k
    BY <1>1, <2>1, TaskKinds DEF AtRead
  <2>3. QED  BY <1>1, <2>1, <2>2
<1>6. CASE leafReadArm
  <2>1. PICK i \in Slot : /\ AtRead(i)
                          /\ evals' = [evals EXCEPT ![i].at = "armed", ![i].buf = stdin_pending]
    BY <1>6 DEF leafReadArm, arm
  <2>2. \A j \in Slot : /\ evals'[j].task = evals[j].task
                        /\ evals'[j] = evals[j] \/ evals'[j].at = "armed"
    BY <1>1, <2>1 DEF Eval, Entry
  <2>3. UNCHANGED <<got, session, stdin_eof, pending_events>>
    BY <1>6 DEF leafReadArm
  <2>4. /\ \A j \in Slot : evals'[j].task \in TaskOf(k)
        /\ \A j \in Slot : evals'[j].at = "asleep" => evals'[j].task \notin Kind
        /\ \A j \in Slot : evals'[j].at = "done" => evals'[j] = evals[j]
    BY <1>1, <2>2 DEF EofInv
  <2>5. QED  BY <1>1, <2>3, <2>4, EofKept
<1>7. CASE EndStepAll
  BY <1>7, EofSame DEF EndStepAll
<1>8. QED  BY <1>2, <1>3, <1>4, <1>5, <1>6, <1>7 DEF stepAll

LEMMA InputDrainEof ==
    ASSUME NEW k \in Kind, Known, EofInv(k), inputDrain
    PROVE  EofInv(k)'
<1> USE DEF input, control, source
<1>1. /\ evals \in [Slot -> Eval] /\ TypeOK /\ ServedAlone
      /\ \A n \in 1 .. Len(pending_events) : pending_events[n].kind # k
      /\ \A j \in Slot : evals[j].task \in TaskOf(k)
      /\ (pc = "input" => cur \in Slot /\ evals[cur].at = "armed")
  BY DEF Known, TypeOK, EofInv, Armed
<1>2. CASE flushEof
  <2>1. evals' = evals
    BY <1>1, <1>2 DEF flushEof, Least, ServedAlone
  <2>2. QED  BY <1>2, <2>1, EofSame DEF flushEof
<1>3. SUFFICES ASSUME pc = "input", NEW c \in Slot, c = cur PROVE EofInv(k)'
  BY <1>1, <1>2 DEF inputDrain, inputMatches, inputRoutes, inputReads, inputSuspends, inputAtEof
<1>4. /\ evals[c].at = "armed" /\ evals[c].task = want /\ want = k
      /\ buffered \in Seq(Byte)
  <2>1. evals[c] \in Eval /\ evals[c].at = "armed"
    BY <1>1, <1>3
  <2>2. evals[c].task \in Kind /\ evals[c].buf \in Seq(Byte)
    BY <2>1 DEF Eval, Entry
  <2>3. evals[c].task = k
    BY <1>1, <2>2, TaskKinds
  <2>4. QED  BY <1>3, <2>1, <2>2, <2>3 DEF want, buffered
<1>5. ASSUME decoded # Incomplete
      PROVE  /\ decoded.event \in AnyEvent /\ decoded.event \in InputEvent
             /\ decoded.event.name # "eof" /\ leftover \in Seq(Byte)
  BY <1>4, <1>5, DecodeTyped, DecodedNames, RestTyped, EventTypes DEF decoded, leftover
<1>6. ASSUME NEW evs, evs = evals',
             \A j \in Slot : evs[j].at = evals[j].at /\ evs[j].task = evals[j].task
                             /\ (evs[j] = evals[j] \/ evals[j].at = "armed"),
             UNCHANGED <<got, session, stdin_eof>>,
             \A n \in 1 .. Len(pending_events') : pending_events'[n].kind # k
      PROVE  EofInv(k)'
  <2>1. \A j \in Slot : evals'[j].task \in TaskOf(k)
    BY <1>1, <1>6
  <2>2. \A j \in Slot : evals'[j].at = "asleep" => evals'[j].task \notin Kind
    BY <1>6 DEF EofInv
  <2>3. \A j \in Slot : evals'[j].at = "done" => evals'[j] = evals[j]
    BY <1>6
  <2>4. QED  BY <1>6, <2>1, <2>2, <2>3, EofKept
<1>7. CASE inputMatches
  <2> DEFINE ev == decoded.event
  <2>1. /\ evals' = [evals EXCEPT ![c] = Done(@, ev)] /\ ev \in AnyEvent /\ ev.name # "eof"
        /\ UNCHANGED <<pending_events, stdin_eof, session, got>>
    BY <1>3, <1>5, <1>7 DEF inputMatches, inputComplete
  <2> HIDE DEF ev
  <2>2. QED  BY <1>1, <2>1, EofComplete
<1>8. CASE inputRoutes
  <2> DEFINE mid == [evals EXCEPT ![c].buf = leftover]
             ev == decoded.event
  <2>1. /\ decoded # Incomplete /\ ev.kind # want /\ deliverInputEvent(mid, ev)
        /\ UNCHANGED <<stdin_eof, session, got>>
    BY <1>3, <1>8 DEF inputRoutes
  <2>2. /\ mid \in [Slot -> Eval]
        /\ \A j \in Slot : mid[j].at = evals[j].at /\ mid[j].task = evals[j].task
                           /\ (mid[j] = evals[j] \/ evals[j].at = "armed")
    BY <1>1, <1>4, <1>5, <2>1 DEF Eval, Entry
  <2>3. ev \in InputEvent
    BY <1>5, <2>1
  <2> HIDE DEF mid, ev
  <2>4. evals' = mid /\ pending_events' = Append(pending_events, ev)
    <3>1. c \in Armed /\ ev.kind # evals[c].task
      BY <1>4, <2>1 DEF Armed
    <3>2. QED  BY <1>1, <2>1, <2>2, <2>3, <3>1, DeliverAlone
  <2>5. \A n \in 1 .. Len(pending_events') : pending_events'[n].kind # k
    <3>1. pending_events \in Seq(InputEvent) /\ Len(pending_events) \in Nat
      BY <1>1, LenProperties DEF TypeOK
    <3>2. ev.kind # k
      BY <1>4, <2>1
    <3> DEFINE p == Append(pending_events, ev)
    <3>3. /\ Len(p) = Len(pending_events) + 1 /\ p[Len(pending_events) + 1] = ev
          /\ \A n \in 1 .. Len(pending_events) : p[n] = pending_events[n]
      BY <2>3, <3>1, AppendProperties
    <3> HIDE DEF p
    <3>4. \A n \in 1 .. Len(p) : p[n].kind # k
      BY <1>1, <3>1, <3>2, <3>3
    <3>5. QED  BY <2>4, <3>4 DEF p
  <2>6. QED  BY <1>6, <2>1, <2>2, <2>4, <2>5
<1>9. CASE inputReads
  <2>1. /\ \A j \in Slot : evals'[j].at = evals[j].at /\ evals'[j].task = evals[j].task
                           /\ (evals'[j] = evals[j] \/ evals[j].at = "armed")
        /\ UNCHANGED <<pending_events, stdin_eof, session, got>>
    BY <1>1, <1>3, <1>4, <1>9 DEF inputReads, Eval, Entry
  <2>2. QED  BY <1>1, <1>6, <2>1
<1>10. CASE inputSuspends
  <2>1. /\ \A j \in Slot : evals'[j].at = evals[j].at /\ evals'[j].task = evals[j].task
                           /\ (evals'[j] = evals[j] \/ evals[j].at = "armed")
        /\ UNCHANGED <<pending_events, stdin_eof, session, got>>
    BY <1>1, <1>3, <1>4, <1>10 DEF inputSuspends, Eval, Entry
  <2>2. QED  BY <1>1, <1>6, <2>1
<1>11. CASE inputAtEof
  <2> DEFINE ev == Eof(want)
  <2>1. /\ evals' = [evals EXCEPT ![c] = Done(@, ev)] /\ stdin_eof'
        /\ UNCHANGED <<pending_events, session, got>>
    BY <1>3, <1>11 DEF inputAtEof, inputComplete
  <2>2. ev \in AnyEvent /\ ev = Eof(evals[c].task) /\ evals[c].task \in Kind
    BY <1>4, EventTypes
  <2> HIDE DEF ev
  <2>3. QED  BY <1>1, <2>1, <2>2, EofComplete
<1>12. QED  BY <1>2, <1>7, <1>8, <1>9, <1>10, <1>11 DEF inputDrain

LEMMA PollEof ==
    ASSUME NEW k \in Kind, Known, EofInv(k), BeforePoll \/ AfterPoll
    PROVE  EofInv(k)'
<1> USE DEF input, control, source
<1>1. /\ evals \in [Slot -> Eval] /\ TypeOK /\ ServedAlone
      /\ \A n \in 1 .. Len(pending_events) : pending_events[n].kind # k
      /\ \A j \in Slot : evals[j].task \in TaskOf(k)
  BY DEF Known, TypeOK, EofInv
<1>2. CASE drainPendingStdin
  BY <1>1, <1>2 DEF drainPendingStdin, Least, EmptyHanded, ServedAlone
<1>3. CASE EndPending \/ CheckRunnable \/ PollReady \/ PollTimeout
  BY <1>3, EofSame DEF EndPending, CheckRunnable, PollReady, PollTimeout
<1>4. CASE drainReady \/ EndDrain \/ EndFlush
  BY <1>4, EofSame DEF drainReady, EndDrain, EndFlush
<1>5. CASE flushEscWaits
  <2> DEFINE esc == Key("esc")
  <2>1. /\ esc \in InputEvent /\ esc \in AnyEvent /\ esc.kind = "key" /\ esc.name # "eof"
        /\ UNCHANGED <<stdin_eof, session, got>>
    BY <1>5, EventTypes DEF Name, Byte, Key, Event, flushEscWaits
  <2>2. CASE UNCHANGED <<evals, pending_events>>
    BY <2>1, <2>2, EofSame
  <2>3. ASSUME NEW i \in Slot, i \in EscWaiting, inputComplete(i, Key("esc")),
               UNCHANGED pending_events
        PROVE  EofInv(k)'
    <3>1. evals' = [evals EXCEPT ![i] = Done(@, esc)]
      BY <2>3 DEF inputComplete
    <3> HIDE DEF esc
    <3>2. QED  BY <1>1, <2>1, <2>3, <3>1, EofComplete
  <2>4. ASSUME NEW i \in Slot, i \in EscWaiting, evals[i].task = "mouse",
               deliverInputEvent([evals EXCEPT ![i].buf = <<>>, ![i].esc_wait = FALSE],
                                 Key("esc"))
        PROVE  EofInv(k)'
    <3> DEFINE mid == [evals EXCEPT ![i].buf = <<>>, ![i].esc_wait = FALSE]
    <3>1. <<>> \in Seq(Byte) /\ i \in Armed /\ evals[i].at = "armed"
      BY <2>4 DEF EscWaiting, Armed
    <3>2. /\ mid \in [Slot -> Eval]
          /\ \A j \in Slot : mid[j].at = evals[j].at /\ mid[j].task = evals[j].task
                             /\ (mid[j] = evals[j] \/ evals[j].at = "armed")
      BY <1>1, <3>1 DEF Eval, Entry
    <3>3. deliverInputEvent(mid, esc)
      BY <2>4
    <3> HIDE DEF mid, esc
    <3>4. evals' = mid /\ pending_events' = Append(pending_events, esc)
      BY <1>1, <2>1, <2>4, <3>1, <3>2, <3>3, DeliverAlone
    <3>5. k = "mouse"
      BY <1>1, <2>4, TaskKinds DEF Kind
    <3>6. \A n \in 1 .. Len(pending_events') : pending_events'[n].kind # k
      <4>1. pending_events \in Seq(InputEvent) /\ Len(pending_events) \in Nat
        BY <1>1, LenProperties DEF TypeOK
      <4> DEFINE p == Append(pending_events, esc)
      <4>2. /\ Len(p) = Len(pending_events) + 1 /\ p[Len(pending_events) + 1] = esc
            /\ \A n \in 1 .. Len(pending_events) : p[n] = pending_events[n]
        BY <2>1, <4>1, AppendProperties
      <4> HIDE DEF p
      <4>3. \A n \in 1 .. Len(p) : p[n].kind # k
        BY <1>1, <2>1, <3>5, <4>1, <4>2
      <4>4. QED  BY <3>4, <4>3 DEF p
    <3>7. \A j \in Slot : evals'[j].task \in TaskOf(k)
      BY <1>1, <3>2, <3>4
    <3>8. \A j \in Slot : evals'[j].at = "asleep" => evals'[j].task \notin Kind
      BY <3>2, <3>4 DEF EofInv
    <3>9. \A j \in Slot : evals'[j].at = "done" => evals'[j] = evals[j]
      BY <3>2, <3>4
    <3>10. QED  BY <2>1, <3>6, <3>7, <3>8, <3>9, EofKept
  <2>5. QED  BY <1>5, <2>2, <2>3, <2>4 DEF flushEscWaits, Least
<1>6. CASE sleepComplete
  <2>1. PICK i \in Asleep :
            evals' = [evals EXCEPT ![i] = IF @.task = "tick" THEN Done(@, Tick) ELSE Fresh("key")]
    BY <1>6 DEF sleepComplete
  <2>2. UNCHANGED <<pending_events, stdin_eof, session, got>> /\ i \in Slot /\ evals[i].at = "asleep"
    BY <1>6, <2>1 DEF sleepComplete, Asleep
  <2>3. CASE evals[i].task = "tick"
    <3>1. Tick \in AnyEvent /\ Tick.name # "eof" /\ evals' = [evals EXCEPT ![i] = Done(@, Tick)]
      BY <2>1, <2>3, EventTypes DEF Tick, Event
    <3>2. QED  BY <1>1, <2>2, <3>1, EofComplete
  <2>4. CASE evals[i].task # "tick"
    <3>1. evals[i].task \notin Kind /\ evals[i].task \in TaskOf(k)
      BY <1>1, <2>2 DEF EofInv
    <3>2. k = "key"
      BY <2>4, <3>1, TaskKinds
    <3>3. Fresh("key").task = "key" /\ Fresh("key").at = "start"
      BY DEF Fresh, Idle
    <3>4. \A j \in Slot : \/ evals'[j] = evals[j]
                          \/ evals'[j].task = k /\ evals'[j].at = "start"
      BY <1>1, <2>1, <2>4, <3>2, <3>3
    <3>5. /\ \A j \in Slot : evals'[j].task \in TaskOf(k)
          /\ \A j \in Slot : evals'[j].at = "asleep" => evals'[j].task \notin Kind
          /\ \A j \in Slot : evals'[j].at = "done" => evals'[j] = evals[j]
      BY <1>1, <3>4, TaskKinds DEF EofInv
    <3>6. QED  BY <1>1, <2>2, <3>5, EofKept
  <2>5. QED  BY <2>3, <2>4
<1>7. QED  BY <1>2, <1>3, <1>4, <1>5, <1>6 DEF BeforePoll, AfterPoll

LEMMA InitEof ==
    ASSUME NEW k \in Kind, OneTaskAtATime, ReadsOnly(k), Init
    PROVE  EofInv(k)
<1> DEFINE evs == [i \in Slot |-> Idle]
           cmd == session.start
<1>1. evs \in [Slot -> Eval] /\ \A i \in Slot : evs[i].at = "idle" /\ evs[i].task = "tick"
  BY RecordTypes DEF Idle
<1>2. cmd \in Seq(Task) /\ Len(cmd) <= 1 /\ cmd \in Seq(TaskOf(k))
  BY SessionTypes DEF Init, OneTaskAtATime, ReadsOnly
<1>3. evals = spawnFromCmd(evs, cmd)
  BY DEF Init
<1> HIDE DEF evs, cmd
<1>4. \A i \in Slot : evals[i].at \in {"idle", "start"}
  BY <1>1, <1>2, <1>3, SpawnOne
<1>5. \A i \in Slot : \/ evals[i] = evs[i]
                      \/ \E n \in DOMAIN cmd : evals[i] = Fresh(cmd[n])
  BY <1>1, <1>2, <1>3, SpawnOne
<1>6. \A n \in DOMAIN cmd : Fresh(cmd[n]).task \in TaskOf(k)
  <2>1. \A n \in DOMAIN cmd : cmd[n] \in TaskOf(k)
    BY <1>2, LenProperties, ElementOfSeq
  <2>2. QED  BY <2>1 DEF Fresh, Idle
<1>7. \A i \in Slot : evals[i].task \in TaskOf(k)
  BY <1>1, <1>5, <1>6, TaskKinds
<1>8. got = <<>> /\ pending_events = <<>> /\ Len(<<>>) = 0
  BY DEF Init
<1>9. EndsAfter(k, session.script, got) /\ \A n \in 1 .. Len(pending_events) : FALSE
  BY <1>8 DEF EndsAfter
<1>10. QED  BY <1>4, <1>7, <1>9 DEF EofInv

\* With one task at a time that reads one kind of event, and a script whose last
\* event is no ESC, the end is told when all of that kind has been.
THEOREM EndIsLast ==
    ASSUME OneTaskAtATime, ClearScripts, NoEscLast, NEW k \in Kind, ReadsOnly(k)
    PROVE  Spec => []EofComesLast
<1>1. Init => EofInv(k)
  BY InitEof
<1>2. TypeOK /\ NobodyForgotten /\ ServedAlone /\ StreamInv /\ EofInv(k) /\ [Next]_vars
          => EofInv(k)'
  <2> SUFFICES ASSUME Known, EofInv(k), [Next]_vars PROVE EofInv(k)'
    BY DEF Known
  <2>1. CASE Type \/ HangUp \/ UNCHANGED vars
    BY <2>1, EofSame DEF Type, HangUp, vars, input, control, source
  <2>2. QED  BY <2>1, StepAllEof, InputDrainEof, PollEof DEF Next, HostStep, Terminated
<1>3. TypeOK /\ EofInv(k) => EofComesLast
  <2> SUFFICES ASSUME TypeOK, EofInv(k), NEW j \in Kind, NEW n \in DOMAIN got, got[n] = Eof(j)
               PROVE  Typed(j, SubSeq(got, 1, n)) = Typed(j, session.script)
    BY DEF EofComesLast
  <2>1. n \in 1 .. Len(got)
    BY LenProperties DEF TypeOK
  <2>2. got[n].name = "eof" /\ got[n].kind = j
    BY DEF Eof, Event
  <2>3. got[n] = Eof(k) /\ Typed(k, SubSeq(got, 1, n)) = Typed(k, session.script)
    BY <2>1, <2>2 DEF EofInv, EndsAfter
  <2>4. k = j
    BY <2>2, <2>3 DEF Eof, Event
  <2>5. QED  BY <2>3, <2>4
<1>4. QED  BY <1>1, <1>2, <1>3, StreamAlways, ServedAloneAlways, NobodyForgottenAlways,
              TypeCorrect, PTL DEF Spec
=============================================================================
