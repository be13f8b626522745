------------------------ MODULE LedgerLoadingProofs ------------------------
(***************************************************************************)
(* Whatever the limits on queries and their answers, whatever order the    *)
(* answers come and are folded in, and however the ledgers grow meanwhile: *)
(* no row of a known project's data room is passed over, and what the      *)
(* bridge hands on of a file is what its ledger says.                      *)
(***************************************************************************)
EXTENDS LedgerLoading, ProjectLoadingProofs

-----------------------------------------------------------------------------
(* Numbers in their order. *)

LEMMA ElementOfSeq ==
  ASSUME NEW S, NEW s \in Seq(S), NEW i \in 1..Len(s)
  PROVE  s[i] \in S
OBVIOUS

LEMMA FunctionIsSeq ==
  ASSUME NEW S, NEW n \in Nat, NEW s \in [1..n -> S]
  PROVE  s \in Seq(S) /\ Len(s) = n /\ DOMAIN s = 1..n
OBVIOUS

LEMMA PrefixOfSeq ==
  ASSUME NEW S, NEW s \in Seq(S), NEW m \in 0..Len(s)
  PROVE  SubSeq(s, 1, m) \in Seq(S) /\ Len(SubSeq(s, 1, m)) = m
OBVIOUS

IsOrdered(s) == \A i, j \in DOMAIN s : i < j => s[i] < s[j]

\* A finite set of numbers has its smallest element in front of the rest.
LEMMA OrderOneMore ==
  ASSUME NEW m \in Nat, NEW S \in SUBSET Nat, NEW x \in S, \A y \in S : x <= y,
         NEW s \in [1..m -> S \ {x}], IsOrdered(s)
  PROVE  \E t \in [1..(m + 1) -> S] : IsOrdered(t)
<1> DEFINE t == [i \in 1..(m + 1) |-> IF i = 1 THEN x ELSE s[i - 1]]
<1>1. \A i \in 1..(m + 1) : i = 1 \/ i - 1 \in 1..m
  OBVIOUS
<1>2. t \in [1..(m + 1) -> S]
  BY <1>1
<1>3. ASSUME NEW i \in 1..(m + 1), NEW j \in 1..(m + 1), i < j
      PROVE  t[i] < t[j]
  <2>1. j - 1 \in 1..m /\ t[j] = s[j - 1]
    BY <1>3
  <2>2. CASE i = 1
    <3>1. s[j - 1] \in S /\ s[j - 1] # x
      BY <2>1
    <3>2. x \in Nat /\ s[j - 1] \in Nat /\ x <= s[j - 1]
      BY <3>1
    <3>3. t[i] = x
      BY <2>2
    <3> HIDE DEF t
    <3> QED BY <2>1, <3>1, <3>2, <3>3
  <2>3. CASE i # 1
    <3>1. i - 1 \in 1..m /\ t[i] = s[i - 1] /\ i - 1 < j - 1
      BY <1>3, <2>3
    <3> QED BY <2>1, <3>1 DEF IsOrdered
  <2> QED BY <2>2, <2>3
<1>4. DOMAIN t = 1..(m + 1)
  OBVIOUS
<1> HIDE DEF t
<1>5. IsOrdered(t)
  BY <1>3, <1>4 DEF IsOrdered
<1> QED BY <1>2, <1>5

\* Every finite set of numbers can be put in order.
LEMMA OrderExists ==
  ASSUME NEW S \in SUBSET Nat, IsFiniteSet(S)
  PROVE  \E s \in [1..Cardinality(S) -> S] : IsOrdered(s)
<1> DEFINE IsBad(T) == IsFiniteSet(T) /\ ~ \E s \in [1..Cardinality(T) -> T] : IsOrdered(s)
           bad == {n \in Nat : \E T \in SUBSET Nat : IsBad(T) /\ Cardinality(T) = n}
<1> SUFFICES ASSUME IsBad(S) PROVE FALSE
  OBVIOUS
<1>1. bad \in SUBSET Nat /\ bad # {}
  BY FS_CardinalityType
<1>2. PICK m \in bad : \A k \in bad : m <= k
  BY <1>1, LeastNumber
<1>3. PICK T \in SUBSET Nat : IsBad(T) /\ Cardinality(T) = m
  BY <1>2
<1>4. T # {}
  <2> SUFFICES ASSUME T = {} PROVE FALSE
    OBVIOUS
  <2>1. m = 0
    BY <1>3, FS_EmptySet
  <2>2. [i \in 1..0 |-> 0] \in [1..0 -> T] /\ IsOrdered([i \in 1..0 |-> 0])
    BY DEF IsOrdered
  <2> QED BY <1>3, <2>1, <2>2
<1>5. PICK x \in T : \A y \in T : x <= y
  BY <1>4, LeastNumber
<1>6. IsFiniteSet(T \ {x}) /\ Cardinality(T \ {x}) = m - 1
  BY <1>3, FS_RemoveElement
<1>7. m \in Nat /\ m - 1 \in Nat
  BY <1>2, <1>6, FS_CardinalityType
<1>8. ~ IsBad(T \ {x})
  <2> SUFFICES ASSUME IsBad(T \ {x}) PROVE FALSE
    OBVIOUS
  <2>1. m - 1 \in bad
    BY <1>6, <1>7
  <2> QED BY <1>2, <1>7, <2>1
<1>9. PICK s \in [1..(m - 1) -> T \ {x}] : IsOrdered(s)
  BY <1>6, <1>8
<1>10. \E t \in [1..((m - 1) + 1) -> T] : IsOrdered(t)
  BY <1>5, <1>7, <1>9, OrderOneMore
<1>11. (m - 1) + 1 = m
  BY <1>7
<1> QED BY <1>3, <1>10, <1>11

\* InOrder has all of the set's numbers, each once, and the smaller first.
LEMMA InOrderIsOrdered ==
  ASSUME NEW S \in SUBSET Nat, IsFiniteSet(S)
  PROVE  /\ InOrder(S) \in Seq(S)
         /\ IsOrdered(InOrder(S))
         /\ Range(InOrder(S)) = S
         /\ Len(InOrder(S)) = Cardinality(S)
<1> DEFINE n == Cardinality(S)
           s == InOrder(S)
<1>1. n \in Nat
  BY FS_CardinalityType
<1>2. \E t \in [1..n -> S] : \A i, j \in DOMAIN t : i < j => t[i] < t[j]
  BY OrderExists DEF IsOrdered
<1>3. s \in [1..n -> S] /\ \A i, j \in DOMAIN s : i < j => s[i] < s[j]
  BY <1>2, Zenon DEF InOrder
<1> HIDE DEF s, n
<1>4. IsOrdered(s) /\ s \in Seq(S) /\ Len(s) = n /\ DOMAIN s = 1..n
  BY <1>1, <1>3 DEF IsOrdered
<1>5. IsInjective(s)
  <2> SUFFICES ASSUME NEW i \in 1..n, NEW j \in 1..n, s[i] = s[j], i # j PROVE FALSE
    BY <1>4 DEF IsInjective
  <2>1. i < j \/ j < i
    BY <1>1
  <2>2. s[i] \in Nat /\ s[i] < s[i]
    BY <1>3, <1>4, <2>1 DEF IsOrdered
  <2> QED BY <2>2
<1>6. s \in Injection(1..n, S)
  BY <1>3, <1>5 DEF Injection
<1>7. Cardinality(1..n) = n
  BY <1>1, FS_Interval
<1>8. s \in Surjection(1..n, S)
  BY <1>6, <1>7, FS_Injection DEF n
<1>9. Range(s) = S
  BY <1>3, <1>8 DEF Surjection, Range
<1> QED BY <1>4, <1>9 DEF s, n

-----------------------------------------------------------------------------
(* Sequences one after the other. *)

\* flat has the elements of the first m sequences of ss, in their order: an element of
\* it stands at a place of a part.
IsLaidOut(flat, ss, m, part, place) ==
  /\ part \in [1..Len(flat) -> 1..m]
  /\ place \in [1..Len(flat) -> Nat]
  /\ \A p \in 1..Len(flat) :
       place[p] \in 1..Len(ss[part[p]]) /\ flat[p] = ss[part[p]][place[p]]
  /\ \A p, q \in 1..Len(flat) :
       p < q => part[p] < part[q] \/ (part[p] = part[q] /\ place[p] < place[q])
  /\ \A k \in 1..m : \A i \in 1..Len(ss[k]) :
       \E p \in 1..Len(flat) : part[p] = k /\ place[p] = i

LEMMA LayOutOneMore ==
  ASSUME NEW n \in Nat, NEW ss \in [1..n -> Seq(Nat)], NEW m \in 1..n, m + 1 \in 1..n,
         NEW flat \in Seq(Nat), NEW part, NEW place, IsLaidOut(flat, ss, m, part, place)
  PROVE  \E part2, place2 : IsLaidOut(flat \o ss[m + 1], ss, m + 1, part2, place2)
<1> DEFINE a == Len(flat)
           b == Len(ss[m + 1])
           longer == flat \o ss[m + 1]
           part2 == [p \in 1..(a + b) |-> IF p <= a THEN part[p] ELSE m + 1]
           place2 == [p \in 1..(a + b) |-> IF p <= a THEN place[p] ELSE p - a]
<1>1. /\ a \in Nat /\ b \in Nat /\ Len(longer) = a + b
      /\ \A p \in 1..a : longer[p] = flat[p]
      /\ \A p \in 1..(a + b) : ~(p <= a) => longer[p] = ss[m + 1][p - a] /\ p - a \in 1..b
  <2>1. ss[m + 1] \in Seq(Nat)
    OBVIOUS
  <2> QED BY <2>1
<1>2. /\ part \in [1..a -> 1..m] /\ place \in [1..a -> Nat]
      /\ \A p \in 1..a : place[p] \in 1..Len(ss[part[p]]) /\ flat[p] = ss[part[p]][place[p]]
      /\ \A p, q \in 1..a :
           p < q => part[p] < part[q] \/ (part[p] = part[q] /\ place[p] < place[q])
      /\ \A k \in 1..m : \A i \in 1..Len(ss[k]) : \E p \in 1..a : part[p] = k /\ place[p] = i
  BY DEF IsLaidOut
<1>3. \A p \in 1..(a + b) : p <= a => p \in 1..a /\ part2[p] = part[p] /\ place2[p] = place[p]
  BY <1>1
<1>4. \A p \in 1..(a + b) : ~(p <= a) => part2[p] = m + 1 /\ place2[p] = p - a
  OBVIOUS
<1>5. \A p \in 1..(a + b) : part2[p] \in 1..(m + 1) /\ place2[p] \in Nat
  <2> SUFFICES ASSUME NEW p \in 1..(a + b)
               PROVE  part2[p] \in 1..(m + 1) /\ place2[p] \in Nat
    OBVIOUS
  <2>1. CASE p <= a
    <3>1. part[p] \in 1..m /\ place[p] \in Nat /\ part2[p] = part[p] /\ place2[p] = place[p]
      BY <1>2, <1>3, <2>1
    <3> HIDE DEF part2, place2
    <3> QED BY <3>1
  <2>2. CASE ~(p <= a)
    <3>1. part2[p] = m + 1 /\ place2[p] = p - a /\ p - a \in 1..b
      BY <1>1, <1>4, <2>2
    <3> HIDE DEF part2, place2
    <3> QED BY <1>1, <3>1
  <2> QED BY <2>1, <2>2
<1>6. part2 \in [1..(a + b) -> 1..(m + 1)] /\ place2 \in [1..(a + b) -> Nat]
  BY <1>5
<1>7. DOMAIN part2 = 1..(a + b)
  OBVIOUS
<1> HIDE DEF a, b, longer, part2, place2
<1>8. ASSUME NEW p \in 1..(a + b)
      PROVE  place2[p] \in 1..Len(ss[part2[p]]) /\ longer[p] = ss[part2[p]][place2[p]]
  <2>1. CASE p <= a
    BY <1>1, <1>2, <1>3, <2>1
  <2>2. CASE ~(p <= a)
    BY <1>1, <1>4, <2>2 DEF b
  <2> QED BY <2>1, <2>2
<1>9. ASSUME NEW p \in 1..(a + b), NEW q \in 1..(a + b), p < q
      PROVE  part2[p] < part2[q] \/ (part2[p] = part2[q] /\ place2[p] < place2[q])
  <2>1. CASE q <= a
    <3>1. p \in 1..a /\ q \in 1..a /\ part2[p] = part[p] /\ part2[q] = part[q]
            /\ place2[p] = place[p] /\ place2[q] = place[q]
      BY <1>1, <1>3, <1>9, <2>1
    <3> QED BY <1>2, <1>9, <3>1
  <2>2. CASE ~(q <= a) /\ p <= a
    <3>1. part2[p] \in 1..m /\ part2[q] = m + 1
      BY <1>2, <1>3, <1>4, <2>2
    <3> QED BY <3>1
  <2>3. CASE ~(q <= a) /\ ~(p <= a)
    <3>1. part2[p] = m + 1 /\ part2[q] = m + 1 /\ place2[p] = p - a /\ place2[q] = q - a
      BY <1>4, <2>3
    <3> QED BY <1>1, <1>9, <3>1
  <2> QED BY <2>1, <2>2, <2>3
<1>10. ASSUME NEW k \in 1..(m + 1), NEW i \in 1..Len(ss[k])
       PROVE  \E p \in 1..(a + b) : part2[p] = k /\ place2[p] = i
  <2>1. CASE k <= m
    <3>1. k \in 1..m
      BY <2>1
    <3>2. PICK p \in 1..a : part[p] = k /\ place[p] = i
      BY <1>2, <3>1
    <3>3. p \in 1..(a + b) /\ p <= a
      BY <1>1
    <3> QED BY <1>3, <3>2, <3>3
  <2>2. CASE k = m + 1
    <3>1. i \in 1..b
      BY <2>2 DEF b
    <3>2. a + i \in 1..(a + b) /\ ~(a + i <= a) /\ (a + i) - a = i
      BY <1>1, <3>1
    <3> QED BY <1>4, <2>2, <3>2
  <2> QED BY <2>1, <2>2
<1>11. IsLaidOut(longer, ss, m + 1, part2, place2)
  BY <1>1, <1>6, <1>8, <1>9, <1>10 DEF IsLaidOut
<1> QED BY <1>11 DEF longer

\* FlattenSeq lays out all of the sequences.
LEMMA FlattenLaysOut ==
  ASSUME NEW n \in Nat, NEW ss \in [1..n -> Seq(Nat)]
  PROVE  /\ FlattenSeq(ss) \in Seq(Nat)
         /\ \E part, place : IsLaidOut(FlattenSeq(ss), ss, n, part, place)
<1>1. Len(ss) = n
  OBVIOUS
<1>2. CASE n = 0
  <2>1. FlattenSeq(ss) = ss
    BY <1>1, <1>2 DEF FlattenSeq
  <2>2. ss \in Seq(Nat)
    BY <1>2
  <2>3. IsLaidOut(ss, ss, n, ss, ss)
    BY <1>1, <1>2 DEF IsLaidOut
  <2> QED BY <2>1, <2>2, <2>3
<1>3. CASE n # 0
  <2> DEFINE Step(f, i) == IF i = 1 THEN ss[i] ELSE f[i - 1] \o ss[i]
             Flattens(f) == f = [i \in 1..Len(ss) |-> Step(f, i)]
             Lays(f, m) == f[m] \in Seq(Nat) /\ \E part, place : IsLaidOut(f[m], ss, m, part, place)
             First(f, m) == f \in [1..m -> Seq(Nat)] /\ \A i \in 1..m : f[i] = Step(f, i)
             missing == {m \in 1..n : ~ \E f : First(f, m)}
  <2>1. missing = {}
    <3> SUFFICES ASSUME missing # {} PROVE FALSE
      OBVIOUS
    <3>1. missing \in SUBSET Nat
      OBVIOUS
    <3>2. PICK m \in missing : \A k \in missing : m <= k
      BY <3>1, LeastNumber
    <3>3. m \in 1..n /\ ~ \E f : First(f, m)
      BY <3>2
    <3>4. m # 1
      <4>1. First([i \in 1..1 |-> ss[1]], 1)
        BY <1>3
      <4> QED BY <3>3, <4>1
    <3>5. m - 1 \in 1..n /\ ~(m <= m - 1)
      BY <3>3, <3>4
    <3>6. PICK f : First(f, m - 1)
      BY <3>2, <3>5
    <3> DEFINE g == [i \in 1..m |-> IF i = m THEN f[m - 1] \o ss[m] ELSE f[i]]
    <3>7. ASSUME NEW i \in 1..m
          PROVE  g[i] \in Seq(Nat) /\ g[i] = Step(g, i)
      <4>1. CASE i = m
        <5>1. f[m - 1] \in Seq(Nat) /\ ss[m] \in Seq(Nat) /\ g[m - 1] = f[m - 1]
          BY <3>3, <3>4, <3>6
        <5>2. g[m] = f[m - 1] \o ss[m]
          BY <3>3
        <5> HIDE DEF g
        <5>3. Step(g, m) = g[m - 1] \o ss[m]
          BY <3>4
        <5>4. g[m] = Step(g, m)
          BY <5>1, <5>2, <5>3
        <5>5. f[m - 1] \o ss[m] \in Seq(Nat)
          BY <5>1
        <5> HIDE DEF Step
        <5> QED BY <4>1, <5>2, <5>4, <5>5
      <4>2. CASE i # m
        <5>1. i \in 1..(m - 1) /\ g[i] = f[i]
          BY <3>3, <4>2
        <5>2. i # 1 => g[i - 1] = f[i - 1]
          BY <3>3, <5>1
        <5>3. f[i] \in Seq(Nat) /\ f[i] = Step(f, i)
          BY <3>6, <5>1
        <5> QED BY <5>1, <5>2, <5>3
      <4> QED BY <4>1, <4>2
    <3>8. g \in [1..m -> Seq(Nat)]
      BY <3>7
    <3>9. First(g, m)
      BY <3>7, <3>8
    <3> HIDE DEF g, First
    <3> QED BY <3>3, <3>9
  <2>2. PICK f : First(f, n)
    <3>1. n \in 1..n
      BY <1>3
    <3> HIDE DEF First
    <3> QED BY <2>1, <3>1
  <2>3. Flattens(f)
    BY <1>1, <2>2
  <2> DEFINE flatten == CHOOSE f2 : Flattens(f2)
  <2>4. Flattens(flatten)
    <3> HIDE DEF Flattens
    <3> QED BY <2>3, Zenon
  <2>5. FlattenSeq(ss) = flatten[n]
    BY <1>1, <1>3 DEF FlattenSeq
  <2> HIDE DEF flatten
  <2>6. \A i \in 1..n : flatten[i] = Step(flatten, i)
    BY <1>1, <2>4
  <2> HIDE DEF Flattens
  <2> DEFINE wrong == {m \in 1..n : ~ Lays(flatten, m)}
  <2>7. wrong = {}
    <3> SUFFICES ASSUME wrong # {} PROVE FALSE
      OBVIOUS
    <3>1. wrong \in SUBSET Nat
      OBVIOUS
    <3>2. PICK m \in wrong : \A k \in wrong : m <= k
      BY <3>1, LeastNumber
    <3>3. m \in 1..n /\ ~ Lays(flatten, m)
      BY <3>2
    <3>4. CASE m = 1
      <4>1. flatten[1] = ss[1] /\ ss[1] \in Seq(Nat)
        BY <2>6, <3>3, <3>4
      <4> DEFINE l == Len(ss[1])
      <4>2. l \in Nat
        BY <4>1
      <4>3. IsLaidOut(ss[1], ss, 1, [p \in 1..l |-> 1], [p \in 1..l |-> p])
        BY <4>2 DEF IsLaidOut
      <4> QED BY <3>3, <3>4, <4>1, <4>3
    <3>5. CASE m # 1
      <4> DEFINE k == m - 1
      <4>1. k \in 1..n /\ k + 1 = m /\ ~(m <= k)
        BY <3>3, <3>5
      <4>2. Lays(flatten, k)
        BY <3>2, <4>1
      <4>3. flatten[m] = flatten[k] \o ss[m] /\ ss[m] \in Seq(Nat)
        BY <2>6, <3>3, <3>5
      <4> HIDE DEF k
      <4>4. flatten[m] \in Seq(Nat)
        BY <4>2, <4>3
      <4>5. \E part2, place2 : IsLaidOut(flatten[k] \o ss[k + 1], ss, k + 1, part2, place2)
        BY <3>3, <4>1, <4>2, LayOutOneMore
      <4> QED BY <3>3, <4>1, <4>3, <4>4, <4>5
    <3> QED BY <3>4, <3>5
  <2>8. n \in 1..n
    BY <1>3
  <2>9. Lays(flatten, n)
    BY <2>7, <2>8
  <2> QED BY <2>5, <2>9
<1> QED BY <1>2, <1>3

-----------------------------------------------------------------------------
(* What rows amount to that are read in parts. *)

\* The rows at offsets that were read one after the other.
RowsAt(rows, offsets) == [k \in DOMAIN offsets |-> rows[offsets[k]]]

\* The offsets come part by part, in their order within each.
ComeInParts(offsets, part) ==
  \A p, q \in DOMAIN offsets :
    p < q => part[p] < part[q] \/ (part[p] = part[q] /\ offsets[p] < offsets[q])

IsInPart(offsets, part, p, i) == \E q \in DOMAIN offsets : part[q] = part[p] /\ offsets[q] = i

\* The part of a row begins with the first row and reaches at least a known position.
IsWhole(offsets, part, known, p) ==
  \A i \in 1..offsets[p] \cup 1..known : IsInPart(offsets, part, p, i)

\* The part of a row begins behind a known position.
IsRest(offsets, part, known, p) ==
  offsets[p] > known /\ \A i \in (known + 1)..offsets[p] : IsInPart(offsets, part, p, i)

IsReading(rows, offsets, part, known) ==
  /\ offsets \in Seq(1..Len(rows))
  /\ offsets # <<>>
  /\ part \in [DOMAIN offsets -> Nat]
  /\ ComeInParts(offsets, part)
  /\ \A p \in DOMAIN offsets : IsWhole(offsets, part, known, p) \/ IsRest(offsets, part, known, p)

IsLastRowOf(rows, f, last) ==
  /\ last \in 1..Len(rows)
  /\ rows[last].file = f
  /\ \A i \in 1..Len(rows) : rows[i].file = f => i <= last

\* A place further on in the same or a later part.
LEMMA LaterInParts ==
  ASSUME NEW rows, NEW offsets, NEW part, NEW known \in Nat,
         IsReading(rows, offsets, part, known), Len(rows) \in Nat,
         NEW p \in DOMAIN offsets, NEW q \in DOMAIN offsets,
         part[p] <= part[q], offsets[p] < offsets[q]
  PROVE  p < q
<1>1. offsets \in Seq(Nat) /\ part \in [DOMAIN offsets -> Nat] /\ ComeInParts(offsets, part)
  BY DEF IsReading
<1>2. Len(offsets) \in Nat /\ DOMAIN offsets = 1..Len(offsets)
  BY <1>1
<1>3. /\ p \in Nat /\ q \in Nat /\ offsets[p] \in Nat /\ offsets[q] \in Nat
      /\ part[p] \in Nat /\ part[q] \in Nat
  BY <1>1, <1>2
<1>4. ~ q < p
  <2> SUFFICES ASSUME q < p PROVE FALSE
    OBVIOUS
  <2>1. part[q] < part[p] \/ (part[q] = part[p] /\ offsets[q] < offsets[p])
    BY <1>1 DEF ComeInParts
  <2> QED BY <1>3, <2>1
<1>5. p # q
  BY <1>3
<1> QED BY <1>3, <1>4, <1>5

\* The last row of a file is the last one read of it, if any is, unless it lies before
\* the known position and nothing of the file is read.
LEMMA LastRowIsReadLast ==
  ASSUME NEW rows, Len(rows) \in Nat, NEW offsets, NEW part, NEW known \in Nat,
         IsReading(rows, offsets, part, known),
         NEW f, NEW last, IsLastRowOf(rows, f, last), last <= offsets[Len(offsets)]
  PROVE  \/ /\ last <= known
            /\ IsRest(offsets, part, known, Len(offsets))
            /\ \A p \in DOMAIN offsets : rows[offsets[p]].file # f
         \/ \E p \in DOMAIN offsets :
              /\ offsets[p] = last
              /\ \A q \in DOMAIN offsets : rows[offsets[q]].file = f => q <= p
<1> DEFINE n == Len(offsets)
           Of(p) == rows[offsets[p]].file = f
           places == {p \in DOMAIN offsets : Of(p)}
<1>1. /\ offsets \in Seq(1..Len(rows)) /\ offsets # <<>> /\ part \in [DOMAIN offsets -> Nat]
      /\ ComeInParts(offsets, part)
      /\ \A p \in DOMAIN offsets : IsWhole(offsets, part, known, p) \/ IsRest(offsets, part, known, p)
  BY DEF IsReading
<1>2. n \in Nat /\ DOMAIN offsets = 1..n /\ n \in 1..n
  BY <1>1
<1>3. \A p \in 1..n : offsets[p] \in 1..Len(rows) /\ part[p] \in Nat
  BY <1>1, <1>2
<1>4. last \in 1..Len(rows) /\ rows[last].file = f /\ \A i \in 1..Len(rows) : rows[i].file = f => i <= last
  BY DEF IsLastRowOf
<1>5. \A q \in 1..n : offsets[q] = last => Of(q)
  BY <1>4
<1>6. last <= known \/ \E q \in 1..n : part[q] = part[n] /\ offsets[q] = last
  <2>1. CASE IsWhole(offsets, part, known, n)
    <3>1. last \in 1..offsets[n]
      BY <1>2, <1>3, <1>4
    <3> QED BY <1>2, <2>1, <3>1 DEF IsWhole, IsInPart
  <2>2. CASE IsRest(offsets, part, known, n) /\ ~(last <= known)
    <3>1. last \in (known + 1)..offsets[n]
      BY <1>2, <1>3, <1>4, <2>2
    <3> QED BY <1>2, <2>2, <3>1 DEF IsRest, IsInPart
  <2> QED BY <1>1, <1>2, <2>1, <2>2
<1>7. CASE places = {}
  <2>1. \A p \in 1..n : ~ Of(p)
    BY <1>2, <1>7
  <2>2. last <= known
    BY <1>5, <1>6, <2>1
  <2>3. ~ IsWhole(offsets, part, known, n)
    <3> SUFFICES ASSUME IsWhole(offsets, part, known, n) PROVE FALSE
      OBVIOUS
    <3>1. last \in 1..offsets[n]
      BY <1>2, <1>3, <1>4
    <3>2. \E q \in 1..n : offsets[q] = last
      BY <1>2, <3>1 DEF IsWhole, IsInPart
    <3> QED BY <1>5, <2>1, <3>2
  <2> QED BY <1>1, <1>2, <2>1, <2>2, <2>3
<1>8. CASE places # {}
  <2>1. places \in SUBSET (0..n)
    BY <1>2
  <2>2. PICK p \in places : \A q \in places : q <= p
    BY <1>2, <1>8, <2>1, GreatestNumber
  <2>3. p \in 1..n /\ Of(p) /\ \A q \in 1..n : Of(q) => q <= p
    BY <1>2, <2>2
  <2>4. offsets[p] \in 1..Len(rows) /\ offsets[p] <= last
    BY <1>3, <1>4, <2>3
  <2>5. \A q \in 1..n : part[p] <= part[q] => offsets[q] # last \/ offsets[p] = last
    <3> SUFFICES ASSUME NEW q \in 1..n, part[p] <= part[q], offsets[q] = last, offsets[p] # last
                 PROVE  FALSE
      OBVIOUS
    <3>1. offsets[p] < offsets[q]
      BY <1>4, <2>4
    <3>2. p < q
      BY <1>2, <2>3, <3>1, LaterInParts
    <3>3. q <= p
      BY <1>5, <2>3
    <3> QED BY <1>2, <2>3, <3>2, <3>3
  <2>6. part[p] <= part[n]
    <3>1. CASE p = n
      BY <1>2, <1>3, <3>1
    <3>2. CASE p # n
      <4>1. p < n
        BY <1>2, <2>3, <3>2
      <4>2. part[p] < part[n] \/ part[p] = part[n]
        BY <1>1, <1>2, <2>3, <4>1 DEF ComeInParts
      <4> QED BY <1>2, <1>3, <2>3, <4>2
    <3> QED BY <3>1, <3>2
  <2>7. offsets[p] = last
    <3>1. CASE \E q \in 1..n : part[q] = part[n] /\ offsets[q] = last
      BY <2>5, <2>6, <3>1
    <3>2. CASE last <= known
      <4> SUFFICES ASSUME offsets[p] # last PROVE FALSE
        OBVIOUS
      <4>1. ~ IsRest(offsets, part, known, p)
        BY <1>4, <2>4, <3>2 DEF IsRest
      <4>2. IsWhole(offsets, part, known, p)
        BY <1>1, <1>2, <2>3, <4>1
      <4>3. last \in 1..known
        BY <1>4, <3>2
      <4>4. \E q \in 1..n : part[q] = part[p] /\ offsets[q] = last
        BY <1>2, <4>2, <4>3 DEF IsWhole, IsInPart
      <4> QED BY <1>3, <2>3, <2>5, <4>4
    <3> QED BY <1>6, <3>1, <3>2
  <2> QED BY <1>2, <2>3, <2>7
<1> QED BY <1>7, <1>8

\* A file none of whose rows is read is neither added nor removed.
LEMMA UnreadIsUnchanged ==
  ASSUME NEW rows, NEW offsets \in Seq(Nat), NEW f,
         \A p \in DOMAIN offsets : rows[offsets[p]].file # f
  PROVE  /\ f \notin AddedEntities(RowsAt(rows, offsets), 1)
         /\ f \notin RemovedEntities(RowsAt(rows, offsets), 1)
<1>1. Len(offsets) \in Nat /\ DOMAIN offsets = 1..Len(offsets)
  OBVIOUS
<1>2. DOMAIN RowsAt(rows, offsets) = 1..Len(offsets) /\ Len(RowsAt(rows, offsets)) = Len(offsets)
        /\ \A p \in 1..Len(offsets) : RowsAt(rows, offsets)[p] = rows[offsets[p]]
  BY <1>1 DEF RowsAt
<1> QED BY <1>1, <1>2 DEF AddedEntities, RemovedEntities

\* If the last row read of a file is its last one, and retracts it, the file is removed.
LEMMA LastRetractRemoves ==
  ASSUME NEW rows \in Rows, NEW offsets \in Seq(1..Len(rows)), NEW f \in Files,
         NEW p \in DOMAIN offsets, rows[offsets[p]].file = f, rows[offsets[p]].op = "Retract",
         \A q \in DOMAIN offsets : rows[offsets[q]].file = f => q <= p
  PROVE  f \in RemovedEntities(RowsAt(rows, offsets), 1)
<1> DEFINE n == Len(offsets)
           read == RowsAt(rows, offsets)
<1>1. n \in Nat /\ DOMAIN offsets = 1..n /\ \A q \in 1..n : offsets[q] \in 1..Len(rows)
  OBVIOUS
<1>2. Len(read) = n /\ \A q \in 1..n : read[q] = rows[offsets[q]]
  BY <1>1 DEF RowsAt
<1>3. rows[offsets[p]] \in [op : RowOps, file : Files]
  <2>1. offsets[p] \in 1..Len(rows)
    BY <1>1
  <2> QED BY <2>1, ElementOfSeq DEF Rows
<1>4. read[p] = [op |-> "Retract", file |-> f]
  BY <1>1, <1>2, <1>3
<1> HIDE DEF read
<1>5. \A q \in p..n : read[q].file = f => read[q].op # "Append"
  <2> SUFFICES ASSUME NEW q \in p..n, read[q].file = f PROVE read[q].op # "Append"
    OBVIOUS
  <2>1. q \in 1..n /\ p \in 1..n
    BY <1>1
  <2>2. rows[offsets[q]].file = f
    BY <1>2, <2>1
  <2>3. q <= p
    BY <1>1, <2>1, <2>2
  <2>4. q = p
    BY <1>1, <2>1, <2>3
  <2> QED BY <1>4, <2>4
<1>6. p \in 1..n
  BY <1>1
<1> QED BY <1>2, <1>4, <1>5, <1>6 DEF RemovedEntities, read

\* If it is not a retraction, the file is added, and not removed: the row that took an
\* earlier retraction back has been read after it.
LEMMA LastOtherAdds ==
  ASSUME NEW rows \in Rows, IsKept(rows), NEW offsets, NEW part, NEW known \in Nat,
         IsReading(rows, offsets, part, known),
         NEW f \in Files, NEW p \in DOMAIN offsets, IsLastRowOf(rows, f, offsets[p]),
         rows[offsets[p]].op # "Retract",
         \A q \in DOMAIN offsets : rows[offsets[q]].file = f => q <= p
  PROVE  /\ f \in AddedEntities(RowsAt(rows, offsets), 1)
         /\ f \notin RemovedEntities(RowsAt(rows, offsets), 1)
<1> DEFINE n == Len(offsets)
           read == RowsAt(rows, offsets)
           last == offsets[p]
<1>0. Len(rows) \in Nat
  BY DEF Rows
<1>1. /\ offsets \in Seq(1..Len(rows)) /\ part \in [DOMAIN offsets -> Nat]
      /\ ComeInParts(offsets, part)
      /\ \A q \in DOMAIN offsets : IsWhole(offsets, part, known, q) \/ IsRest(offsets, part, known, q)
  BY DEF IsReading
<1>2. n \in Nat /\ DOMAIN offsets = 1..n /\ p \in 1..n
        /\ \A q \in 1..n : offsets[q] \in 1..Len(rows) /\ part[q] \in Nat
  BY <1>1
<1>3. Len(read) = n /\ \A q \in 1..n : read[q] = rows[offsets[q]]
  BY <1>2 DEF RowsAt
<1> HIDE DEF read
<1>4. f \in AddedEntities(read, 1)
  <2>1. \A q \in p..n : read[q].file = f => read[q].op # "Retract"
    <3> SUFFICES ASSUME NEW q \in p..n, read[q].file = f PROVE read[q].op # "Retract"
      OBVIOUS
    <3>1. q \in 1..n
      BY <1>2
    <3>2. rows[offsets[q]].file = f
      BY <1>3, <3>1
    <3>3. q <= p
      BY <1>2, <3>1, <3>2
    <3>4. q = p
      BY <1>2, <3>1, <3>3
    <3> QED BY <1>2, <1>3, <3>4
  <2>2. read[p].file = f
    BY <1>2, <1>3 DEF IsLastRowOf
  <2> QED BY <1>2, <1>3, <2>1, <2>2 DEF AddedEntities
<1>5. f \notin RemovedEntities(read, 1)
  <2> SUFFICES ASSUME f \in RemovedEntities(read, 1) PROVE FALSE
    OBVIOUS
  <2>1. PICK r \in 1..n : /\ read[r] = [op |-> "Retract", file |-> f]
                          /\ \A q \in r..n : read[q].file = f => read[q].op # "Append"
    BY <1>3 DEF RemovedEntities
  <2>2. rows[offsets[r]].op = "Retract" /\ rows[offsets[r]].file = f
    BY <1>3, <2>1
  <2>3. r <= p /\ r # p
    BY <1>2, <2>2
  <2>4. offsets[r] < last
    <3>1. offsets[r] \in 1..Len(rows) /\ offsets[r] <= last /\ last \in 1..Len(rows)
      BY <1>2, <2>1, <2>2 DEF IsLastRowOf
    <3>2. offsets[r] # last
      BY <2>2
    <3> QED BY <1>0, <3>1, <3>2
  <2>5. rows[last].file = f /\ last \in 1..Len(rows)
    BY DEF IsLastRowOf
  <2>6. PICK j \in (offsets[r] + 1)..last : rows[j].op = "Append" /\ rows[j].file = f
    BY <1>2, <2>1, <2>2, <2>4, <2>5 DEF IsKept
  <2>7. j \in Nat /\ j >= 1 /\ offsets[r] < j /\ j <= last
    BY <1>0, <1>2, <2>1, <2>5
  <2>8. part[r] <= part[p]
    <3>1. r < p
      BY <1>2, <2>1, <2>3
    <3>2. part[r] < part[p] \/ part[r] = part[p]
      BY <1>1, <1>2, <2>1, <3>1 DEF ComeInParts
    <3> QED BY <1>2, <2>1, <3>2
  <2>9. \E q \in 1..n : part[r] <= part[q] /\ offsets[q] = j
    <3>1. CASE IsWhole(offsets, part, known, p)
      <4>1. j \in 1..offsets[p]
        BY <1>0, <2>5, <2>7
      <4>2. PICK q \in 1..n : part[q] = part[p] /\ offsets[q] = j
        BY <1>2, <3>1, <4>1 DEF IsWhole, IsInPart
      <4> QED BY <2>8, <4>2
    <3>2. CASE IsRest(offsets, part, known, p) /\ j > known
      <4>1. j \in (known + 1)..offsets[p]
        BY <1>0, <2>5, <2>7, <3>2
      <4>2. PICK q \in 1..n : part[q] = part[p] /\ offsets[q] = j
        BY <1>2, <3>2, <4>1 DEF IsRest, IsInPart
      <4> QED BY <2>8, <4>2
    <3>3. CASE ~(j > known)
      <4>1. j \in 1..known /\ ~(offsets[r] > known)
        BY <1>0, <1>2, <2>1, <2>7, <3>3
      <4>2. IsWhole(offsets, part, known, r)
        BY <1>1, <1>2, <2>1, <4>1 DEF IsRest
      <4>3. PICK q \in 1..n : part[q] = part[r] /\ offsets[q] = j
        BY <1>2, <4>1, <4>2 DEF IsWhole, IsInPart
      <4> QED BY <1>2, <2>1, <4>3
    <3> QED BY <1>1, <1>2, <3>1, <3>2, <3>3
  <2>10. PICK q \in 1..n : part[r] <= part[q] /\ offsets[q] = j
    BY <2>9
  <2>11. offsets[r] < offsets[q]
    BY <2>7, <2>10
  <2>12. r < q
    BY <1>0, <1>2, <2>1, <2>10, <2>11, LaterInParts
  <2>13. q \in r..n /\ read[q] = rows[j]
    BY <1>2, <1>3, <2>1, <2>10, <2>12
  <2> QED BY <2>1, <2>6, <2>13
<1> QED BY <1>4, <1>5 DEF read

-----------------------------------------------------------------------------
(* What is handed on of a file, load by load. *)

\* What a file's changes come to, by what was read of it.
StatusOf(read, ls, f, before) ==
  IF f \in read.removed_entities THEN "removed"
  ELSE IF f \in read.added_entities /\ ls[f] # NoLevel THEN "added"
  ELSE before

\* The changes are about the files that were removed or added with a level.
ChangesFollow(changes, read, ls, f) ==
  /\ [file |-> f, change |-> Removed] \in changes <=> f \in read.removed_entities
  /\ (\E c \in changes : c.file = f) <=>
       (f \in read.removed_entities \/ (f \in read.added_entities /\ ls[f] # NoLevel))

LEMMA ChangesGiveStatus ==
  ASSUME NEW changes, NEW read, NEW ls, NEW f, NEW before, ChangesFollow(changes, read, ls, f)
  PROVE  Report(changes, f, before) = StatusOf(read, ls, f, before)
BY DEF Report, StatusOf, ChangesFollow

LEMMA EntriesChangesFollow ==
  ASSUME NEW read, NEW ls \in LevelMaps, NEW f \in Files, IsRead(read)
  PROVE  ChangesFollow(EntriesChanges("Append", read.added_entities, read.removed_entities, ls),
                       read, ls, f)
<1> DEFINE changes == EntriesChanges("Append", read.added_entities, read.removed_entities, ls)
<1>1. \A c : c \in changes <=>
        \/ \E g \in read.added_entities : ls[g] # NoLevel /\ c = [file |-> g, change |-> ls[g]]
        \/ \E g \in read.removed_entities : c = [file |-> g, change |-> Removed]
  BY DEF EntriesChanges
<1>2. \A g \in read.added_entities : ls[g] # NoLevel => ls[g] # Removed
  BY NoLevelAssumption DEF LevelMaps, IsRead
<1> HIDE DEF changes
<1>3. [file |-> f, change |-> Removed] \in changes <=> f \in read.removed_entities
  BY <1>1, <1>2
<1>4. (\E c \in changes : c.file = f) <=>
        (f \in read.removed_entities \/ (f \in read.added_entities /\ ls[f] # NoLevel))
  <2>1. ASSUME NEW c \in changes, c.file = f
        PROVE  f \in read.removed_entities \/ (f \in read.added_entities /\ ls[f] # NoLevel)
    BY <1>1, <2>1
  <2>2. ASSUME f \in read.removed_entities PROVE \E c \in changes : c.file = f
    <3>1. [file |-> f, change |-> Removed].file = f
      OBVIOUS
    <3> QED BY <1>3, <2>2, <3>1
  <2>3. ASSUME f \in read.added_entities, ls[f] # NoLevel PROVE \E c \in changes : c.file = f
    <3>1. [file |-> f, change |-> ls[f]] \in changes
      BY <1>1, <2>3
    <3>2. [file |-> f, change |-> ls[f]].file = f
      OBVIOUS
    <3> QED BY <3>1, <3>2
  <2> QED BY <2>1, <2>2, <2>3
<1> QED BY <1>3, <1>4 DEF ChangesFollow, changes

LEMMA ProcessNewFollows ==
  ASSUME NEW read, NEW ls \in LevelMaps, NEW f \in Files, IsRead(read)
  PROVE  ChangesFollow(ProcessNew("Append", read, ls).changes, read, ls, f)
BY EntriesChangesFollow DEF ProcessNew

\* Levels change of files that were read in the same load only.
LEMMA ProcessExistingFollows ==
  ASSUME NEW project, project.op = "Append", NEW read, NEW ls \in LevelMaps, NEW f \in Files,
         IsRead(read)
  PROVE  ChangesFollow(ProcessExisting(project, read, ls).changes, read, ls, f)
<1> DEFINE added == read.added_entities
           removed == read.removed_entities
           actual == ActualFiles(project.actual_files_map, added, removed, ls)
           of_rows == EntriesChanges("Append", added, removed, ls)
           of_levels == LevelChanges("Append", actual, ls)
<1>1. ProcessExisting(project, read, ls).changes = of_rows \cup of_levels
  BY DEF ProcessExisting
<1>2. \A g \in DOMAIN actual : g \in removed \/ (g \in added /\ ls[g] # NoLevel)
  BY DEF ActualFiles, AddedWithLevel
<1>3. \A c \in of_levels : \E g \in DOMAIN actual :
        c = [file |-> g, change |-> ls[g]] /\ ls[g] # NoLevel
  BY DEF LevelChanges
<1>4. \A g \in DOMAIN actual : ls[g] # NoLevel => ls[g] # Removed
  <2>1. \A g \in DOMAIN actual : g \in Files
    BY <1>2 DEF IsRead
  <2> HIDE DEF actual
  <2> QED BY <2>1, NoLevelAssumption DEF LevelMaps
<1>5. ChangesFollow(of_rows, read, ls, f)
  BY EntriesChangesFollow
<1> HIDE DEF actual, of_rows, of_levels
<1>6. \A c \in of_levels : c.file = f => f \in removed \/ (f \in added /\ ls[f] # NoLevel)
  BY <1>2, <1>3
<1>7. [file |-> f, change |-> Removed] \notin of_levels
  BY <1>3, <1>4
<1>8. ChangesFollow(of_rows \cup of_levels, read, ls, f)
  BY <1>5, <1>6, <1>7 DEF ChangesFollow
<1> QED BY <1>1, <1>8

\* What was handed on of a file is what its ledger says, but for a missing level.
Agrees(rows, f, status, unlevel) ==
  IF f \in AddedEntities(rows, 1) THEN status = "added" \/ unlevel ELSE status # "added"

\* No row of a file is beyond a position.
IsReadUpTo(rows, f, position) == \A i \in 1..Len(rows) : rows[i].file = f => i <= position

LEMMA LastRowDecides ==
  ASSUME NEW rows, Len(rows) \in Nat, NEW f \in Files, NEW last, IsLastRowOf(rows, f, last)
  PROVE  f \in AddedEntities(rows, 1) <=> rows[last].op # "Retract"
<1>1. last \in 1..Len(rows) /\ rows[last].file = f
        /\ \A i \in 1..Len(rows) : rows[i].file = f => i <= last
  BY DEF IsLastRowOf
<1>2. ASSUME rows[last].op # "Retract" PROVE f \in AddedEntities(rows, 1)
  <2>1. \A j \in last..Len(rows) : rows[j].file = f => rows[j].op # "Retract"
    <3> SUFFICES ASSUME NEW j \in last..Len(rows), rows[j].file = f
                 PROVE  rows[j].op # "Retract"
      OBVIOUS
    <3>1. j \in 1..Len(rows) /\ j >= last
      BY <1>1
    <3>2. j = last
      BY <1>1, <3>1
    <3> QED BY <1>2, <3>2
  <2> QED BY <1>1, <2>1 DEF AddedEntities
<1>3. ASSUME f \in AddedEntities(rows, 1) PROVE rows[last].op # "Retract"
  <2>1. PICK i \in 1..Len(rows) :
          /\ rows[i].file = f
          /\ \A j \in i..Len(rows) : rows[j].file = f => rows[j].op # "Retract"
    BY <1>3 DEF AddedEntities
  <2>2. last \in i..Len(rows)
    BY <1>1, <2>1
  <2> QED BY <1>1, <2>1, <2>2
<1> QED BY <1>2, <1>3

\* A load keeps agreement, of every file none of whose rows is beyond where it ends: if it
\* was there before, or the file has rows beyond where the load began.
LEMMA ReadingAgrees ==
  ASSUME NEW rows \in Rows, IsKept(rows), NEW offsets, NEW part, NEW known \in Nat,
         IsReading(rows, offsets, part, known),
         NEW read, read.added_entities = AddedEntities(RowsAt(rows, offsets), 1),
         read.removed_entities = RemovedEntities(RowsAt(rows, offsets), 1),
         NEW ls, NEW f \in Files, NEW before, NEW unlevel \in BOOLEAN,
         IsReadUpTo(rows, f, offsets[Len(offsets)]),
         IsReadUpTo(rows, f, known) => Agrees(rows, f, before, unlevel)
  PROVE  Agrees(rows, f, StatusOf(read, ls, f, before),
                unlevel \/ (f \in read.added_entities /\ ls[f] = NoLevel))
<1> DEFINE places == {i \in 1..Len(rows) : rows[i].file = f}
<1>1. Len(rows) \in Nat
  BY DEF Rows
<1>2. offsets \in Seq(1..Len(rows)) /\ offsets \in Seq(Nat)
  BY DEF IsReading
<1>3. ASSUME \A p \in DOMAIN offsets : rows[offsets[p]].file # f, IsReadUpTo(rows, f, known)
      PROVE  Agrees(rows, f, StatusOf(read, ls, f, before),
                    unlevel \/ (f \in read.added_entities /\ ls[f] = NoLevel))
  <2>1. f \notin read.added_entities /\ f \notin read.removed_entities
    BY <1>2, <1>3, UnreadIsUnchanged
  <2> QED BY <1>3, <2>1 DEF StatusOf, Agrees
<1>4. CASE places = {}
  <2>1. \A i \in 1..Len(rows) : rows[i].file # f
    BY <1>4
  <2>2. \A p \in DOMAIN offsets : rows[offsets[p]].file # f
    <3> SUFFICES ASSUME NEW p \in DOMAIN offsets PROVE rows[offsets[p]].file # f
      OBVIOUS
    <3>1. offsets[p] \in 1..Len(rows)
      BY <1>2
    <3> QED BY <2>1, <3>1
  <2> QED BY <1>3, <2>1, <2>2 DEF IsReadUpTo
<1>5. CASE places # {}
  <2>1. places \in SUBSET (0..Len(rows))
    OBVIOUS
  <2>2. PICK last \in places : \A i \in places : i <= last
    BY <1>1, <1>5, <2>1, GreatestNumber
  <2>3. IsLastRowOf(rows, f, last)
    BY <2>2 DEF IsLastRowOf
  <2>4. last <= offsets[Len(offsets)]
    BY <2>2 DEF IsReadUpTo
  <2>5. CASE last <= known /\ \A p \in DOMAIN offsets : rows[offsets[p]].file # f
    <3>1. IsReadUpTo(rows, f, known)
      <4> SUFFICES ASSUME NEW i \in 1..Len(rows), rows[i].file = f PROVE i <= known
        BY DEF IsReadUpTo
      <4>1. i <= last /\ i \in Nat /\ last \in Nat
        BY <1>1, <2>2
      <4> QED BY <2>5, <4>1
    <3> QED BY <1>3, <2>5, <3>1
  <2>6. CASE \E p \in DOMAIN offsets :
               /\ offsets[p] = last
               /\ \A q \in DOMAIN offsets : rows[offsets[q]].file = f => q <= p
    <3>1. PICK p \in DOMAIN offsets :
            /\ offsets[p] = last
            /\ \A q \in DOMAIN offsets : rows[offsets[q]].file = f => q <= p
      BY <2>6
    <3>2. rows[last].file = f
      BY <2>2
    <3>3. f \in AddedEntities(rows, 1) <=> rows[last].op # "Retract"
      BY <1>1, <2>3, LastRowDecides
    <3>4. CASE rows[last].op = "Retract"
      <4>1. f \in read.removed_entities
        BY <1>2, <3>1, <3>2, <3>4, LastRetractRemoves
      <4>2. StatusOf(read, ls, f, before) = "removed"
        BY <4>1 DEF StatusOf
      <4> QED BY <3>3, <3>4, <4>2 DEF Agrees
    <3>5. CASE rows[last].op # "Retract"
      <4>1. f \in read.added_entities /\ f \notin read.removed_entities
        BY <2>3, <3>1, <3>5, LastOtherAdds
      <4>2. ls[f] # NoLevel => StatusOf(read, ls, f, before) = "added"
        BY <4>1 DEF StatusOf
      <4> QED BY <3>3, <3>5, <4>1, <4>2 DEF Agrees
    <3> QED BY <3>4, <3>5
  <2> QED BY <1>1, <2>3, <2>4, <2>5, <2>6, LastRowIsReadLast
<1> QED BY <1>4, <1>5

-----------------------------------------------------------------------------
(* Answers. *)

\* Rows of data rooms are ordered by room and offset.
IsRow(r) == r[1] \in Nat /\ r[2] \in Nat

\* An answer that has a row has every row asked for that comes before it.
LEMMA FirstRowsAreFirst ==
  ASSUME NEW rows, IsFiniteSet(rows), \A r \in rows : IsRow(r),
         NEW r \in rows, NEW o, NEW j \in Nat, r[1] = o, r[2] <= j,
         <<o, j>> \in FirstRows(rows)
  PROVE  <<o, r[2]>> \in FirstRows(rows)
<1> DEFINE Earlier(s) == {q \in rows : Before(q, s)}
<1>1. PICK s \in rows : <<o, j>> = <<s[1], s[2]>> /\ Cardinality(Earlier(s)) < MAX_SQL_QUERY_LIMIT
  BY DEF FirstRows
<1>2. s[1] = o /\ s[2] = j
  BY <1>1
<1>3. IsRow(r) /\ IsRow(s)
  OBVIOUS
<1>4. \A q \in rows : Before(q, r) => Before(q, s)
  <2> SUFFICES ASSUME NEW q \in rows, Before(q, r) PROVE Before(q, s)
    OBVIOUS
  <2>1. IsRow(q)
    OBVIOUS
  <2> QED BY <1>2, <1>3, <2>1 DEF Before, IsRow
<1>5. Earlier(r) \in SUBSET Earlier(s)
  BY <1>4
<1>6. IsFiniteSet(Earlier(s))
  BY FS_Subset
<1>7. IsFiniteSet(Earlier(r)) /\ Cardinality(Earlier(r)) <= Cardinality(Earlier(s))
  BY <1>5, <1>6, FS_Subset
<1>8. Cardinality(Earlier(r)) \in Nat /\ Cardinality(Earlier(s)) \in Nat
  BY <1>6, <1>7, FS_CardinalityType
<1>9. Cardinality(Earlier(r)) < MAX_SQL_QUERY_LIMIT
  BY <1>1, <1>7, <1>8, LimitsAssumption
<1>10. <<r[1], r[2]>> \in FirstRows(rows)
  BY <1>9 DEF FirstRows
<1> QED BY <1>10

Requests == Seq([room : OclIds, offset : Nat \ {0}])

\* The rows a batch asks for, one by one.
LEMMA MatchingRowsAre ==
  ASSUME NEW b, NEW row
  PROVE  row \in MatchingRows(b) <=>
           \E o \in OclIds : \E i \in DOMAIN rooms[o] : \E k \in DOMAIN data_rooms :
             /\ row = <<o, i, k>>
             /\ BatchOf(k) = b /\ data_rooms[k].room = o /\ data_rooms[k].offset <= i
<1> DEFINE all == UNION {{<<o, i, k>> : i \in DOMAIN rooms[o], k \in DOMAIN data_rooms} : o \in OclIds}
<1>1. row \in MatchingRows(b) <=>
        /\ row \in all
        /\ BatchOf(row[3]) = b /\ data_rooms[row[3]].room = row[1]
        /\ data_rooms[row[3]].offset <= row[2]
  BY DEF MatchingRows
<1>2. row \in all <=> \E o \in OclIds : \E i \in DOMAIN rooms[o] : \E k \in DOMAIN data_rooms :
                        row = <<o, i, k>>
  OBVIOUS
<1> HIDE DEF all
<1> QED BY <1>1, <1>2

LEMMA MatchingRowsAreFinite ==
  ASSUME NEW b, rooms \in [OclIds -> Rows], data_rooms \in Requests
  PROVE  IsFiniteSet(MatchingRows(b)) /\ \A r \in MatchingRows(b) : IsRow(r)
<1> DEFINE Of(o) == {<<o, i, k>> : i \in DOMAIN rooms[o], k \in DOMAIN data_rooms}
           all == UNION {Of(o) : o \in OclIds}
<1>1. ASSUME NEW o \in OclIds PROVE IsFiniteSet(Of(o)) /\ DOMAIN rooms[o] \subseteq Nat
  <2>1. rooms[o] \in Rows
    OBVIOUS
  <2>2. Len(rooms[o]) \in Nat /\ DOMAIN rooms[o] = 1..Len(rooms[o])
    BY <2>1 DEF Rows
  <2>3. Len(data_rooms) \in Nat /\ DOMAIN data_rooms = 1..Len(data_rooms)
    BY DEF Requests
  <2>4. IsFiniteSet(DOMAIN rooms[o]) /\ IsFiniteSet(DOMAIN data_rooms)
    BY <2>2, <2>3, FS_Interval
  <2> DEFINE pairs == (DOMAIN rooms[o]) \X (DOMAIN data_rooms)
             triple == [pair \in pairs |-> <<o, pair[1], pair[2]>>]
  <2>5. IsFiniteSet(pairs)
    BY <2>4, FS_Product
  <2>6. triple \in Surjection(pairs, Of(o))
    <3>1. \A pair \in pairs : triple[pair] \in Of(o)
      OBVIOUS
    <3>2. triple \in [pairs -> Of(o)]
      BY <3>1
    <3>3. ASSUME NEW t \in Of(o) PROVE \E pair \in pairs : triple[pair] = t
      <4>1. PICK i \in DOMAIN rooms[o], k \in DOMAIN data_rooms : t = <<o, i, k>>
        OBVIOUS
      <4>2. <<i, k>> \in pairs /\ triple[<<i, k>>] = <<o, i, k>>
        OBVIOUS
      <4> HIDE DEF triple, pairs
      <4> QED BY <4>1, <4>2
    <3> HIDE DEF triple, pairs, Of
    <3> QED BY <3>2, <3>3 DEF Surjection
  <2> QED BY <2>2, <2>5, <2>6, FS_Surjection
<1>2. IsFiniteSet(OclIds) /\ OclIds \subseteq Nat
  BY OclIdsAssumption
<1>3. IsFiniteSet({Of(o) : o \in OclIds})
  <2> DEFINE of == [o \in OclIds |-> Of(o)]
             parts == {Of(o) : o \in OclIds}
  <2>1. of \in Surjection(OclIds, parts)
    <3>1. of \in [OclIds -> parts] /\ \A t \in parts : \E o \in OclIds : of[o] = t
      <4> HIDE DEF Of
      <4> QED OBVIOUS
    <3> HIDE DEF of, parts
    <3> QED BY <3>1 DEF Surjection
  <2> HIDE DEF of, parts
  <2>2. IsFiniteSet(parts)
    BY <1>2, <2>1, FS_Surjection
  <2> QED BY <2>2 DEF parts
<1>4. IsFiniteSet(all)
  <2>1. \A t \in {Of(o) : o \in OclIds} : IsFiniteSet(t)
    <3> HIDE DEF Of
    <3> QED BY <1>1
  <2> HIDE DEF Of
  <2> QED BY <1>3, <2>1, FS_UNION
<1>5. MatchingRows(b) \in SUBSET all
  BY DEF MatchingRows
<1>6. IsFiniteSet(MatchingRows(b))
  <2> HIDE DEF all
  <2> QED BY <1>4, <1>5, FS_Subset
<1> HIDE DEF Of
<1>7. ASSUME NEW r \in MatchingRows(b) PROVE IsRow(r)
  <2>1. PICK o \in OclIds : \E i \in DOMAIN rooms[o] : \E k \in DOMAIN data_rooms : r = <<o, i, k>>
    BY MatchingRowsAre
  <2>3. PICK i \in DOMAIN rooms[o] : \E k \in DOMAIN data_rooms : r = <<o, i, k>>
    BY <2>1
  <2>2. o \in Nat /\ i \in Nat /\ r[1] = o /\ r[2] = i
    <3>1. DOMAIN rooms[o] \subseteq Nat
      BY <1>1
    <3> QED BY <1>2, <2>3, <3>1
  <2> QED BY <2>2 DEF IsRow
<1> QED BY <1>6, <1>7

\* What an answer is: rows of rooms the batch asks for, from an offset asked for on, and
\* with a row all of the room's from any offset asked for up to it.
LEMMA AnswerIs ==
  ASSUME NEW b, rooms \in [OclIds -> Rows], data_rooms \in Requests
  PROVE  LET answer == FirstRows(MatchingRows(b))
         IN  /\ \A row \in answer : \E o \in OclIds : \E i \in DOMAIN rooms[o] :
                  /\ row = <<o, i>>
                  /\ \E k \in DOMAIN data_rooms :
                       BatchOf(k) = b /\ data_rooms[k].room = o /\ data_rooms[k].offset <= i
             /\ \A o \in OclIds : \A j \in DOMAIN rooms[o] : <<o, j>> \in answer =>
                  \A k \in DOMAIN data_rooms :
                    (BatchOf(k) = b /\ data_rooms[k].room = o) =>
                      \A i \in data_rooms[k].offset..j : <<o, i>> \in answer
<1> DEFINE rows == MatchingRows(b)
           answer == FirstRows(rows)
<1>1. IsFiniteSet(rows) /\ \A r \in rows : IsRow(r)
  BY MatchingRowsAreFinite
<1>2. ASSUME NEW row \in answer
      PROVE  \E o \in OclIds : \E i \in DOMAIN rooms[o] :
               /\ row = <<o, i>>
               /\ \E k \in DOMAIN data_rooms :
                    BatchOf(k) = b /\ data_rooms[k].room = o /\ data_rooms[k].offset <= i
  <2>1. PICK r \in rows : row = <<r[1], r[2]>>
    BY DEF FirstRows
  <2>4. PICK o \in OclIds : \E i \in DOMAIN rooms[o] : \E k \in DOMAIN data_rooms :
             /\ r = <<o, i, k>>
             /\ BatchOf(k) = b /\ data_rooms[k].room = o /\ data_rooms[k].offset <= i
    BY MatchingRowsAre
  <2>2. PICK i \in DOMAIN rooms[o] : \E k \in DOMAIN data_rooms :
             /\ r = <<o, i, k>>
             /\ BatchOf(k) = b /\ data_rooms[k].room = o /\ data_rooms[k].offset <= i
    BY <2>4
  <2>3. r[1] = o /\ r[2] = i
    BY <2>2
  <2> QED BY <2>1, <2>2, <2>3
<1>3. ASSUME NEW o \in OclIds, NEW j \in DOMAIN rooms[o], <<o, j>> \in answer,
             NEW k \in DOMAIN data_rooms, BatchOf(k) = b, data_rooms[k].room = o,
             NEW i \in data_rooms[k].offset..j
      PROVE  <<o, i>> \in answer
  <2>1. data_rooms[k] \in [room : OclIds, offset : Nat \ {0}]
    <3>1. k \in 1..Len(data_rooms)
      BY DEF Requests
    <3> QED BY <3>1, ElementOfSeq DEF Requests
  <2>2. data_rooms[k].offset \in Nat /\ data_rooms[k].offset >= 1
    BY <2>1
  <2>3. rooms[o] \in Rows
    OBVIOUS
  <2>4. i \in DOMAIN rooms[o] /\ i <= j /\ data_rooms[k].offset <= i /\ i \in Nat /\ j \in Nat
    BY <2>2, <2>3 DEF Rows
  <2>5. <<o, i, k>> \in rows
    BY <1>3, <2>4, MatchingRowsAre
  <2> DEFINE r == <<o, i, k>>
  <2>6. r[1] = o /\ r[2] = i
    OBVIOUS
  <2> HIDE DEF r
  <2>7. r \in rows
    BY <2>5 DEF r
  <2> HIDE DEF rows
  <2>8. <<o, r[2]>> \in FirstRows(rows)
    BY <1>1, <1>3, <2>4, <2>6, <2>7, FirstRowsAreFirst
  <2> QED BY <2>6, <2>8
<1> QED BY <1>2, <1>3

-----------------------------------------------------------------------------
(* The program's state. *)

\* A room is asked for from its first row, or from the one after a known position.
IsRequest(request) ==
  \/ request = FullScan(request.room)
  \/ request.room \in Known /\ request = NextRow(request.room)

\* Answers have rows of rooms, files are retracted and corrected only when they are there,
\* and rooms are asked for from where the last load ended.
Shape ==
  /\ \A b \in DOMAIN batch_results : batch_results[b] \subseteq OclIds \X Nat
  /\ \A o \in OclIds : IsKept(rooms[o])
  /\ \A k \in DOMAIN data_rooms : IsRequest(data_rooms[k])

TypeShape == TypeOK /\ Shape

LEMMA FirstRoomsAreKept ==
  ASSUME NEW rows \in FirstRooms
  PROVE  rows \in Rows /\ IsKept(rows)
<1>1. PICK n \in 0..MaxFirstRows : rows \in [1..n -> [op : RowOps, file : Files]]
  BY DEF FirstRooms
<1>2. rows \in Rows /\ n \in Nat /\ Len(rows) = n /\ DOMAIN rows = 1..n
  <2>1. n \in Nat
    BY BoundsAssumption
  <2> QED BY <1>1, <2>1, FunctionIsSeq DEF Rows
<1>3. \A i \in 1..n : CanFollow(SubSeq(rows, 1, i - 1), rows[i])
  BY <1>2 DEF FirstRooms
<1> DEFINE bad == {m \in 0..n : ~ IsKept(SubSeq(rows, 1, m))}
<1>4. bad = {}
  <2> SUFFICES ASSUME bad # {} PROVE FALSE
    OBVIOUS
  <2>1. bad \in SUBSET Nat
    BY <1>2
  <2>2. PICK m \in bad : \A k \in bad : m <= k
    BY <2>1, LeastNumber
  <2>3. m \in 0..n /\ ~ IsKept(SubSeq(rows, 1, m))
    BY <2>2
  <2>4. CASE m = 0
    <3>1. Len(SubSeq(rows, 1, 0)) = 0
      BY <1>2 DEF Rows
    <3>2. IsKept(SubSeq(rows, 1, 0))
      BY <3>1 DEF IsKept
    <3> QED BY <2>3, <2>4, <3>2
  <2>5. CASE m # 0
    <3> DEFINE first == SubSeq(rows, 1, m - 1)
    <3>1. m - 1 \in 0..n /\ ~(m <= m - 1) /\ m \in 1..n
      BY <1>2, <2>3, <2>5
    <3>2. IsKept(first)
      BY <2>2, <3>1
    <3>3. first \in Rows /\ rows[m] \in [op : RowOps, file : Files]
      <4>1. rows[m] \in [op : RowOps, file : Files]
        BY <1>1, <3>1
      <4>2. first \in Rows
        BY <1>2, <3>1, PrefixOfSeq DEF Rows
      <4> QED BY <4>1, <4>2
    <3>4. SubSeq(rows, 1, m) = Append(first, rows[m])
      BY <1>2, <3>1 DEF Rows
    <3>5. rows[m].op # "Append" => rows[m].file \in AddedEntities(first, 1)
      BY <1>3, <3>1 DEF CanFollow
    <3> HIDE DEF first
    <3>6. IsKept(Append(first, rows[m]))
      BY <3>2, <3>3, <3>5, KeptAppend
    <3> QED BY <2>3, <3>4, <3>6
  <2> QED BY <2>4, <2>5
<1>5. SubSeq(rows, 1, n) = rows
  BY <1>2 DEF Rows
<1>6. n \in 0..n
  BY <1>2
<1> QED BY <1>2, <1>4, <1>5, <1>6

LEMMA FirstProjectsType ==
  ASSUME NEW ps \in SetToAllKPermutations([op : {"Append"}, ocl_id : OclIds])
  PROVE  ps \in Seq([op : ProjectOps, ocl_id : OclIds])
<1> DEFINE all == [op : {"Append"}, ocl_id : OclIds]
           row == [o \in OclIds |-> [op |-> "Append", ocl_id |-> o]]
<1>1. row \in Surjection(OclIds, all)
  <2>1. row \in [OclIds -> all]
    OBVIOUS
  <2>2. \A r \in all : \E o \in OclIds : row[o] = r
    OBVIOUS
  <2> HIDE DEF row, all
  <2> QED BY <2>1, <2>2 DEF Surjection
<1>2. IsFiniteSet(all)
  <2> HIDE DEF row, all
  <2> QED BY <1>1, OclIdsAssumption, FS_Surjection
<1>3. PICK s \in SUBSET all : ps \in SetToSeqs(s)
  BY DEF SetToAllKPermutations
<1>4. Cardinality(s) \in Nat
  <2> HIDE DEF all
  <2>1. IsFiniteSet(s)
    BY <1>2, FS_Subset
  <2> QED BY <2>1, FS_CardinalityType
<1>5. ps \in [1..Cardinality(s) -> s]
  BY <1>3 DEF SetToSeqs
<1>6. s \subseteq [op : ProjectOps, ocl_id : OclIds]
  BY DEF ProjectOps
<1>7. ps \in [1..Cardinality(s) -> [op : ProjectOps, ocl_id : OclIds]]
  BY <1>5, <1>6
<1> HIDE DEF all
<1> QED BY <1>4, <1>7, FunctionIsSeq

LEMMA InitShape == Init => TypeShape
<1> SUFFICES ASSUME Init PROVE TypeShape
  OBVIOUS
<1> USE DEF Init
<1>1. rooms \in [OclIds -> Rows] /\ \A o \in OclIds : IsKept(rooms[o])
  BY FirstRoomsAreKept
<1>2. projects \in Seq([op : ProjectOps, ocl_id : OclIds])
  BY FirstProjectsType
<1>3. Len(projects) \in Nat
  BY <1>2
<1>4. Known = {}
  BY DEF Known
<1>5. TypeOK
  BY <1>1, <1>2, <1>3, <1>4, BoundsAssumption DEF TypeOK
<1>6. Shape
  BY <1>1 DEF Shape
<1> QED BY <1>5, <1>6 DEF TypeShape

LEMMA RestartShape ==
  ASSUME TypeShape, Restart, crashes' \in 0..MaxCrashes
  PROVE  TypeShape'
<1> USE DEF Restart, worldVars
<1>1. UNCHANGED <<on_chain, projects, rooms, levels, deleted, events>>
  OBVIOUS
<1>2. Len(projects) \in Nat
  BY DEF TypeShape, TypeOK
<1>3. Known' = {}
  BY DEF Known
<1>4. /\ phase' = "idle" /\ new_projects_entries' = {} /\ data_rooms' = <<>> /\ batch_results' = <<>>
      /\ molecule_projects_dataset_offset' = 0 /\ cut' = {}
      /\ folded' = [o \in OclIds |-> {}]
      /\ reported' = [o \in OclIds |-> [f \in Files |-> "none"]]
      /\ unleveled' = [o \in OclIds |-> {}]
  OBVIOUS
<1>5. TypeOK'
  BY <1>1, <1>2, <1>3, <1>4 DEF TypeShape, TypeOK
<1>6. Shape'
  BY <1>1, <1>4 DEF TypeShape, Shape
<1> QED BY <1>5, <1>6 DEF TypeShape

\* What people do to the ledgers.
LEMMA EventShape ==
  ASSUME TypeShape, Event
  PROVE  events' \in 0..MaxEvents
BY BoundsAssumption DEF TypeShape, TypeOK, Event

\* What a change of the ledgers leaves alone.
LEMMA SameProgram ==
  ASSUME NodeEvent
  PROVE  /\ on_chain' = on_chain /\ phase' = phase /\ new_projects_entries' = new_projects_entries
         /\ data_rooms' = data_rooms /\ batch_results' = batch_results
         /\ off_chain_ocl_project_map' = off_chain_ocl_project_map
         /\ molecule_projects_dataset_offset' = molecule_projects_dataset_offset
         /\ folded' = folded /\ reported' = reported /\ unleveled' = unleveled /\ cut' = cut
         /\ crashes' = crashes /\ Known' = Known /\ Batches' = Batches
         /\ \A request : IsRequest(request)' <=> IsRequest(request)
BY DEF NodeEvent, loadVars, stateVars, historyVars, Known, Batches, BatchOf, IsRequest, FullScan, NextRow

LEMMA ChangeProjectsShape ==
  ASSUME TypeShape, ChangeProjects
  PROVE  TypeShape'
<1>1. NodeEvent /\ UNCHANGED <<rooms, levels, deleted>>
  BY DEF ChangeProjects
<1>2. PICK row \in [op : ProjectOps, ocl_id : OclIds] : projects' = Append(projects, row)
  BY DEF ChangeProjects, ProjectOps
<1>3. projects \in Seq([op : ProjectOps, ocl_id : OclIds])
  BY DEF TypeShape, TypeOK
<1>4. projects' \in Seq([op : ProjectOps, ocl_id : OclIds]) /\ Len(projects) \in Nat
        /\ Len(projects') = Len(projects) + 1
  BY <1>2, <1>3
<1>5. /\ new_projects_entries \subseteq (molecule_projects_dataset_offset + 1)..Len(projects)
      /\ molecule_projects_dataset_offset \in 0..Len(projects)
  BY DEF TypeShape, TypeOK
<1>6. /\ new_projects_entries \subseteq (molecule_projects_dataset_offset + 1)..Len(projects')
      /\ molecule_projects_dataset_offset \in 0..Len(projects')
  BY <1>4, <1>5
<1>7. events' \in 0..MaxEvents
  BY <1>1, EventShape DEF NodeEvent
<1>8. TypeOK'
  BY <1>1, <1>4, <1>6, <1>7, SameProgram DEF TypeShape, TypeOK
<1>9. Shape'
  BY <1>1, SameProgram DEF TypeShape, Shape
<1> QED BY <1>8, <1>9 DEF TypeShape

\* A room that grows keeps its rows.
LEMMA GrownRoom ==
  ASSUME TypeShape, NEW o \in OclIds, NEW row \in [op : RowOps, file : Files],
         CanFollow(rooms[o], row), rooms' = [rooms EXCEPT ![o] = Append(@, row)]
  PROVE  /\ rooms' \in [OclIds -> Rows]
         /\ \A q \in OclIds :
              /\ IsKept(rooms'[q])
              /\ DOMAIN rooms[q] = 1..Len(rooms[q]) /\ DOMAIN rooms'[q] = 1..Len(rooms'[q])
              /\ Len(rooms[q]) \in Nat /\ Len(rooms'[q]) \in Nat /\ Len(rooms[q]) <= Len(rooms'[q])
              /\ \A i \in 1..Len(rooms[q]) : rooms'[q][i] = rooms[q][i]
<1>1. rooms \in [OclIds -> Rows] /\ \A q \in OclIds : IsKept(rooms[q])
  BY DEF TypeShape, TypeOK, Shape
<1>2. rooms[o] \in Rows
  BY <1>1
<1> DEFINE longer == Append(rooms[o], row)
<1>3. longer \in Rows /\ Len(longer) = Len(rooms[o]) + 1
        /\ \A i \in 1..Len(rooms[o]) : longer[i] = rooms[o][i]
  BY <1>2 DEF Rows
<1>4. IsKept(longer)
  BY <1>1, <1>2, KeptAppend DEF CanFollow
<1> HIDE DEF longer
<1>5. rooms' = [rooms EXCEPT ![o] = longer]
  BY DEF longer
<1>6. rooms' \in [OclIds -> Rows]
  BY <1>1, <1>3, <1>5
<1>7. ASSUME NEW q \in OclIds
      PROVE  /\ IsKept(rooms'[q])
             /\ DOMAIN rooms[q] = 1..Len(rooms[q]) /\ DOMAIN rooms'[q] = 1..Len(rooms'[q])
             /\ Len(rooms[q]) \in Nat /\ Len(rooms'[q]) \in Nat /\ Len(rooms[q]) <= Len(rooms'[q])
             /\ \A i \in 1..Len(rooms[q]) : rooms'[q][i] = rooms[q][i]
  <2>1. rooms[q] \in Rows /\ rooms'[q] \in Rows
    BY <1>1, <1>6
  <2>2. /\ DOMAIN rooms[q] = 1..Len(rooms[q]) /\ DOMAIN rooms'[q] = 1..Len(rooms'[q])
        /\ Len(rooms[q]) \in Nat /\ Len(rooms'[q]) \in Nat
    BY <2>1 DEF Rows
  <2>3. CASE q = o
    <3>1. rooms'[q] = longer
      BY <1>1, <1>5, <2>3
    <3>2. IsKept(rooms'[q])
      BY <1>4, <3>1
    <3>3. Len(rooms[q]) <= Len(rooms'[q]) /\ \A i \in 1..Len(rooms[q]) : rooms'[q][i] = rooms[q][i]
      BY <1>3, <2>2, <2>3, <3>1
    <3> QED BY <2>2, <3>2, <3>3
  <2>4. CASE q # o
    <3>1. rooms'[q] = rooms[q]
      BY <1>1, <1>5, <2>4
    <3>2. IsKept(rooms'[q])
      BY <1>1, <3>1
    <3>3. Len(rooms[q]) <= Len(rooms'[q]) /\ \A i \in 1..Len(rooms[q]) : rooms'[q][i] = rooms[q][i]
      BY <2>2, <3>1
    <3> QED BY <2>2, <3>2, <3>3
  <2> QED BY <2>3, <2>4
<1> QED BY <1>6, <1>7

LEMMA ChangeRoomShape ==
  ASSUME TypeShape, ChangeRoom
  PROVE  TypeShape'
<1>1. NodeEvent /\ UNCHANGED <<projects, levels, deleted>>
  BY DEF ChangeRoom
<1>2. PICK o \in OclIds, row \in [op : RowOps, file : Files] :
        CanFollow(rooms[o], row) /\ rooms' = [rooms EXCEPT ![o] = Append(@, row)]
  BY DEF ChangeRoom
<1>3. /\ rooms' \in [OclIds -> Rows]
      /\ \A q \in OclIds : IsKept(rooms'[q]) /\ DOMAIN rooms[q] \subseteq DOMAIN rooms'[q]
  <2>1. /\ rooms' \in [OclIds -> Rows]
        /\ \A q \in OclIds :
             /\ IsKept(rooms'[q])
             /\ DOMAIN rooms[q] = 1..Len(rooms[q]) /\ DOMAIN rooms'[q] = 1..Len(rooms'[q])
             /\ Len(rooms[q]) \in Nat /\ Len(rooms'[q]) \in Nat /\ Len(rooms[q]) <= Len(rooms'[q])
    BY <1>2, GrownRoom
  <2>2. \A m, n \in Nat : m <= n => 1..m \subseteq 1..n
    OBVIOUS
  <2> QED BY <2>1, <2>2
<1>4. events' \in 0..MaxEvents
  BY <1>1, EventShape DEF NodeEvent
<1>5. \A q \in Known : off_chain_ocl_project_map[q].latest_data_room_offset \in DOMAIN rooms'[q]
  <2>1. Known \subseteq OclIds
    BY DEF TypeShape, TypeOK
  <2> QED BY <1>3, <2>1 DEF TypeShape, TypeOK
<1>6. \A b \in DOMAIN batch_results : \A r \in batch_results[b] : r[2] \in DOMAIN rooms'[r[1]]
  <2>1. \A b \in DOMAIN batch_results : \A r \in batch_results[b] : r[1] \in OclIds
    BY DEF TypeShape, Shape
  <2>2. \A b \in DOMAIN batch_results : \A r \in batch_results[b] : r[2] \in DOMAIN rooms[r[1]]
    BY DEF TypeShape, TypeOK
  <2> QED BY <1>3, <2>1, <2>2
<1>7. TypeOK'
  BY <1>1, <1>3, <1>4, <1>5, <1>6, SameProgram DEF TypeShape, TypeOK
<1>8. Shape'
  BY <1>1, <1>3, SameProgram DEF TypeShape, Shape
<1> QED BY <1>7, <1>8 DEF TypeShape

LEMMA OtherEventsShape ==
  ASSUME TypeShape, SetLevel \/ DeleteDataset \/ IndexOcl
  PROVE  TypeShape'
<1>1. events' \in 0..MaxEvents
  BY EventShape DEF SetLevel, DeleteDataset, IndexOcl, NodeEvent
<1>2. CASE SetLevel
  <2>1. NodeEvent /\ UNCHANGED <<projects, rooms, deleted>>
    BY <1>2 DEF SetLevel
  <2>2. levels' \in [OclIds -> [Files -> Levels \cup {NoLevel}]]
    BY <1>2 DEF SetLevel, TypeShape, TypeOK
  <2>3. TypeOK'
    BY <1>1, <2>1, <2>2, SameProgram DEF TypeShape, TypeOK
  <2>4. Shape'
    BY <2>1, SameProgram DEF TypeShape, Shape
  <2> QED BY <2>3, <2>4 DEF TypeShape
<1>3. CASE DeleteDataset
  <2>1. NodeEvent /\ UNCHANGED <<projects, rooms>>
    BY <1>3 DEF DeleteDataset
  <2>2. levels' \in [OclIds -> [Files -> Levels \cup {NoLevel}]] /\ deleted' \subseteq OclIds
    <3>1. levels \in [OclIds -> [Files -> Levels \cup {NoLevel}]] /\ deleted \subseteq OclIds
      BY DEF TypeShape, TypeOK
    <3>2. CASE \E o \in OclIds \ deleted : deleted' = deleted \cup {o} /\ UNCHANGED levels
      BY <3>1, <3>2
    <3>3. CASE \E o \in OclIds, f \in Files :
                 levels' = [levels EXCEPT ![o][f] = NoLevel] /\ UNCHANGED deleted
      <4>1. PICK o \in OclIds, f \in Files : levels' = [levels EXCEPT ![o][f] = NoLevel]
        BY <3>3
      <4>2. levels' \in [OclIds -> [Files -> Levels \cup {NoLevel}]]
        BY <3>1, <4>1
      <4> QED BY <3>1, <3>3, <4>2
    <3> QED BY <1>3, <3>2, <3>3 DEF DeleteDataset
  <2>3. TypeOK'
    BY <1>1, <2>1, <2>2, SameProgram DEF TypeShape, TypeOK
  <2>4. Shape'
    BY <2>1, SameProgram DEF TypeShape, Shape
  <2> QED BY <2>3, <2>4 DEF TypeShape
<1>4. CASE IndexOcl
  <2>1. /\ UNCHANGED <<projects, rooms, levels, deleted, crashes>>
        /\ UNCHANGED <<phase, new_projects_entries, data_rooms, batch_results>>
        /\ UNCHANGED <<off_chain_ocl_project_map, molecule_projects_dataset_offset>>
        /\ UNCHANGED <<folded, reported, unleveled, cut>>
        /\ on_chain \subseteq on_chain' /\ on_chain' \subseteq OclIds
    BY <1>4 DEF IndexOcl, loadVars, stateVars, historyVars, TypeShape, TypeOK
  <2>2. Known' = Known /\ Batches' = Batches /\ \A request : IsRequest(request)' <=> IsRequest(request)
    BY <2>1 DEF Known, Batches, BatchOf, IsRequest, FullScan, NextRow
  <2>3. TypeOK'
    BY <1>1, <2>1, <2>2 DEF TypeShape, TypeOK
  <2>4. Shape'
    BY <2>1, <2>2 DEF TypeShape, Shape
  <2> QED BY <2>3, <2>4 DEF TypeShape
<1> QED BY <1>2, <1>3, <1>4

-----------------------------------------------------------------------------
(* What is asked for, and what comes back. *)

LEMMA ResolvedAreRequests ==
  ASSUME NEW requests \in Requests, \A k \in DOMAIN requests : IsRequest(requests[k])
  PROVE  /\ Resolved(requests) \in Requests
         /\ \A k \in DOMAIN Resolved(requests) : IsRequest(Resolved(requests)[k])
<1> DEFINE there == {k \in DOMAIN requests : requests[k].room \notin deleted}
           kept == InOrder(there)
<1>1. Len(requests) \in Nat /\ DOMAIN requests = 1..Len(requests)
  BY DEF Requests
<1>2. IsFiniteSet(there) /\ there \in SUBSET Nat
  <2>1. IsFiniteSet(1..Len(requests)) /\ there \in SUBSET (1..Len(requests))
    BY <1>1, FS_Interval
  <2> HIDE DEF there
  <2>2. IsFiniteSet(there)
    BY <2>1, FS_Subset
  <2>3. 1..Len(requests) \subseteq Nat
    BY <1>1
  <2> QED BY <2>1, <2>2, <2>3
<1>3. kept \in Seq(there)
  <2> HIDE DEF there
  <2> QED BY <1>2, InOrderIsOrdered
<1>4. Len(kept) \in Nat /\ DOMAIN kept = 1..Len(kept) /\ \A i \in DOMAIN kept : kept[i] \in there
  <2> HIDE DEF there, kept
  <2>1. Len(kept) \in Nat /\ DOMAIN kept = 1..Len(kept)
    BY <1>3
  <2> QED BY <1>3, <2>1, ElementOfSeq
<1>5. Resolved(requests) = [i \in DOMAIN kept |-> requests[kept[i]]]
  BY DEF Resolved
<1> HIDE DEF kept
<1>6. \A i \in 1..Len(kept) : requests[kept[i]] \in [room : OclIds, offset : Nat \ {0}]
  BY <1>1, <1>4, ElementOfSeq DEF Requests
<1>7. Resolved(requests) \in [1..Len(kept) -> [room : OclIds, offset : Nat \ {0}]]
  BY <1>4, <1>5, <1>6
<1>8. Resolved(requests) \in Requests
  BY <1>4, <1>7, FunctionIsSeq DEF Requests
<1>9. \A k \in DOMAIN Resolved(requests) : IsRequest(Resolved(requests)[k])
  <2> SUFFICES ASSUME NEW k \in DOMAIN Resolved(requests)
               PROVE  IsRequest(Resolved(requests)[k])
    OBVIOUS
  <2>1. k \in DOMAIN kept /\ Resolved(requests)[k] = requests[kept[k]] /\ kept[k] \in DOMAIN requests
    BY <1>4, <1>5
  <2>2. IsRequest(requests[kept[k]])
    BY <2>1
  <2> QED BY <2>1, <2>2
<1> QED BY <1>8, <1>9

LEMMA DataRoomsAreRequests ==
  ASSUME TypeShape, NEW entries \in Seq(DOMAIN projects), NEW existing \in Seq(Known)
  PROVE  /\ DataRooms(entries, existing) \in Requests
         /\ \A k \in DOMAIN DataRooms(entries, existing) : IsRequest(DataRooms(entries, existing)[k])
<1> DEFINE full == [k \in DOMAIN entries |-> FullScan(projects[entries[k]].ocl_id)]
           next == [k \in DOMAIN existing |-> NextRow(existing[k])]
           Request == [room : OclIds, offset : Nat \ {0}]
           Asked == {r \in Request : IsRequest(r)}
<1>1. Len(entries) \in Nat /\ DOMAIN entries = 1..Len(entries)
  OBVIOUS
<1>2. Len(existing) \in Nat /\ DOMAIN existing = 1..Len(existing)
  OBVIOUS
<1>3. ASSUME NEW k \in 1..Len(entries) PROVE FullScan(projects[entries[k]].ocl_id) \in Asked
  <2>1. projects \in Seq([op : ProjectOps, ocl_id : OclIds])
    BY DEF TypeShape, TypeOK
  <2>2. entries[k] \in DOMAIN projects
    BY ElementOfSeq
  <2>3. projects[entries[k]] \in [op : ProjectOps, ocl_id : OclIds]
    <3>1. DOMAIN projects = 1..Len(projects)
      BY <2>1
    <3> QED BY <2>1, <2>2, <3>1, ElementOfSeq
  <2> DEFINE o == projects[entries[k]].ocl_id
  <2>4. o \in OclIds
    BY <2>3
  <2> HIDE DEF o
  <2>5. FullScan(o) \in Request /\ FullScan(o).room = o
    BY <2>4 DEF FullScan
  <2> QED BY <2>5 DEF IsRequest, o
<1>4. ASSUME NEW k \in 1..Len(existing) PROVE NextRow(existing[k]) \in Asked
  <2> DEFINE o == existing[k]
  <2>1. o \in Known
    BY ElementOfSeq
  <2>2. o \in OclIds /\ off_chain_ocl_project_map[o].latest_data_room_offset \in Nat
    BY <2>1 DEF TypeShape, TypeOK, Projections
  <2> HIDE DEF o
  <2>3. NextRow(o) \in Request /\ NextRow(o).room = o
    BY <2>2 DEF NextRow
  <2> QED BY <2>1, <2>3 DEF IsRequest, o
<1> HIDE DEF Asked
<1>5. full \in [1..Len(entries) -> Asked] /\ next \in [1..Len(existing) -> Asked]
  BY <1>1, <1>2, <1>3, <1>4
<1>6. full \in Seq(Asked) /\ next \in Seq(Asked)
  BY <1>1, <1>2, <1>5, FunctionIsSeq
<1>7. DataRooms(entries, existing) = full \o next
  BY DEF DataRooms
<1> HIDE DEF full, next
<1>8. \A S : \A s, t \in Seq(S) : s \o t \in Seq(S)
  OBVIOUS
<1>9. DataRooms(entries, existing) \in Seq(Asked)
  BY <1>6, <1>7, <1>8
<1>10. \A k \in DOMAIN DataRooms(entries, existing) : DataRooms(entries, existing)[k] \in Asked
  <2>1. DOMAIN DataRooms(entries, existing) = 1..Len(DataRooms(entries, existing))
    BY <1>9
  <2> QED BY <1>9, <2>1, ElementOfSeq
<1>11. \A S, T : S \subseteq T => Seq(S) \subseteq Seq(T)
  OBVIOUS
<1>12. Asked \subseteq Request
  BY DEF Asked
<1>13. DataRooms(entries, existing) \in Requests
  <2> HIDE DEF Request
  <2>1. DataRooms(entries, existing) \in Seq(Request)
    BY <1>9, <1>11, <1>12
  <2> QED BY <2>1 DEF Requests, Request
<1>14. \A r \in Asked : IsRequest(r)
  BY DEF Asked
<1> QED BY <1>10, <1>13, <1>14

LEMMA ReadProjectsShape ==
  ASSUME TypeShape, ReadProjects
  PROVE  TypeShape'
<1>1. /\ UNCHANGED <<on_chain, projects, rooms, levels, deleted, events, crashes>>
      /\ UNCHANGED <<off_chain_ocl_project_map, molecule_projects_dataset_offset>>
      /\ UNCHANGED <<folded, reported, unleveled, cut>>
      /\ phase' = "reading" /\ batch_results' = <<>>
      /\ new_projects_entries' = MoleculeProjectEntries(molecule_projects_dataset_offset + 1)
  BY DEF ReadProjects, worldVars, stateVars, historyVars
<1>2. PICK existing \in SetToSeqs(Known) :
        data_rooms' = Resolved(DataRooms(InOrder(new_projects_entries'), existing))
  BY DEF ReadProjects
<1>3. /\ projects \in Seq([op : ProjectOps, ocl_id : OclIds])
      /\ molecule_projects_dataset_offset \in 0..Len(projects)
      /\ Known \subseteq OclIds
  BY DEF TypeShape, TypeOK
<1>4. Len(projects) \in Nat /\ DOMAIN projects = 1..Len(projects)
  BY <1>3
<1>5. new_projects_entries' \subseteq (molecule_projects_dataset_offset + 1)..Len(projects)
  BY <1>1 DEF MoleculeProjectEntries, Limited
<1>6. new_projects_entries' \in SUBSET (1..Len(projects))
  BY <1>3, <1>4, <1>5
<1>7. InOrder(new_projects_entries') \in Seq(DOMAIN projects)
  <2> DEFINE S == new_projects_entries'
  <2>1. S \in SUBSET Nat /\ IsFiniteSet(S) /\ S \subseteq DOMAIN projects
    <3>1. IsFiniteSet(1..Len(projects)) /\ S \in SUBSET (1..Len(projects))
      BY <1>4, <1>6, FS_Interval
    <3> HIDE DEF S
    <3>2. IsFiniteSet(S)
      BY <3>1, FS_Subset
    <3> QED BY <1>4, <3>1, <3>2
  <2> HIDE DEF S
  <2>2. InOrder(S) \in Seq(S)
    BY <2>1, InOrderIsOrdered
  <2>3. \A A, B : A \subseteq B => Seq(A) \subseteq Seq(B)
    OBVIOUS
  <2> QED BY <2>1, <2>2, <2>3 DEF S
<1>8. existing \in Seq(Known)
  <2>1. IsFiniteSet(Known)
    BY <1>3, OclIdsAssumption, FS_Subset
  <2>2. Cardinality(Known) \in Nat
    BY <2>1, FS_CardinalityType
  <2>3. existing \in [1..Cardinality(Known) -> Known]
    BY <1>2 DEF SetToSeqs
  <2> QED BY <2>2, <2>3, FunctionIsSeq
<1> DEFINE requests == DataRooms(InOrder(new_projects_entries'), existing)
<1>9. requests \in Requests /\ \A k \in DOMAIN requests : IsRequest(requests[k])
  BY <1>7, <1>8, DataRoomsAreRequests
<1>10. data_rooms' = Resolved(requests)
  BY <1>2
<1> HIDE DEF requests
<1>11. data_rooms' \in Requests /\ \A k \in DOMAIN data_rooms' : IsRequest(data_rooms'[k])
  BY <1>9, <1>10, ResolvedAreRequests
<1>12. Known' = Known /\ \A request : IsRequest(request)' <=> IsRequest(request)
  BY <1>1 DEF Known, IsRequest, FullScan, NextRow
<1>13. TypeOK'
  BY <1>1, <1>5, <1>11, <1>12 DEF TypeShape, TypeOK, Requests
<1>14. Shape'
  BY <1>1, <1>11, <1>12 DEF TypeShape, Shape
<1> QED BY <1>13, <1>14 DEF TypeShape

\* An answer is put among the others.
LEMMA AnswerBatchIs ==
  ASSUME AnswerBatch
  PROVE  /\ UNCHANGED <<on_chain, projects, rooms, levels, deleted, events, crashes>>
         /\ UNCHANGED <<phase, new_projects_entries, data_rooms>>
         /\ UNCHANGED <<off_chain_ocl_project_map, molecule_projects_dataset_offset>>
         /\ UNCHANGED <<folded, reported, unleveled>>
         /\ \E b \in Batches :
              /\ batch_results' = [c \in DOMAIN batch_results \cup {b} |->
                                     IF c = b THEN FirstRows(MatchingRows(b)) ELSE batch_results[c]]
              /\ cut' = cut \cup {o \in FullScans(b) :
                                    rooms[o] # <<>> /\ <<o, Len(rooms[o])>> \notin batch_results'[b]}
BY DEF AnswerBatch, worldVars, stateVars, Pending

LEMMA AnswerBatchShape ==
  ASSUME TypeShape, AnswerBatch
  PROVE  TypeShape'
<1>1. /\ UNCHANGED <<on_chain, projects, rooms, levels, deleted, events, crashes>>
      /\ UNCHANGED <<phase, new_projects_entries, data_rooms>>
      /\ UNCHANGED <<off_chain_ocl_project_map, molecule_projects_dataset_offset>>
      /\ UNCHANGED <<folded, reported, unleveled>>
  BY AnswerBatchIs
<1>2. PICK b \in Batches :
        /\ batch_results' = [c \in DOMAIN batch_results \cup {b} |->
                               IF c = b THEN FirstRows(MatchingRows(b)) ELSE batch_results[c]]
        /\ cut' = cut \cup {o \in FullScans(b) :
                              rooms[o] # <<>> /\ <<o, Len(rooms[o])>> \notin batch_results'[b]}
  BY AnswerBatchIs
<1>3. rooms \in [OclIds -> Rows] /\ data_rooms \in Requests
  BY DEF TypeShape, TypeOK, Requests
<1>4. \A row \in FirstRows(MatchingRows(b)) : \E o \in OclIds : \E i \in DOMAIN rooms[o] : row = <<o, i>>
  BY <1>3, AnswerIs
<1>5. \A row \in FirstRows(MatchingRows(b)) :
        row \in OclIds \X Nat /\ row[2] \in DOMAIN rooms[row[1]]
  <2> SUFFICES ASSUME NEW row \in FirstRows(MatchingRows(b))
               PROVE  row \in OclIds \X Nat /\ row[2] \in DOMAIN rooms[row[1]]
    OBVIOUS
  <2>1. PICK o \in OclIds : \E i \in DOMAIN rooms[o] : row = <<o, i>>
    BY <1>4
  <2>2. PICK i \in DOMAIN rooms[o] : row = <<o, i>>
    BY <2>1
  <2>3. rooms[o] \in Rows
    BY <1>3
  <2>4. DOMAIN rooms[o] \subseteq Nat
    BY <2>3 DEF Rows
  <2> QED BY <2>2, <2>4
<1>6. cut' \subseteq OclIds
  BY <1>2 DEF TypeShape, TypeOK, FullScans
<1>7. Known' = Known /\ Batches' = Batches /\ \A request : IsRequest(request)' <=> IsRequest(request)
  BY <1>1 DEF Known, Batches, BatchOf, IsRequest, FullScan, NextRow
<1>8. DOMAIN batch_results' \subseteq Batches
  BY <1>2 DEF TypeShape, TypeOK
<1>9. \A c \in DOMAIN batch_results' : \A row \in batch_results'[c] :
        row \in OclIds \X Nat /\ row[2] \in DOMAIN rooms[row[1]]
  <2> SUFFICES ASSUME NEW c \in DOMAIN batch_results'
               PROVE  \A row \in batch_results'[c] :
                        row \in OclIds \X Nat /\ row[2] \in DOMAIN rooms[row[1]]
    OBVIOUS
  <2>1. CASE c = b
    BY <1>2, <1>5, <2>1
  <2>2. CASE c # b
    <3>1. c \in DOMAIN batch_results /\ batch_results'[c] = batch_results[c]
      BY <1>2, <2>2
    <3> QED BY <3>1 DEF TypeShape, TypeOK, Shape
  <2> QED BY <2>1, <2>2
<1>10. TypeOK'
  BY <1>1, <1>6, <1>7, <1>8, <1>9 DEF TypeShape, TypeOK
<1>11. Shape'
  BY <1>1, <1>7, <1>9 DEF TypeShape, Shape
<1> QED BY <1>10, <1>11 DEF TypeShape

LEMMA FailuresShape ==
  ASSUME TypeShape, FailBatch \/ Crash
  PROVE  TypeShape'
<1>1. crashes \in 0..MaxCrashes
  BY DEF TypeShape, TypeOK
<1>2. crashes' \in 0..MaxCrashes
  BY <1>1, BoundsAssumption DEF FailBatch, Crash
<1> QED BY <1>2, RestartShape DEF FailBatch, Crash

-----------------------------------------------------------------------------
(* What a load has read. *)

\* The offsets of a room's rows in an answer.
Answer(b, o) == {i \in Nat : <<o, i>> \in batch_results[b]}

LEMMA OffsetsInAreOrdered ==
  ASSUME TypeShape, NEW b \in DOMAIN batch_results, NEW o \in OclIds
  PROVE  /\ OffsetsIn(b, o) \in Seq(Nat)
         /\ Answer(b, o) \subseteq DOMAIN rooms[o]
         /\ IsOrdered(OffsetsIn(b, o))
         /\ Range(OffsetsIn(b, o)) = Answer(b, o)
<1> DEFINE S == {i \in DOMAIN rooms[o] : <<o, i>> \in batch_results[b]}
<1>1. rooms[o] \in Rows
  BY DEF TypeShape, TypeOK
<1>2. Len(rooms[o]) \in Nat /\ DOMAIN rooms[o] = 1..Len(rooms[o])
  BY <1>1 DEF Rows
<1>3. Answer(b, o) \subseteq DOMAIN rooms[o]
  <2> SUFFICES ASSUME NEW i \in Nat, <<o, i>> \in batch_results[b] PROVE i \in DOMAIN rooms[o]
    BY DEF Answer
  <2>1. <<o, i>>[2] \in DOMAIN rooms[<<o, i>>[1]]
    BY DEF TypeShape, TypeOK
  <2> QED BY <2>1
<1>4. S = Answer(b, o)
  BY <1>2, <1>3 DEF Answer
<1>5. IsFiniteSet(S) /\ S \in SUBSET Nat
  <2>1. IsFiniteSet(1..Len(rooms[o])) /\ S \in SUBSET (1..Len(rooms[o]))
    BY <1>2, FS_Interval
  <2> HIDE DEF S
  <2>2. IsFiniteSet(S)
    BY <2>1, FS_Subset
  <2>3. 1..Len(rooms[o]) \subseteq Nat
    BY <1>2
  <2> QED BY <2>1, <2>2, <2>3
<1>6. OffsetsIn(b, o) = InOrder(S)
  BY DEF OffsetsIn
<1> HIDE DEF S
<1>7. InOrder(S) \in Seq(S) /\ IsOrdered(InOrder(S)) /\ Range(InOrder(S)) = S
  BY <1>5, InOrderIsOrdered
<1>8. \A A, B : A \subseteq B => Seq(A) \subseteq Seq(B)
  OBVIOUS
<1> QED BY <1>3, <1>4, <1>5, <1>6, <1>7, <1>8

LEMMA BatchesAreFinite ==
  ASSUME TypeShape
  PROVE  IsFiniteSet(Batches)
<1> DEFINE batch == [k \in DOMAIN data_rooms |-> BatchOf(k)]
<1>1. IsFiniteSet(DOMAIN data_rooms)
  <2>1. Len(data_rooms) \in Nat /\ DOMAIN data_rooms = 1..Len(data_rooms)
    BY DEF TypeShape, TypeOK
  <2> QED BY <2>1, FS_Interval
<1>2. batch \in Surjection(DOMAIN data_rooms, Batches)
  <2>1. batch \in [DOMAIN data_rooms -> Batches] /\ \A b \in Batches : \E k \in DOMAIN data_rooms : batch[k] = b
    BY DEF Batches
  <2> HIDE DEF batch
  <2> QED BY <2>1 DEF Surjection
<1> HIDE DEF batch
<1> QED BY <1>1, <1>2, FS_Surjection

\* What is read of a room comes batch by batch, from every batch what its answer has, in
\* the order of the ledger.
LEMMA ReadInParts ==
  ASSUME TypeShape, Pending = {}, NEW read \in RowsAsTheyCome, NEW o \in OclIds
  PROVE  /\ read[o] \in Seq(DOMAIN rooms[o])
         /\ \E part \in [DOMAIN read[o] -> Nat], batch \in [DOMAIN read[o] -> DOMAIN batch_results] :
              /\ ComeInParts(read[o], part)
              /\ \A p \in DOMAIN read[o] :
                   /\ read[o][p] \in Answer(batch[p], o)
                   /\ \A i \in Answer(batch[p], o) : IsInPart(read[o], part, p, i)
<1>1. PICK order \in SetToSeqs(Batches) :
        read = [q \in OclIds |-> FlattenSeq([k \in DOMAIN order |-> OffsetsIn(order[k], q)])]
  BY DEF RowsAsTheyCome
<1> DEFINE n == Cardinality(Batches)
           ss == [k \in DOMAIN order |-> OffsetsIn(order[k], o)]
           flat == read[o]
<1>2. n \in Nat
  BY BatchesAreFinite, FS_CardinalityType
<1>3. order \in [1..n -> Batches]
  BY <1>1 DEF SetToSeqs
<1>4. Batches \subseteq DOMAIN batch_results
  BY DEF Pending
<1>5. \A k \in 1..n : order[k] \in DOMAIN batch_results
  BY <1>3, <1>4
<1>6. \A k \in 1..n : /\ OffsetsIn(order[k], o) \in Seq(Nat)
                      /\ Answer(order[k], o) \subseteq DOMAIN rooms[o]
                      /\ IsOrdered(OffsetsIn(order[k], o))
                      /\ Range(OffsetsIn(order[k], o)) = Answer(order[k], o)
  BY <1>5, OffsetsInAreOrdered
<1>7. ss \in [1..n -> Seq(Nat)]
  BY <1>3, <1>6
<1>8. flat = FlattenSeq(ss)
  BY <1>1
<1>9. \A k \in 1..n : ss[k] = OffsetsIn(order[k], o)
  BY <1>3
<1> HIDE DEF ss, flat, n
<1>10. flat \in Seq(Nat) /\ \E part, place : IsLaidOut(flat, ss, n, part, place)
  BY <1>2, <1>7, <1>8, FlattenLaysOut
<1>11. PICK part, place : IsLaidOut(flat, ss, n, part, place)
  BY <1>10
<1> DEFINE m == Len(flat)
<1>12. m \in Nat /\ DOMAIN flat = 1..m
  BY <1>10
<1> HIDE DEF m
<1>13. /\ part \in [1..m -> 1..n] /\ place \in [1..m -> Nat]
       /\ \A p \in 1..m : place[p] \in 1..Len(ss[part[p]]) /\ flat[p] = ss[part[p]][place[p]]
       /\ \A p, q \in 1..m :
            p < q => part[p] < part[q] \/ (part[p] = part[q] /\ place[p] < place[q])
       /\ \A k \in 1..n : \A i \in 1..Len(ss[k]) : \E p \in 1..m : part[p] = k /\ place[p] = i
  BY <1>11 DEF IsLaidOut, m
<1>14. \A k \in 1..n : /\ IsOrdered(ss[k]) /\ Len(ss[k]) \in Nat /\ DOMAIN ss[k] = 1..Len(ss[k])
                       /\ Range(ss[k]) = Answer(order[k], o)
  BY <1>6, <1>7, <1>9
<1> DEFINE batch == [p \in 1..m |-> order[part[p]]]
<1>15. batch \in [1..m -> DOMAIN batch_results] /\ part \in [1..m -> Nat]
  BY <1>2, <1>5, <1>13
<1>16. \A p \in 1..m : part[p] \in 1..n /\ batch[p] = order[part[p]]
  BY <1>13
<1> HIDE DEF batch
<1>17. ComeInParts(flat, part)
  <2> SUFFICES ASSUME NEW p \in 1..m, NEW q \in 1..m, p < q
               PROVE  part[p] < part[q] \/ (part[p] = part[q] /\ flat[p] < flat[q])
    BY <1>12 DEF ComeInParts
  <2>1. part[p] < part[q] \/ (part[p] = part[q] /\ place[p] < place[q])
    BY <1>13
  <2>2. ASSUME part[p] = part[q], place[p] < place[q] PROVE flat[p] < flat[q]
    <3> DEFINE k == part[p]
    <3>1. k \in 1..n /\ place[p] \in 1..Len(ss[k]) /\ place[q] \in 1..Len(ss[k])
      BY <1>13, <2>2
    <3>2. ss[k][place[p]] < ss[k][place[q]]
      BY <1>14, <2>2, <3>1 DEF IsOrdered
    <3> QED BY <1>13, <2>2, <3>2
  <2> QED BY <2>1, <2>2
<1>18. ASSUME NEW p \in 1..m PROVE flat[p] \in Answer(batch[p], o)
  <2>1. part[p] \in 1..n /\ place[p] \in DOMAIN ss[part[p]] /\ flat[p] = ss[part[p]][place[p]]
    BY <1>13, <1>14
  <2>2. flat[p] \in Range(ss[part[p]])
    BY <2>1 DEF Range
  <2> QED BY <1>14, <1>16, <2>1, <2>2
<1>19. ASSUME NEW p \in 1..m, NEW i \in Answer(batch[p], o) PROVE IsInPart(flat, part, p, i)
  <2> DEFINE k == part[p]
  <2>1. k \in 1..n /\ i \in Range(ss[k])
    BY <1>14, <1>16
  <2>2. PICK j \in DOMAIN ss[k] : ss[k][j] = i
    BY <2>1 DEF Range
  <2> HIDE DEF k
  <2>3. j \in 1..Len(ss[k])
    BY <1>14, <2>1
  <2>4. PICK q \in 1..m : part[q] = k /\ place[q] = j
    BY <1>13, <2>1, <2>3
  <2>5. flat[q] = i
    BY <1>13, <2>2, <2>4
  <2> QED BY <1>12, <2>4, <2>5 DEF IsInPart, k
<1>20. flat \in Seq(DOMAIN rooms[o])
  <2>1. \A p \in 1..m : flat[p] \in DOMAIN rooms[o]
    BY <1>6, <1>16, <1>18
  <2>2. flat \in [1..m -> DOMAIN rooms[o]]
    BY <1>10, <1>12, <2>1
  <2> QED BY <1>12, <2>2, FunctionIsSeq
<1> QED BY <1>12, <1>15, <1>17, <1>18, <1>19, <1>20 DEF flat

-----------------------------------------------------------------------------
(* What a load makes of it. *)

\* The step of the whole load, by what it has read.
ProcessesAs(read, entries) ==
  /\ entries = EntriesMap(read)
  /\ off_chain_ocl_project_map' =
       [o \in Known \cup DOMAIN entries |->
          IF o \in DOMAIN entries THEN Processed(o, entries[o]).project
          ELSE off_chain_ocl_project_map[o]]
  /\ folded' =
       [o \in OclIds |->
          IF o \in DOMAIN entries THEN folded[o] \cup Range(read[o]) ELSE folded[o]]
  /\ reported' =
       [o \in OclIds |->
          IF o \in DOMAIN entries
          THEN [f \in Files |-> Report(Processed(o, entries[o]).changes, f, reported[o][f])]
          ELSE reported[o]]
  /\ unleveled' =
       [o \in OclIds |->
          IF o \in DOMAIN entries
          THEN unleveled[o] \cup {f \in entries[o].added_entities : levels[o][f] = NoLevel}
          ELSE unleveled[o]]

LEMMA ProcessProjectsIs ==
  ASSUME ProcessProjects
  PROVE  /\ Pending = {}
         /\ UNCHANGED <<on_chain, projects, rooms, levels, deleted, events, cut, crashes>>
         /\ phase' = "idle" /\ new_projects_entries' = {} /\ data_rooms' = <<>> /\ batch_results' = <<>>
         /\ molecule_projects_dataset_offset' =
              Max({molecule_projects_dataset_offset} \cup new_projects_entries)
         /\ \E read \in RowsAsTheyCome : \E entries : ProcessesAs(read, entries)
<1>1. PICK read \in RowsAsTheyCome : \E entries \in {EntriesMap(read)} :
        LET done == [o \in DOMAIN entries |-> Processed(o, entries[o])]
        IN  /\ off_chain_ocl_project_map' =
                 [o \in Known \cup DOMAIN done |->
                    IF o \in DOMAIN done THEN done[o].project ELSE off_chain_ocl_project_map[o]]
            /\ folded' =
                 [o \in OclIds |->
                    IF o \in DOMAIN done THEN folded[o] \cup Range(read[o]) ELSE folded[o]]
            /\ reported' =
                 [o \in OclIds |->
                    IF o \in DOMAIN done
                    THEN [f \in Files |-> Report(done[o].changes, f, reported[o][f])]
                    ELSE reported[o]]
            /\ unleveled' =
                 [o \in OclIds |->
                    IF o \in DOMAIN done
                    THEN unleveled[o] \cup {f \in entries[o].added_entities : levels[o][f] = NoLevel}
                    ELSE unleveled[o]]
  BY DEF ProcessProjects
<1> DEFINE entries == EntriesMap(read)
           done == [o \in DOMAIN entries |-> Processed(o, entries[o])]
<1>2. DOMAIN done = DOMAIN entries /\ \A o \in DOMAIN entries : done[o] = Processed(o, entries[o])
  OBVIOUS
<1>3. /\ off_chain_ocl_project_map' =
           [o \in Known \cup DOMAIN done |->
              IF o \in DOMAIN done THEN done[o].project ELSE off_chain_ocl_project_map[o]]
      /\ folded' =
           [o \in OclIds |->
              IF o \in DOMAIN done THEN folded[o] \cup Range(read[o]) ELSE folded[o]]
      /\ reported' =
           [o \in OclIds |->
              IF o \in DOMAIN done
              THEN [f \in Files |-> Report(done[o].changes, f, reported[o][f])]
              ELSE reported[o]]
      /\ unleveled' =
           [o \in OclIds |->
              IF o \in DOMAIN done
              THEN unleveled[o] \cup {f \in entries[o].added_entities : levels[o][f] = NoLevel}
              ELSE unleveled[o]]
  <2> HIDE DEF EntriesMap
  <2> QED BY <1>1
<1> HIDE DEF done, entries
<1>4. off_chain_ocl_project_map' =
        [o \in Known \cup DOMAIN entries |->
           IF o \in DOMAIN entries THEN Processed(o, entries[o]).project
           ELSE off_chain_ocl_project_map[o]]
  BY <1>2, <1>3
<1>5. folded' =
        [o \in OclIds |->
           IF o \in DOMAIN entries THEN folded[o] \cup Range(read[o]) ELSE folded[o]]
  BY <1>2, <1>3
<1>6. reported' =
        [o \in OclIds |->
           IF o \in DOMAIN entries
           THEN [f \in Files |-> Report(Processed(o, entries[o]).changes, f, reported[o][f])]
           ELSE reported[o]]
  BY <1>2, <1>3
<1>7. unleveled' =
        [o \in OclIds |->
           IF o \in DOMAIN entries
           THEN unleveled[o] \cup {f \in entries[o].added_entities : levels[o][f] = NoLevel}
           ELSE unleveled[o]]
  BY <1>2, <1>3
<1>8. ProcessesAs(read, entries)
  BY <1>4, <1>5, <1>6, <1>7 DEF ProcessesAs, entries
<1> QED BY <1>8 DEF ProcessProjects, worldVars

LEMMA EntriesAre ==
  ASSUME NEW o, NEW offsets
  PROVE  LET entries == VersionedFilesEntriesOf(o, offsets)
         IN  /\ entries.latest_data_room_offset = offsets[Len(offsets)]
             /\ entries.added_entities = AddedEntities(RowsAt(rooms[o], offsets), 1)
             /\ entries.removed_entities = RemovedEntities(RowsAt(rooms[o], offsets), 1)
<1> DEFINE read == [k \in DOMAIN offsets |-> rooms[o][offsets[k]]]
           whole == VersionedFilesEntries(read, 1)
<1>1. read = RowsAt(rooms[o], offsets)
  BY DEF RowsAt
<1>2. VersionedFilesEntriesOf(o, offsets)
        = [whole EXCEPT !.latest_data_room_offset = offsets[Len(offsets)]]
  BY DEF VersionedFilesEntriesOf
<1> HIDE DEF read
<1>3. whole = [latest_data_room_offset |-> Len(read), added_entities |-> AddedEntities(read, 1),
               removed_entities |-> RemovedEntities(read, 1)]
  BY DEF VersionedFilesEntries
<1> QED BY <1>1, <1>2, <1>3

\* What a room with rows to process is, and what has been read of it.
IsProcessed(o, read, entries) ==
  /\ o \in OclIds /\ read[o] # <<>> /\ o \in on_chain
  /\ o \in Known \/ FoundRowsOf(o) # {}
  /\ entries[o].latest_data_room_offset = read[o][Len(read[o])]
  /\ entries[o].added_entities = AddedEntities(RowsAt(rooms[o], read[o]), 1)
  /\ entries[o].removed_entities = RemovedEntities(RowsAt(rooms[o], read[o]), 1)
  /\ IsRead(entries[o])
  /\ entries[o].latest_data_room_offset \in DOMAIN rooms[o]

LEMMA ReadRoomsAreProcessed ==
  ASSUME TypeShape, Pending = {}, NEW read \in RowsAsTheyCome, NEW o \in DOMAIN EntriesMap(read)
  PROVE  IsProcessed(o, read, EntriesMap(read))
<1>1. o \in OclIds /\ read[o] # <<>> /\ (o \in Known \/ (o \in on_chain /\ FoundRowsOf(o) # {}))
        /\ EntriesMap(read)[o] = VersionedFilesEntriesOf(o, read[o])
  BY DEF EntriesMap
<1>2. Known \subseteq on_chain
  BY DEF TypeShape, TypeOK
<1> DEFINE e == VersionedFilesEntriesOf(o, read[o])
<1>3. /\ e.latest_data_room_offset = read[o][Len(read[o])]
      /\ e.added_entities = AddedEntities(RowsAt(rooms[o], read[o]), 1)
      /\ e.removed_entities = RemovedEntities(RowsAt(rooms[o], read[o]), 1)
  BY EntriesAre
<1> HIDE DEF e
<1>4. read[o] \in Seq(DOMAIN rooms[o])
  BY <1>1, ReadInParts
<1>5. read[o][Len(read[o])] \in DOMAIN rooms[o]
  BY <1>1, <1>4
<1>6. rooms[o] \in Rows
  BY <1>1 DEF TypeShape, TypeOK
<1>7. DOMAIN rooms[o] \subseteq Nat
  BY <1>6 DEF Rows
<1>8. IsRead(e)
  BY <1>3, <1>5, <1>7, EntitiesType DEF IsRead
<1> QED BY <1>1, <1>2, <1>3, <1>5, <1>8 DEF IsProcessed, e

LEMMA ProcessedType ==
  ASSUME TypeShape, NEW read, NEW entries, NEW o, IsProcessed(o, read, entries)
  PROVE  /\ Processed(o, entries[o]).project \in Projections
         /\ Processed(o, entries[o]).project.latest_data_room_offset
              = entries[o].latest_data_room_offset
         /\ o \in Known => Processed(o, entries[o]).project.op = off_chain_ocl_project_map[o].op
         /\ Processed(o, entries[o]).project.op = "Append" =>
              \A f \in Files :
                ChangesFollow(Processed(o, entries[o]).changes, entries[o], levels[o], f)
<1>1. o \in OclIds /\ IsRead(entries[o]) /\ (o \in Known \/ FoundRowsOf(o) # {})
  BY DEF IsProcessed
<1>2. levels[o] \in LevelMaps
  BY <1>1 DEF TypeShape, TypeOK, LevelMaps
<1>3. CASE o \in Known
  <2> DEFINE project == off_chain_ocl_project_map[o]
             done == ProcessExisting(project, entries[o], levels[o])
  <2>1. project \in Projections
    BY <1>3 DEF TypeShape, TypeOK
  <2> HIDE DEF project
  <2>2. Processed(o, entries[o]) = done
    BY <1>3 DEF Processed, project
  <2>3. done.project \in Projections
    BY <1>1, <1>2, <2>1, ProcessExistingType
  <2>4. /\ done.project.latest_data_room_offset = entries[o].latest_data_room_offset
        /\ done.project.op = project.op
    BY DEF ProcessExisting
  <2>5. project.op = "Append" =>
          \A f \in Files : ChangesFollow(done.changes, entries[o], levels[o], f)
    BY <1>1, <1>2, ProcessExistingFollows
  <2> HIDE DEF done
  <2> QED BY <2>2, <2>3, <2>4, <2>5 DEF project
<1>4. CASE o \notin Known
  <2> DEFINE first == Min(FoundRowsOf(o))
             op == projects[first].op
             done == ProcessNew(op, entries[o], levels[o])
  <2>1. projects \in Seq([op : ProjectOps, ocl_id : OclIds])
    BY DEF TypeShape, TypeOK
  <2>2. DOMAIN projects = 1..Len(projects) /\ Len(projects) \in Nat
    BY <2>1
  <2>3. FoundRowsOf(o) \subseteq DOMAIN projects /\ FoundRowsOf(o) # {}
    BY <1>1, <1>4 DEF FoundRowsOf, RowsOf
  <2>4. first \in FoundRowsOf(o)
    <3> DEFINE S == FoundRowsOf(o)
    <3>1. S \in SUBSET Nat /\ S # {}
      BY <2>2, <2>3
    <3> HIDE DEF S
    <3>2. \E x \in S : \A y \in S : x <= y
      BY <3>1, LeastNumber
    <3>3. Min(S) \in S
      BY <3>2, Zenon DEF Min
    <3> QED BY <3>3 DEF S
  <2>5. op \in ProjectOps
    <3>1. projects[first] \in [op : ProjectOps, ocl_id : OclIds]
      BY <2>1, <2>2, <2>3, <2>4, ElementOfSeq
    <3> QED BY <3>1
  <2>6. Processed(o, entries[o]) = done
    BY <1>4 DEF Processed
  <2> HIDE DEF op
  <2>7. done.project \in Projections
    BY <1>1, <1>2, <2>5, ProcessNewType
  <2>8. done.project.latest_data_room_offset = entries[o].latest_data_room_offset /\ done.project.op = op
    BY DEF ProcessNew
  <2>9. op = "Append" => \A f \in Files : ChangesFollow(done.changes, entries[o], levels[o], f)
    BY <1>1, <1>2, ProcessNewFollows
  <2> HIDE DEF done
  <2> QED BY <1>4, <2>6, <2>7, <2>8, <2>9
<1> QED BY <1>3, <1>4

LEMMA OffsetMoves ==
  ASSUME TypeShape
  PROVE  Max({molecule_projects_dataset_offset} \cup new_projects_entries) \in 0..Len(projects)
<1> DEFINE S == {molecule_projects_dataset_offset} \cup new_projects_entries
<1>1. /\ molecule_projects_dataset_offset \in 0..Len(projects)
      /\ new_projects_entries \subseteq (molecule_projects_dataset_offset + 1)..Len(projects)
  BY DEF TypeShape, TypeOK
<1>2. Len(projects) \in Nat
  BY DEF TypeShape, TypeOK
<1>3. S \in SUBSET (0..Len(projects)) /\ S # {}
  BY <1>1, <1>2
<1> HIDE DEF S
<1>4. PICK m \in S : \A k \in S : k <= m
  BY <1>2, <1>3, GreatestNumber
<1>5. \A k \in S : m >= k
  BY <1>4
<1>6. Max(S) \in S
  BY <1>5, Zenon DEF Max
<1> QED BY <1>3, <1>6 DEF S

LEMMA ReportType ==
  ASSUME NEW changes, NEW f, NEW before \in {"none", "added", "removed"}
  PROVE  Report(changes, f, before) \in {"none", "added", "removed"}
BY DEF Report

LEMMA ProcessProjectsShape ==
  ASSUME TypeShape, ProcessProjects
  PROVE  TypeShape'
<1>1. /\ Pending = {}
      /\ UNCHANGED <<on_chain, projects, rooms, levels, deleted, events, cut, crashes>>
      /\ phase' = "idle" /\ new_projects_entries' = {} /\ data_rooms' = <<>> /\ batch_results' = <<>>
      /\ molecule_projects_dataset_offset' =
           Max({molecule_projects_dataset_offset} \cup new_projects_entries)
  BY ProcessProjectsIs
<1>0. PICK read \in RowsAsTheyCome : \E entries : ProcessesAs(read, entries)
  BY ProcessProjectsIs
<1>2. PICK entries : ProcessesAs(read, entries)
  BY <1>0
<1>3. \A o \in DOMAIN entries : IsProcessed(o, read, entries)
  BY <1>1, <1>2, ReadRoomsAreProcessed DEF ProcessesAs
<1>4. DOMAIN entries \subseteq OclIds /\ DOMAIN entries \subseteq on_chain
  BY <1>3 DEF IsProcessed
<1>5. Known' = Known \cup DOMAIN entries
  BY <1>2 DEF ProcessesAs, Known
<1>6. Known' \subseteq on_chain
  BY <1>4, <1>5 DEF TypeShape, TypeOK
<1>7. \A o \in Known' :
        /\ off_chain_ocl_project_map'[o] \in Projections
        /\ off_chain_ocl_project_map'[o].latest_data_room_offset \in DOMAIN rooms[o]
  <2> SUFFICES ASSUME NEW o \in Known'
               PROVE  /\ off_chain_ocl_project_map'[o] \in Projections
                      /\ off_chain_ocl_project_map'[o].latest_data_room_offset \in DOMAIN rooms[o]
    OBVIOUS
  <2>1. CASE o \in DOMAIN entries
    <3>1. off_chain_ocl_project_map'[o] = Processed(o, entries[o]).project
      BY <1>2, <2>1 DEF ProcessesAs
    <3>2. IsProcessed(o, read, entries)
      BY <1>3, <2>1
    <3>3. entries[o].latest_data_room_offset \in DOMAIN rooms[o]
      BY <3>2 DEF IsProcessed
    <3> QED BY <3>1, <3>2, <3>3, ProcessedType
  <2>2. CASE o \notin DOMAIN entries
    <3>1. o \in Known /\ off_chain_ocl_project_map'[o] = off_chain_ocl_project_map[o]
      BY <1>2, <1>5, <2>2 DEF ProcessesAs
    <3> QED BY <3>1 DEF TypeShape, TypeOK
  <2> QED BY <2>1, <2>2
<1>8. folded' \in [OclIds -> SUBSET Nat]
  <2>1. \A o \in DOMAIN entries : Range(read[o]) \in SUBSET Nat
    <3> SUFFICES ASSUME NEW o \in DOMAIN entries PROVE Range(read[o]) \in SUBSET Nat
      OBVIOUS
    <3>1. o \in OclIds /\ read[o] \in Seq(DOMAIN rooms[o])
      BY <1>1, <1>4, ReadInParts
    <3>2. rooms[o] \in Rows
      BY <3>1 DEF TypeShape, TypeOK
    <3>3. DOMAIN rooms[o] \subseteq Nat
      BY <3>2 DEF Rows
    <3>4. \A i \in DOMAIN read[o] : read[o][i] \in DOMAIN rooms[o]
      BY <3>1
    <3> QED BY <3>3, <3>4 DEF Range
  <2>2. folded \in [OclIds -> SUBSET Nat]
    BY DEF TypeShape, TypeOK
  <2>3. folded' = [o \in OclIds |->
                     IF o \in DOMAIN entries THEN folded[o] \cup Range(read[o]) ELSE folded[o]]
    BY <1>2 DEF ProcessesAs
  <2> QED BY <2>1, <2>2, <2>3
<1>9. reported' \in [OclIds -> [Files -> {"none", "added", "removed"}]]
  <2>1. reported \in [OclIds -> [Files -> {"none", "added", "removed"}]]
    BY DEF TypeShape, TypeOK
  <2>2. \A o \in OclIds : [f \in Files |-> Report(Processed(o, entries[o]).changes, f, reported[o][f])]
                            \in [Files -> {"none", "added", "removed"}]
    BY <2>1, ReportType
  <2>3. reported' =
          [o \in OclIds |->
             IF o \in DOMAIN entries
             THEN [f \in Files |-> Report(Processed(o, entries[o]).changes, f, reported[o][f])]
             ELSE reported[o]]
    BY <1>2 DEF ProcessesAs
  <2> QED BY <2>1, <2>2, <2>3
<1>10. unleveled' \in [OclIds -> SUBSET Files]
  <2>1. unleveled \in [OclIds -> SUBSET Files]
    BY DEF TypeShape, TypeOK
  <2>2. \A o \in DOMAIN entries : entries[o].added_entities \subseteq Files
    BY <1>3 DEF IsProcessed, IsRead
  <2>3. unleveled' =
          [o \in OclIds |->
             IF o \in DOMAIN entries
             THEN unleveled[o] \cup {f \in entries[o].added_entities : levels[o][f] = NoLevel}
             ELSE unleveled[o]]
    BY <1>2 DEF ProcessesAs
  <2> QED BY <2>1, <2>2, <2>3
<1>11. molecule_projects_dataset_offset' \in 0..Len(projects)
  BY <1>1, OffsetMoves
<1>12. TypeOK'
  BY <1>1, <1>6, <1>7, <1>8, <1>9, <1>10, <1>11 DEF TypeShape, TypeOK
<1>13. Shape'
  BY <1>1 DEF TypeShape, Shape
<1> QED BY <1>12, <1>13 DEF TypeShape

LEMMA NextShape == TypeShape /\ [Next]_vars => TypeShape'
<1> SUFFICES ASSUME TypeShape, [Next]_vars PROVE TypeShape'
  OBVIOUS
<1>1. CASE World
  BY <1>1, ChangeProjectsShape, ChangeRoomShape, OtherEventsShape DEF World
<1>2. CASE Load
  BY <1>2, ReadProjectsShape, AnswerBatchShape, FailuresShape, ProcessProjectsShape DEF Load
<1>3. CASE Crash
  BY <1>3, FailuresShape
<1>4. CASE UNCHANGED vars
  <2>1. /\ UNCHANGED <<on_chain, projects, rooms, levels, deleted, events, crashes>>
        /\ UNCHANGED <<phase, new_projects_entries, data_rooms, batch_results>>
        /\ UNCHANGED <<off_chain_ocl_project_map, molecule_projects_dataset_offset>>
        /\ UNCHANGED <<folded, reported, unleveled, cut>>
    BY <1>4 DEF vars, worldVars, loadVars, stateVars, historyVars
  <2>2. Known' = Known /\ Batches' = Batches /\ \A request : IsRequest(request)' <=> IsRequest(request)
    BY <2>1 DEF Known, Batches, BatchOf, IsRequest, FullScan, NextRow
  <2>3. TypeOK'
    BY <2>1, <2>2 DEF TypeShape, TypeOK
  <2>4. Shape'
    BY <2>1, <2>2 DEF TypeShape, Shape
  <2> QED BY <2>3, <2>4 DEF TypeShape
<1> QED BY <1>1, <1>2, <1>3, <1>4 DEF Next

LEMMA ShapeIsKept == Spec => []TypeShape
BY InitShape, NextShape, PTL DEF Spec

\* Through every load the positions stay those of rows that exist, known projects are on
\* chain, and what is read and answered belongs to the rooms asked for.
THEOREM TypeCorrect == Spec => []TypeOK
BY ShapeIsKept, PTL DEF TypeShape

-----------------------------------------------------------------------------
(* No row is skipped. *)

\* Where the rows that are known of a room end.
PositionOf(o) == IF o \in Known THEN Position(o) ELSE 0

\* An answer that has a row of a room has all of them up to it, or all from the known
\* position on; and in the first case all up to the known position, if the room is not
\* one that lost rows.
ReachesBack(b, o, i) ==
  /\ 1..i \subseteq Answer(b, o)
  /\ o \in cut \/ 1..PositionOf(o) \subseteq Answer(b, o)
GoesOn(b, o, i) ==
  /\ o \in Known /\ i > Position(o)
  /\ (Position(o) + 1)..i \subseteq Answer(b, o)
AnswersAreWhole ==
  \A b \in DOMAIN batch_results : \A o \in OclIds : \A i \in Answer(b, o) :
    ReachesBack(b, o, i) \/ GoesOn(b, o, i)

\* What is not answered in this step is as it was.
LEMMA OtherAnswersStay ==
  ASSUME NEW b, NEW o, NEW i, off_chain_ocl_project_map' = off_chain_ocl_project_map,
         cut \subseteq cut', batch_results'[b] = batch_results[b]
  PROVE  /\ Answer(b, o)' = Answer(b, o)
         /\ ReachesBack(b, o, i) => ReachesBack(b, o, i)'
         /\ GoesOn(b, o, i) => GoesOn(b, o, i)'
<1>1. Answer(b, o)' = Answer(b, o)
  BY DEF Answer
<1>2. Known' = Known /\ Position(o)' = Position(o) /\ PositionOf(o)' = PositionOf(o)
  BY DEF Known, Position, PositionOf
<1> QED BY <1>1, <1>2 DEF ReachesBack, GoesOn

LEMMA AnswerBatchIsWhole ==
  ASSUME TypeShape, AnswersAreWhole, AnswerBatch
  PROVE  AnswersAreWhole'
<1>1. UNCHANGED <<rooms, data_rooms, off_chain_ocl_project_map>>
  BY AnswerBatchIs
<1>2. PICK b \in Batches :
        /\ batch_results' = [c \in DOMAIN batch_results \cup {b} |->
                               IF c = b THEN FirstRows(MatchingRows(b)) ELSE batch_results[c]]
        /\ cut' = cut \cup {o \in FullScans(b) :
                              rooms[o] # <<>> /\ <<o, Len(rooms[o])>> \notin batch_results'[b]}
  BY AnswerBatchIs
<1>3. rooms \in [OclIds -> Rows] /\ data_rooms \in Requests
  BY DEF TypeShape, TypeOK, Requests
<1>4. Known' = Known /\ \A o : Position(o)' = Position(o) /\ PositionOf(o)' = PositionOf(o)
  BY <1>1 DEF Known, Position, PositionOf
<1> DEFINE answer == FirstRows(MatchingRows(b))
<1>5. /\ \A row \in answer : \E o \in OclIds : \E i \in DOMAIN rooms[o] :
           /\ row = <<o, i>>
           /\ \E k \in DOMAIN data_rooms :
                BatchOf(k) = b /\ data_rooms[k].room = o /\ data_rooms[k].offset <= i
      /\ \A o \in OclIds : \A j \in DOMAIN rooms[o] : <<o, j>> \in answer =>
           \A k \in DOMAIN data_rooms :
             (BatchOf(k) = b /\ data_rooms[k].room = o) =>
               \A i \in data_rooms[k].offset..j : <<o, i>> \in answer
  BY <1>3, AnswerIs
<1>6. batch_results'[b] = answer
  BY <1>2
<1> HIDE DEF answer
<1>7. \A o : Answer(b, o)' = {i \in Nat : <<o, i>> \in answer}
  BY <1>6 DEF Answer
<1> SUFFICES ASSUME NEW c \in DOMAIN batch_results', NEW o \in OclIds, NEW i \in Answer(c, o)'
             PROVE  ReachesBack(c, o, i)' \/ GoesOn(c, o, i)'
  BY DEF AnswersAreWhole
<1>8. CASE c # b
  <2>1. c \in DOMAIN batch_results /\ batch_results'[c] = batch_results[c] /\ cut \subseteq cut'
    BY <1>2, <1>8
  <2>2. i \in Answer(c, o)
    BY <1>1, <2>1, OtherAnswersStay
  <2>3. ReachesBack(c, o, i) \/ GoesOn(c, o, i)
    BY <2>1, <2>2 DEF AnswersAreWhole
  <2> QED BY <1>1, <2>1, <2>3, OtherAnswersStay
<1>9. CASE c = b
  <2>1. i \in Nat /\ <<o, i>> \in answer
    BY <1>7, <1>9
  <2>2. PICK o1 \in OclIds : \E i1 \in DOMAIN rooms[o1] :
          /\ <<o, i>> = <<o1, i1>>
          /\ \E k \in DOMAIN data_rooms :
               BatchOf(k) = b /\ data_rooms[k].room = o1 /\ data_rooms[k].offset <= i1
    BY <1>5, <2>1
  <2>3. i \in DOMAIN rooms[o] /\ \E k \in DOMAIN data_rooms :
               BatchOf(k) = b /\ data_rooms[k].room = o /\ data_rooms[k].offset <= i
    BY <2>2
  <2>4. PICK k \in DOMAIN data_rooms :
               BatchOf(k) = b /\ data_rooms[k].room = o /\ data_rooms[k].offset <= i
    BY <2>3
  <2>5. \A j \in DOMAIN rooms[o] : <<o, j>> \in answer =>
          \A n \in data_rooms[k].offset..j : <<o, n>> \in answer
    BY <1>5, <2>4
  <2>6. IsRequest(data_rooms[k])
    BY DEF TypeShape, Shape
  <2>7. rooms[o] \in Rows
    BY <1>3
  <2>8. Len(rooms[o]) \in Nat /\ DOMAIN rooms[o] = 1..Len(rooms[o])
    BY <2>7 DEF Rows
  <2>9. CASE data_rooms[k] = FullScan(o)
    <3>1. data_rooms[k].offset = 1
      BY <2>9 DEF FullScan
    <3>2. 1..i \subseteq Answer(b, o)'
      <4>1. \A n \in 1..i : n \in Nat /\ <<o, n>> \in answer
        BY <2>1, <2>3, <2>5, <3>1
      <4> QED BY <1>7, <4>1
    <3>3. ASSUME o \notin cut' PROVE 1..PositionOf(o) \subseteq Answer(b, o)'
      <4>1. o \in FullScans(b)
        BY <2>4, <2>9 DEF FullScans
      <4>2. Len(rooms[o]) >= 1
        BY <2>3, <2>8
      <4>3. rooms[o] # <<>>
        BY <4>2
      <4>4. <<o, Len(rooms[o])>> \in answer
        BY <1>2, <1>6, <3>3, <4>1, <4>3
      <4>5. \A n \in 1..Len(rooms[o]) : n \in Nat /\ <<o, n>> \in answer
        BY <2>5, <2>8, <3>1, <4>2, <4>4
      <4>6. PositionOf(o) \in 0..Len(rooms[o])
        BY <2>8 DEF PositionOf, Position, TypeShape, TypeOK
      <4>7. \A n \in 1..PositionOf(o) : n \in 1..Len(rooms[o])
        BY <2>8, <4>6
      <4> QED BY <1>7, <4>5, <4>7
    <3> QED BY <1>4, <1>9, <3>2, <3>3 DEF ReachesBack
  <2>10. CASE o \in Known /\ data_rooms[k] = NextRow(o)
    <3>1. data_rooms[k].offset = Position(o) + 1
      BY <2>10 DEF NextRow, Position
    <3>2. Position(o) \in Nat
      BY <2>8, <2>10 DEF Position, TypeShape, TypeOK
    <3>3. i > Position(o)
      BY <2>1, <2>4, <3>1, <3>2
    <3>4. (Position(o) + 1)..i \subseteq Answer(b, o)'
      <4>1. \A n \in (Position(o) + 1)..i : n \in Nat /\ <<o, n>> \in answer
        BY <2>1, <2>3, <2>5, <3>1, <3>2
      <4> QED BY <1>7, <4>1
    <3> QED BY <1>4, <1>9, <2>10, <3>3, <3>4 DEF GoesOn
  <2> QED BY <2>4, <2>6, <2>9, <2>10 DEF IsRequest
<1> QED BY <1>8, <1>9

\* A step that leaves no answers there leaves none to look at.
LEMMA NoAnswersAreWhole ==
  ASSUME batch_results' = <<>>
  PROVE  AnswersAreWhole'
BY DEF AnswersAreWhole

LEMMA AnswersStayWhole ==
  ASSUME TypeShape, AnswersAreWhole, [Next]_vars
  PROVE  AnswersAreWhole'
<1>1. ASSUME UNCHANGED <<batch_results, off_chain_ocl_project_map, cut>>
      PROVE  AnswersAreWhole'
  <2>1. \A b, o : Answer(b, o)' = Answer(b, o)
    BY <1>1 DEF Answer
  <2>2. Known' = Known /\ \A o : Position(o)' = Position(o) /\ PositionOf(o)' = PositionOf(o)
    BY <1>1 DEF Known, Position, PositionOf
  <2> QED BY <1>1, <2>1, <2>2 DEF AnswersAreWhole, ReachesBack, GoesOn
<1>2. CASE World
  <2>1. UNCHANGED <<batch_results, off_chain_ocl_project_map, cut>>
    BY <1>2 DEF World, ChangeProjects, ChangeRoom, SetLevel, DeleteDataset, IndexOcl, NodeEvent,
                loadVars, stateVars, historyVars
  <2> QED BY <1>1, <2>1
<1>3. CASE AnswerBatch
  BY <1>3, AnswerBatchIsWhole
<1>4. CASE ReadProjects \/ FailBatch \/ ProcessProjects \/ Crash
  <2>1. batch_results' = <<>>
    BY <1>4 DEF ReadProjects, FailBatch, ProcessProjects, Crash, Restart
  <2> QED BY <2>1, NoAnswersAreWhole
<1>5. CASE UNCHANGED vars
  BY <1>1, <1>5 DEF vars, loadVars, stateVars, historyVars
<1> QED BY <1>2, <1>3, <1>4, <1>5 DEF Next, Load

\* What was read of a room, in parts that begin with the first row or behind the known
\* position.
LEMMA ReadIsReading ==
  ASSUME TypeShape, AnswersAreWhole, Pending = {}, NEW read \in RowsAsTheyCome,
         NEW o \in OclIds, read[o] # <<>>
  PROVE  /\ o \notin cut => \E part : IsReading(rooms[o], read[o], part, PositionOf(o))
         /\ \A i \in 1..read[o][Len(read[o])] :
              i \in Range(read[o]) \/ (o \in Known /\ i <= Position(o))
<1> DEFINE offsets == read[o]
           n == Len(offsets)
<1>1. PICK part \in [DOMAIN offsets -> Nat] :
        \E batch \in [DOMAIN offsets -> DOMAIN batch_results] :
              /\ offsets \in Seq(DOMAIN rooms[o])
              /\ ComeInParts(offsets, part)
              /\ \A p \in DOMAIN offsets :
                   /\ offsets[p] \in Answer(batch[p], o)
                   /\ \A i \in Answer(batch[p], o) : IsInPart(offsets, part, p, i)
  BY ReadInParts
<1>2. PICK batch \in [DOMAIN offsets -> DOMAIN batch_results] :
              /\ offsets \in Seq(DOMAIN rooms[o])
              /\ ComeInParts(offsets, part)
              /\ \A p \in DOMAIN offsets :
                   /\ offsets[p] \in Answer(batch[p], o)
                   /\ \A i \in Answer(batch[p], o) : IsInPart(offsets, part, p, i)
  BY <1>1
<1>3. rooms[o] \in Rows
  BY DEF TypeShape, TypeOK
<1>4. Len(rooms[o]) \in Nat /\ DOMAIN rooms[o] = 1..Len(rooms[o])
  BY <1>3 DEF Rows
<1>5. PositionOf(o) \in Nat /\ (o \in Known => Position(o) = PositionOf(o))
  BY <1>4 DEF PositionOf, Position, TypeShape, TypeOK
<1>6. \A p \in DOMAIN offsets :
        ReachesBack(batch[p], o, offsets[p]) \/ GoesOn(batch[p], o, offsets[p])
  BY <1>2 DEF AnswersAreWhole
<1>7. n \in Nat /\ DOMAIN offsets = 1..n /\ n \in DOMAIN offsets
  BY <1>2
<1>8. ASSUME o \notin cut PROVE IsReading(rooms[o], offsets, part, PositionOf(o))
  <2>1. ASSUME NEW p \in DOMAIN offsets, ReachesBack(batch[p], o, offsets[p])
        PROVE  IsWhole(offsets, part, PositionOf(o), p)
    <3>1. 1..offsets[p] \subseteq Answer(batch[p], o) /\ 1..PositionOf(o) \subseteq Answer(batch[p], o)
      BY <1>8, <2>1 DEF ReachesBack
    <3> QED BY <1>2, <3>1 DEF IsWhole
  <2>2. ASSUME NEW p \in DOMAIN offsets, GoesOn(batch[p], o, offsets[p])
        PROVE  IsRest(offsets, part, PositionOf(o), p)
    <3>1. offsets[p] > PositionOf(o) /\ (PositionOf(o) + 1)..offsets[p] \subseteq Answer(batch[p], o)
      BY <1>5, <2>2 DEF GoesOn
    <3> QED BY <1>2, <3>1 DEF IsRest
  <2>3. \A p \in DOMAIN offsets :
          IsWhole(offsets, part, PositionOf(o), p) \/ IsRest(offsets, part, PositionOf(o), p)
    BY <1>6, <2>1, <2>2
  <2>4. offsets \in Seq(1..Len(rooms[o]))
    BY <1>2, <1>4
  <2> QED BY <1>1, <1>2, <2>3, <2>4 DEF IsReading
<1>9. ASSUME NEW i \in 1..offsets[n]
      PROVE  i \in Range(offsets) \/ (o \in Known /\ i <= Position(o))
  <2>1. offsets[n] \in Nat
    BY <1>2, <1>4, <1>7
  <2>2. i \in Answer(batch[n], o) \/ (o \in Known /\ i <= Position(o))
    <3>1. CASE ReachesBack(batch[n], o, offsets[n])
      BY <3>1 DEF ReachesBack
    <3>2. CASE GoesOn(batch[n], o, offsets[n])
      <4>1. o \in Known /\ (Position(o) + 1)..offsets[n] \subseteq Answer(batch[n], o)
        BY <3>2 DEF GoesOn
      <4>2. i <= Position(o) \/ i \in (Position(o) + 1)..offsets[n]
        BY <1>5, <2>1, <4>1
      <4> QED BY <4>1, <4>2
    <3> QED BY <1>6, <1>7, <3>1, <3>2
  <2>3. ASSUME i \in Answer(batch[n], o) PROVE i \in Range(offsets)
    <3>1. IsInPart(offsets, part, n, i)
      BY <1>2, <1>7, <2>3
    <3> QED BY <3>1 DEF IsInPart, Range
  <2> QED BY <2>2, <2>3
<1> QED BY <1>8, <1>9

\* The inductive invariant: answers are whole and what lies behind has been folded.
RowsInv == TypeShape /\ AnswersAreWhole /\ NoRowIsSkipped

LEMMA ProcessProjectsSkipsNone ==
  ASSUME RowsInv, ProcessProjects
  PROVE  NoRowIsSkipped'
<1>1. TypeShape /\ AnswersAreWhole /\ NoRowIsSkipped
  BY DEF RowsInv
<1>2. Pending = {} /\ UNCHANGED rooms
  BY ProcessProjectsIs
<1>0. PICK read \in RowsAsTheyCome : \E entries : ProcessesAs(read, entries)
  BY ProcessProjectsIs
<1>3. PICK entries : ProcessesAs(read, entries)
  BY <1>0
<1>4. \A o \in DOMAIN entries : IsProcessed(o, read, entries)
  BY <1>1, <1>2, <1>3, ReadRoomsAreProcessed DEF ProcessesAs
<1>5. Known' = Known \cup DOMAIN entries
  BY <1>3 DEF ProcessesAs, Known
<1>6. folded' = [o \in OclIds |->
                   IF o \in DOMAIN entries THEN folded[o] \cup Range(read[o]) ELSE folded[o]]
  BY <1>3 DEF ProcessesAs
<1> SUFFICES ASSUME NEW o \in Known', NEW i \in 1..(Position(o)') PROVE i \in folded'[o]
  BY DEF NoRowIsSkipped
<1>7. CASE o \in DOMAIN entries
  <2>1. IsProcessed(o, read, entries)
    BY <1>4, <1>7
  <2>2. o \in OclIds /\ read[o] # <<>>
          /\ entries[o].latest_data_room_offset = read[o][Len(read[o])]
    BY <2>1 DEF IsProcessed
  <2>3. off_chain_ocl_project_map'[o] = Processed(o, entries[o]).project
    BY <1>3, <1>7 DEF ProcessesAs
  <2>4. Processed(o, entries[o]).project.latest_data_room_offset = read[o][Len(read[o])]
    BY <1>1, <2>1, <2>2, ProcessedType
  <2>5. Position(o)' = read[o][Len(read[o])]
    BY <2>3, <2>4 DEF Position
  <2>6. i \in Range(read[o]) \/ (o \in Known /\ i <= Position(o))
    BY <1>1, <1>2, <2>2, <2>5, ReadIsReading
  <2>7. ASSUME o \in Known, i <= Position(o) PROVE i \in folded[o]
    <3>1. Position(o) \in Nat
      <4>1. rooms[o] \in Rows /\ Position(o) \in DOMAIN rooms[o]
        BY <1>1, <2>2, <2>7 DEF TypeShape, TypeOK, Position
      <4> QED BY <4>1 DEF Rows
    <3>2. i \in 1..Position(o)
      BY <2>7, <3>1
    <3> QED BY <1>1, <2>7, <3>2 DEF NoRowIsSkipped
  <2>8. folded'[o] = folded[o] \cup Range(read[o])
    BY <1>6, <1>7, <2>2
  <2> QED BY <2>6, <2>7, <2>8
<1>8. CASE o \notin DOMAIN entries
  <2>1. o \in Known /\ off_chain_ocl_project_map'[o] = off_chain_ocl_project_map[o]
    BY <1>3, <1>5, <1>8 DEF ProcessesAs
  <2>2. Position(o)' = Position(o)
    BY <2>1 DEF Position
  <2>3. i \in folded[o]
    BY <1>1, <2>1, <2>2 DEF NoRowIsSkipped
  <2>4. i \in folded'[o]
    <3>1. CASE o \in OclIds
      BY <1>6, <1>8, <2>3, <3>1
    <3>2. o \in OclIds
      BY <1>1, <2>1 DEF TypeShape, TypeOK
    <3> QED BY <3>1, <3>2
  <2> QED BY <2>4
<1> QED BY <1>7, <1>8

LEMMA InitSkipsNone == Init => RowsInv
<1> SUFFICES ASSUME Init PROVE RowsInv
  OBVIOUS
<1>1. TypeShape
  BY InitShape
<1>2. batch_results = <<>> /\ Known = {}
  BY DEF Init, Known
<1> QED BY <1>1, <1>2 DEF RowsInv, AnswersAreWhole, NoRowIsSkipped

LEMMA NextSkipsNone == RowsInv /\ [Next]_vars => RowsInv'
<1> SUFFICES ASSUME RowsInv, [Next]_vars PROVE RowsInv'
  OBVIOUS
<1>1. TypeShape' /\ AnswersAreWhole'
  BY NextShape, AnswersStayWhole DEF RowsInv
<1>2. ASSUME UNCHANGED <<off_chain_ocl_project_map, folded>> PROVE NoRowIsSkipped'
  BY <1>2 DEF RowsInv, NoRowIsSkipped, Known, Position
<1>3. CASE World
  <2>1. UNCHANGED <<off_chain_ocl_project_map, folded>>
    BY <1>3 DEF World, ChangeProjects, ChangeRoom, SetLevel, DeleteDataset, IndexOcl, NodeEvent,
                stateVars, historyVars
  <2> QED BY <1>1, <1>2, <2>1 DEF RowsInv
<1>4. CASE ReadProjects \/ AnswerBatch
  <2>1. UNCHANGED <<off_chain_ocl_project_map, folded>>
    BY <1>4 DEF ReadProjects, AnswerBatch, stateVars, historyVars
  <2> QED BY <1>1, <1>2, <2>1 DEF RowsInv
<1>5. CASE ProcessProjects
  BY <1>1, <1>5, ProcessProjectsSkipsNone DEF RowsInv
<1>6. CASE FailBatch \/ Crash
  <2>1. Known' = {}
    BY <1>6 DEF FailBatch, Crash, Restart, Known
  <2> QED BY <1>1, <2>1 DEF RowsInv, NoRowIsSkipped
<1>7. CASE UNCHANGED vars
  <2>1. UNCHANGED <<off_chain_ocl_project_map, folded>>
    BY <1>7 DEF vars, stateVars, historyVars
  <2> QED BY <1>1, <1>2, <2>1 DEF RowsInv
<1> QED BY <1>3, <1>4, <1>5, <1>6, <1>7 DEF Next, Load

LEMMA RowsInvIsKept == Spec => []RowsInv
BY InitSkipsNone, NextSkipsNone, PTL DEF Spec

\* However the answers are cut and in whatever order they come, the next load of a known
\* project's data room starts behind rows that were all folded.
THEOREM RowsAreNotSkipped == Spec => []NoRowIsSkipped
BY RowsInvIsKept, PTL DEF RowsInv

-----------------------------------------------------------------------------
(* What is handed on is what the ledgers say. *)

\* The project of a room is handed on as one that was not deleted, if it is known.
IsAppended(o) == o \in Known => off_chain_ocl_project_map[o].op = "Append"

\* What was handed on of the files without unread rows, wherever reading has got to.
ReportsFollow ==
  \A o \in OclIds \ cut : IsAppended(o) =>
    \A f \in Files :
      IsReadUpTo(rooms[o], f, PositionOf(o)) =>
        Agrees(rooms[o], f, reported[o][f], f \in unleveled[o])

ReportsInv == TypeShape /\ AnswersAreWhole /\ ReportsFollow

\* A row of another file leaves a file where it was.
LEMMA OtherFilesStay ==
  ASSUME NEW rows \in Rows, NEW row, NEW f \in Files, row.file # f
  PROVE  f \in AddedEntities(Append(rows, row), 1) <=> f \in AddedEntities(rows, 1)
<1> DEFINE more == Append(rows, row)
           n == Len(rows)
<1>1. n \in Nat /\ Len(more) = n + 1 /\ more[n + 1] = row /\ \A i \in 1..n : more[i] = rows[i]
  BY DEF Rows
<1> HIDE DEF more, n
<1>2. ASSUME NEW i \in 1..n
      PROVE  (\A j \in i..(n + 1) : more[j].file = f => more[j].op # "Retract")
               <=> (\A j \in i..n : rows[j].file = f => rows[j].op # "Retract")
  <2>1. \A j \in i..n : j \in 1..n /\ j \in i..(n + 1)
    BY <1>1
  <2>2. \A j \in i..(n + 1) : j = n + 1 \/ j \in i..n
    BY <1>1
  <2> QED BY <1>1, <2>1, <2>2
<1>3. \A i \in 1..(n + 1) : more[i].file = f => i \in 1..n
  <2>1. \A i \in 1..(n + 1) : i = n + 1 \/ i \in 1..n
    BY <1>1
  <2> QED BY <1>1, <2>1
<1>4. 1..n \subseteq 1..(n + 1)
  BY <1>1
<1>5. f \in AddedEntities(more, 1) <=>
        \E i \in 1..(n + 1) :
          more[i].file = f /\ \A j \in i..(n + 1) : more[j].file = f => more[j].op # "Retract"
  BY <1>1 DEF AddedEntities
<1>6. f \in AddedEntities(rows, 1) <=>
        \E i \in 1..n : rows[i].file = f /\ \A j \in i..n : rows[j].file = f => rows[j].op # "Retract"
  BY DEF AddedEntities, n
<1>7. f \in AddedEntities(more, 1) <=> f \in AddedEntities(rows, 1)
  BY <1>1, <1>2, <1>3, <1>4, <1>5, <1>6
<1> QED BY <1>7 DEF more

\* A new row lies beyond what has been read: its file is not judged until it is read too.
LEMMA ChangeRoomReports ==
  ASSUME ReportsInv, ChangeRoom
  PROVE  ReportsFollow'
<1>1. TypeShape /\ ReportsFollow
  BY DEF ReportsInv
<1>2. UNCHANGED <<off_chain_ocl_project_map, reported, unleveled, cut>>
  BY DEF ChangeRoom, NodeEvent, stateVars, historyVars
<1>3. PICK o \in OclIds, row \in [op : RowOps, file : Files] :
        rooms' = [rooms EXCEPT ![o] = Append(@, row)]
  BY DEF ChangeRoom
<1>4. Known' = Known /\ \A q : PositionOf(q)' = PositionOf(q) /\ (IsAppended(q)' <=> IsAppended(q))
  BY <1>2 DEF Known, Position, PositionOf, IsAppended
<1>5. rooms \in [OclIds -> Rows]
  BY <1>1 DEF TypeShape, TypeOK
<1> SUFFICES ASSUME NEW q \in OclIds \ cut, IsAppended(q), NEW f \in Files,
                    IsReadUpTo(rooms'[q], f, PositionOf(q))
             PROVE  Agrees(rooms'[q], f, reported[q][f], f \in unleveled[q])
  BY <1>2, <1>4 DEF ReportsFollow
<1>6. CASE q # o
  <2>1. rooms'[q] = rooms[q]
    BY <1>3, <1>5, <1>6
  <2> QED BY <1>1, <2>1 DEF ReportsFollow
<1>7. CASE q = o
  <2>1. rooms[o] \in Rows /\ rooms'[o] = Append(rooms[o], row)
    BY <1>3, <1>5
  <2>2. Len(rooms[o]) \in Nat /\ DOMAIN rooms[o] = 1..Len(rooms[o])
          /\ Len(rooms'[o]) = Len(rooms[o]) + 1 /\ rooms'[o][Len(rooms[o]) + 1] = row
          /\ \A i \in 1..Len(rooms[o]) : rooms'[o][i] = rooms[o][i]
    BY <2>1 DEF Rows
  <2>3. PositionOf(o) \in 0..Len(rooms[o])
    BY <1>1, <2>2 DEF PositionOf, Position, TypeShape, TypeOK
  <2>4. row.file # f
    <3> SUFFICES ASSUME row.file = f PROVE FALSE
      OBVIOUS
    <3>1. Len(rooms[o]) + 1 \in 1..Len(rooms'[o])
      BY <2>2
    <3>2. Len(rooms[o]) + 1 <= PositionOf(o)
      BY <1>7, <2>2, <3>1 DEF IsReadUpTo
    <3> QED BY <2>2, <2>3, <3>2
  <2>5. IsReadUpTo(rooms[o], f, PositionOf(o))
    <3> SUFFICES ASSUME NEW i \in 1..Len(rooms[o]), rooms[o][i].file = f PROVE i <= PositionOf(o)
      BY DEF IsReadUpTo
    <3>1. i \in 1..Len(rooms'[o]) /\ rooms'[o][i].file = f
      BY <2>2
    <3> QED BY <1>7, <3>1 DEF IsReadUpTo
  <2>6. Agrees(rooms[o], f, reported[o][f], f \in unleveled[o])
    BY <1>1, <1>7, <2>5 DEF ReportsFollow
  <2>7. f \in AddedEntities(rooms'[o], 1) <=> f \in AddedEntities(rooms[o], 1)
    BY <2>1, <2>4, OtherFilesStay
  <2> QED BY <1>7, <2>6, <2>7 DEF Agrees
<1> QED BY <1>6, <1>7

LEMMA ProcessProjectsReports ==
  ASSUME ReportsInv, ProcessProjects
  PROVE  ReportsFollow'
<1>1. TypeShape /\ AnswersAreWhole /\ ReportsFollow
  BY DEF ReportsInv
<1>2. Pending = {} /\ UNCHANGED <<rooms, levels, cut>>
  BY ProcessProjectsIs
<1>0. PICK read \in RowsAsTheyCome : \E entries : ProcessesAs(read, entries)
  BY ProcessProjectsIs
<1>3. PICK entries : ProcessesAs(read, entries)
  BY <1>0
<1>4. \A o \in DOMAIN entries : IsProcessed(o, read, entries)
  BY <1>1, <1>2, <1>3, ReadRoomsAreProcessed DEF ProcessesAs
<1>5. Known' = Known \cup DOMAIN entries
  BY <1>3 DEF ProcessesAs, Known
<1>6. /\ reported' =
           [o \in OclIds |->
              IF o \in DOMAIN entries
              THEN [f \in Files |-> Report(Processed(o, entries[o]).changes, f, reported[o][f])]
              ELSE reported[o]]
      /\ unleveled' =
           [o \in OclIds |->
              IF o \in DOMAIN entries
              THEN unleveled[o] \cup {f \in entries[o].added_entities : levels[o][f] = NoLevel}
              ELSE unleveled[o]]
  BY <1>3 DEF ProcessesAs
<1> SUFFICES ASSUME NEW o \in OclIds \ cut, IsAppended(o)', NEW f \in Files,
                    IsReadUpTo(rooms[o], f, PositionOf(o)')
             PROVE  Agrees(rooms[o], f, reported'[o][f], f \in unleveled'[o])
  BY <1>2 DEF ReportsFollow
<1>7. CASE o \in DOMAIN entries
  <2> DEFINE done == Processed(o, entries[o])
             offsets == read[o]
             known == PositionOf(o)
  <2>1. IsProcessed(o, read, entries)
    BY <1>4, <1>7
  <2>2. /\ offsets # <<>>
        /\ entries[o].latest_data_room_offset = offsets[Len(offsets)]
        /\ entries[o].added_entities = AddedEntities(RowsAt(rooms[o], offsets), 1)
        /\ entries[o].removed_entities = RemovedEntities(RowsAt(rooms[o], offsets), 1)
    BY <2>1 DEF IsProcessed
  <2>3. o \in Known' /\ off_chain_ocl_project_map'[o] = done.project
    BY <1>3, <1>5, <1>7 DEF ProcessesAs
  <2>4. done.project.op = "Append"
    BY <2>3 DEF IsAppended
  <2>5. /\ done.project.latest_data_room_offset = offsets[Len(offsets)]
        /\ o \in Known => off_chain_ocl_project_map[o].op = "Append"
        /\ ChangesFollow(done.changes, entries[o], levels[o], f)
    BY <1>1, <2>1, <2>2, <2>4, ProcessedType
  <2>6. PositionOf(o)' = offsets[Len(offsets)]
    BY <2>3, <2>5 DEF PositionOf, Position
  <2>7. reported'[o][f] = Report(done.changes, f, reported[o][f])
    BY <1>6, <1>7
  <2>8. reported'[o][f] = StatusOf(entries[o], levels[o], f, reported[o][f])
    BY <2>5, <2>7, ChangesGiveStatus
  <2>9. f \in unleveled'[o] <=>
          f \in unleveled[o] \/ (f \in entries[o].added_entities /\ levels[o][f] = NoLevel)
    BY <1>6, <1>7
  <2>10. rooms[o] \in Rows /\ IsKept(rooms[o])
    BY <1>1 DEF TypeShape, TypeOK, Shape
  <2>11. known \in Nat
    <3>1. Len(rooms[o]) \in Nat /\ DOMAIN rooms[o] = 1..Len(rooms[o])
      BY <2>10 DEF Rows
    <3> QED BY <1>1, <3>1 DEF PositionOf, Position, TypeShape, TypeOK
  <2>12. PICK part : IsReading(rooms[o], offsets, part, known)
    BY <1>1, <1>2, <2>2, ReadIsReading
  <2>13. IsReadUpTo(rooms[o], f, known) => Agrees(rooms[o], f, reported[o][f], f \in unleveled[o])
    BY <1>1, <2>5 DEF ReportsFollow, IsAppended
  <2>14. IsReadUpTo(rooms[o], f, offsets[Len(offsets)])
    BY <2>6
  <2> HIDE DEF done, known, offsets
  <2>15. Agrees(rooms[o], f, StatusOf(entries[o], levels[o], f, reported[o][f]),
                f \in unleveled[o] \/ (f \in entries[o].added_entities /\ levels[o][f] = NoLevel))
    <3> DEFINE ls == levels[o]
               before == reported[o][f]
               unlevel == f \in unleveled[o]
               found == entries[o]
    <3>1. unlevel \in BOOLEAN
      OBVIOUS
    <3>2. /\ found.added_entities = AddedEntities(RowsAt(rooms[o], offsets), 1)
          /\ found.removed_entities = RemovedEntities(RowsAt(rooms[o], offsets), 1)
      BY <2>2
    <3>3. IsReadUpTo(rooms[o], f, known) => Agrees(rooms[o], f, before, unlevel)
      BY <2>13
    <3> HIDE DEF ls, before, unlevel, found
    <3>4. Agrees(rooms[o], f, StatusOf(found, ls, f, before),
                 unlevel \/ (f \in found.added_entities /\ ls[f] = NoLevel))
      BY <2>10, <2>11, <2>12, <2>14, <3>1, <3>2, <3>3, ReadingAgrees
    <3> QED BY <3>4 DEF ls, before, unlevel, found
  <2> QED BY <2>8, <2>9, <2>15 DEF Agrees
<1>8. CASE o \notin DOMAIN entries
  <2>1. (o \in Known' <=> o \in Known)
          /\ (o \in Known => off_chain_ocl_project_map'[o] = off_chain_ocl_project_map[o])
    BY <1>3, <1>5, <1>8 DEF ProcessesAs
  <2>2. PositionOf(o)' = PositionOf(o) /\ IsAppended(o)
    BY <2>1 DEF PositionOf, Position, IsAppended
  <2>3. reported'[o] = reported[o] /\ unleveled'[o] = unleveled[o]
    BY <1>6, <1>8
  <2> QED BY <1>1, <2>2, <2>3 DEF ReportsFollow
<1> QED BY <1>7, <1>8

\* Nothing has been handed on by a process that has read nothing.
NoReports == Known = {} /\ reported = [o \in OclIds |-> [f \in Files |-> "none"]]

LEMMA NothingReported == NoReports => ReportsFollow
<1> SUFFICES ASSUME NoReports, NEW o \in OclIds, NEW f \in Files, IsReadUpTo(rooms[o], f, 0)
             PROVE  Agrees(rooms[o], f, reported[o][f], f \in unleveled[o])
  BY DEF ReportsFollow, PositionOf, NoReports
<1>1. \A i \in 1..Len(rooms[o]) : rooms[o][i].file # f
  <2>1. \A i \in 1..Len(rooms[o]) : ~ i <= 0
    OBVIOUS
  <2> QED BY <2>1 DEF IsReadUpTo
<1>2. f \notin AddedEntities(rooms[o], 1)
  BY <1>1 DEF AddedEntities
<1> QED BY <1>2 DEF Agrees, NoReports

LEMMA InitReports == Init => ReportsInv
<1> SUFFICES ASSUME Init PROVE ReportsInv
  OBVIOUS
<1>1. TypeShape /\ AnswersAreWhole
  BY InitSkipsNone DEF RowsInv
<1>2. NoReports
  BY DEF Init, Known, NoReports
<1> QED BY <1>1, <1>2, NothingReported DEF ReportsInv

LEMMA NextReports == ReportsInv /\ [Next]_vars => ReportsInv'
<1> SUFFICES ASSUME ReportsInv, [Next]_vars PROVE ReportsInv'
  OBVIOUS
<1>1. TypeShape' /\ AnswersAreWhole'
  BY NextShape, AnswersStayWhole DEF ReportsInv
<1>2. ASSUME UNCHANGED <<rooms, off_chain_ocl_project_map, reported, unleveled>>, cut \subseteq cut'
      PROVE  ReportsFollow'
  <2>1. Known' = Known /\ \A q : PositionOf(q)' = PositionOf(q) /\ (IsAppended(q)' <=> IsAppended(q))
    BY <1>2 DEF Known, Position, PositionOf, IsAppended
  <2> QED BY <1>2, <2>1 DEF ReportsInv, ReportsFollow
<1>3. CASE ChangeRoom
  BY <1>1, <1>3, ChangeRoomReports DEF ReportsInv
<1>4. CASE ChangeProjects \/ SetLevel \/ DeleteDataset \/ IndexOcl
  <2>1. UNCHANGED <<rooms, off_chain_ocl_project_map, reported, unleveled, cut>>
    BY <1>4 DEF ChangeProjects, SetLevel, DeleteDataset, IndexOcl, NodeEvent, stateVars, historyVars
  <2> QED BY <1>1, <1>2, <2>1 DEF ReportsInv
<1>5. CASE ReadProjects
  <2>1. UNCHANGED <<rooms, off_chain_ocl_project_map, reported, unleveled, cut>>
    BY <1>5 DEF ReadProjects, worldVars, stateVars, historyVars
  <2> QED BY <1>1, <1>2, <2>1 DEF ReportsInv
<1>6. CASE AnswerBatch
  <2>1. UNCHANGED <<rooms, off_chain_ocl_project_map, reported, unleveled>> /\ cut \subseteq cut'
    BY <1>6 DEF AnswerBatch, worldVars, stateVars
  <2> QED BY <1>1, <1>2, <2>1 DEF ReportsInv
<1>7. CASE ProcessProjects
  BY <1>1, <1>7, ProcessProjectsReports DEF ReportsInv
<1>8. CASE FailBatch \/ Crash
  <2>1. NoReports'
    BY <1>8 DEF FailBatch, Crash, Restart, Known, NoReports
  <2>2. ReportsFollow'
    BY <2>1, NothingReported, PTL
  <2> QED BY <1>1, <2>2 DEF ReportsInv
<1>9. CASE UNCHANGED vars
  <2>1. UNCHANGED <<rooms, off_chain_ocl_project_map, reported, unleveled, cut>>
    BY <1>9 DEF vars, worldVars, stateVars, historyVars
  <2> QED BY <1>1, <1>2, <2>1 DEF ReportsInv
<1> QED BY <1>3, <1>4, <1>5, <1>6, <1>7, <1>8, <1>9 DEF Next, World, Load

LEMMA ReportsInvImplies == ReportsInv => ReportsAgreeWithLedger
<1> SUFFICES ASSUME ReportsInv, NEW o \in Known \ cut, Position(o) = Len(rooms[o]),
                    off_chain_ocl_project_map[o].op = "Append", NEW f \in Files
             PROVE  IF f \in AddedEntities(rooms[o], 1)
                    THEN reported[o][f] = "added" \/ f \in unleveled[o]
                    ELSE reported[o][f] # "added"
  BY DEF ReportsAgreeWithLedger
<1>1. o \in OclIds /\ rooms[o] \in Rows
  BY DEF ReportsInv, TypeShape, TypeOK
<1>2. Len(rooms[o]) \in Nat
  BY <1>1 DEF Rows
<1>3. IsReadUpTo(rooms[o], f, PositionOf(o))
  BY <1>2 DEF IsReadUpTo, PositionOf
<1> QED BY <1>1, <1>3 DEF ReportsInv, ReportsFollow, Agrees, IsAppended

LEMMA ReportsInvIsKept == Spec => []ReportsInv
BY InitReports, NextReports, PTL DEF Spec

\* Once a room has been read to its end, what was last handed on of each file is what the
\* ledger says, however often, in whatever order and in however many loads its rows were
\* read; except for files whose level was missing, and rooms whose full scan was cut.
THEOREM ReportsAgree == Spec => []ReportsAgreeWithLedger
BY ReportsInvIsKept, ReportsInvImplies, PTL

-----------------------------------------------------------------------------
(* The positions move forward. *)

\* What is read last is the end of a part, and lies at least where the known rows end.
LEMMA ReadingMovesForward ==
  ASSUME NEW rows, NEW offsets, NEW part, NEW known \in Nat,
         IsReading(rows, offsets, part, known), Len(rows) \in Nat
  PROVE  offsets[Len(offsets)] >= known
<1> DEFINE n == Len(offsets)
<1>1. /\ offsets \in Seq(Nat) /\ offsets # <<>> /\ part \in [DOMAIN offsets -> Nat]
      /\ ComeInParts(offsets, part)
      /\ \A p \in DOMAIN offsets : IsWhole(offsets, part, known, p) \/ IsRest(offsets, part, known, p)
  BY DEF IsReading
<1>2. n \in Nat /\ DOMAIN offsets = 1..n /\ n \in DOMAIN offsets /\ offsets[n] \in Nat
  BY <1>1
<1>3. CASE IsRest(offsets, part, known, n)
  BY <1>2, <1>3 DEF IsRest
<1>4. CASE IsWhole(offsets, part, known, n)
  <2>1. CASE known = 0
    BY <1>2, <2>1
  <2>2. CASE known # 0
    <3>1. known \in 1..known
      BY <2>2
    <3>2. PICK q \in DOMAIN offsets : part[q] = part[n] /\ offsets[q] = known
      BY <1>4, <3>1 DEF IsWhole, IsInPart
    <3>3. part[q] \in Nat /\ part[n] \in Nat /\ ~ part[q] < part[n]
      BY <1>1, <1>2, <3>2
    <3>4. q = n \/ q < n
      BY <1>2
    <3>5. ASSUME q < n PROVE offsets[q] < offsets[n]
      BY <1>1, <1>2, <3>3, <3>5 DEF ComeInParts
    <3> QED BY <1>2, <3>2, <3>4, <3>5
  <2> QED BY <2>1, <2>2
<1> QED BY <1>1, <1>2, <1>3, <1>4

LEMMA ProcessProjectsMovesForward ==
  ASSUME TypeShape, AnswersAreWhole, ProcessProjects, NEW o \in Known, o \in Known', o \notin cut
  PROVE  Position(o)' >= Position(o)
<1>1. Pending = {} /\ UNCHANGED rooms
  BY ProcessProjectsIs
<1>0. PICK read \in RowsAsTheyCome : \E entries : ProcessesAs(read, entries)
  BY ProcessProjectsIs
<1>2. PICK entries : ProcessesAs(read, entries)
  BY <1>0
<1>3. o \in OclIds /\ rooms[o] \in Rows
  BY DEF TypeShape, TypeOK
<1>4. Len(rooms[o]) \in Nat /\ DOMAIN rooms[o] = 1..Len(rooms[o])
  BY <1>3 DEF Rows
<1>5. PositionOf(o) = Position(o) /\ Position(o) \in Nat
  BY <1>4 DEF PositionOf, Position, TypeShape, TypeOK
<1>6. CASE o \in DOMAIN entries
  <2>1. IsProcessed(o, read, entries)
    BY <1>1, <1>2, <1>6, ReadRoomsAreProcessed DEF ProcessesAs
  <2>2. read[o] # <<>> /\ entries[o].latest_data_room_offset = read[o][Len(read[o])]
    BY <2>1 DEF IsProcessed
  <2>3. off_chain_ocl_project_map'[o] = Processed(o, entries[o]).project
    BY <1>2, <1>6 DEF ProcessesAs
  <2>4. Position(o)' = read[o][Len(read[o])]
    BY <2>1, <2>2, <2>3, ProcessedType DEF Position
  <2>5. PICK part : IsReading(rooms[o], read[o], part, PositionOf(o))
    BY <1>1, <1>3, <2>2, ReadIsReading
  <2> QED BY <1>4, <1>5, <2>4, <2>5, ReadingMovesForward
<1>7. CASE o \notin DOMAIN entries
  <2>1. off_chain_ocl_project_map'[o] = off_chain_ocl_project_map[o]
    BY <1>2, <1>7 DEF ProcessesAs
  <2> QED BY <1>5, <2>1 DEF Position
<1> QED BY <1>6, <1>7

LEMMA NextMovesForward ==
  ASSUME TypeShape, AnswersAreWhole, [Next]_vars, NEW o \in (Known \cap Known') \ cut
  PROVE  Position(o)' >= Position(o)
<1>1. ASSUME UNCHANGED off_chain_ocl_project_map PROVE Position(o)' >= Position(o)
  <2>1. rooms[o] \in Rows /\ Position(o) \in DOMAIN rooms[o]
    BY DEF TypeShape, TypeOK, Position
  <2>2. Position(o) \in Nat
    BY <2>1 DEF Rows
  <2>3. Position(o)' = Position(o)
    BY <1>1 DEF Position
  <2> QED BY <2>2, <2>3
<1>2. CASE World \/ ReadProjects \/ AnswerBatch \/ UNCHANGED vars
  <2>1. UNCHANGED off_chain_ocl_project_map
    BY <1>2 DEF World, ChangeProjects, ChangeRoom, SetLevel, DeleteDataset, IndexOcl, NodeEvent,
                ReadProjects, AnswerBatch, vars, stateVars
  <2> QED BY <1>1, <2>1
<1>3. CASE ProcessProjects
  BY <1>3, ProcessProjectsMovesForward
<1>4. CASE FailBatch \/ Crash
  <2>1. Known' = {}
    BY <1>4 DEF FailBatch, Crash, Restart, Known
  <2> QED BY <2>1
<1> QED BY <1>2, <1>3, <1>4 DEF Next, Load

\* The position of a known room moves forward with every load, whichever answer is folded
\* last, unless a full scan of the room was cut.
THEOREM PositionsOnlyMoveForward == Spec => PositionsMoveForward
<1> DEFINE Step == \A o \in (Known \cap Known') \ cut : Position(o)' >= Position(o)
<1>1. TypeShape /\ AnswersAreWhole /\ [Next]_vars => [Step]_vars
  BY NextMovesForward
<1>2. RowsInv => TypeShape /\ AnswersAreWhole
  BY DEF RowsInv
<1> QED BY <1>1, <1>2, RowsInvIsKept, PTL DEF Spec, PositionsMoveForward
=============================================================================
