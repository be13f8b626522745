------------------------- MODULE LogFetchingProofs -------------------------
(***************************************************************************)
(* Proofs about LogFetching, for every block range, number of windows and  *)
(* pattern of refusals.  The invariant says that the ranges still to be    *)
(* visited tile what is left of the window, from the block reached to the  *)
(* end of the request.                                                     *)
(***************************************************************************)
EXTENDS LogFetching, TLAPS

\* The ranges of s follow one another from a first to a last block.  The last conjunct
\* bounds their number: ranges j - i places apart are at least as many blocks apart.
Tiling(s, first, last) ==
  /\ Len(s) = 0 => first = last + 1
  /\ Len(s) > 0 => s[1].from = first /\ s[Len(s)].to = last
  /\ \A i \in 1..Len(s) : s[i].from <= s[i].to
  /\ \A i \in 1..(Len(s) - 1) : s[i + 1].from = s[i].to + 1
  /\ \A i, j \in 1..Len(s) : i < j => s[j].from >= s[i].to + (j - i)

\* What is left of the window is tiled by the ranges to visit.
RangesTileTheRest == Tiling(ranges, Reached, to_block)

\* A window is only left when it has been read to the end.
WindowsFollow ==
  /\ chunks = <<>> => window = 1
  /\ chunks # <<>> => \/ chunks[Len(chunks)].window = window
                      \/ /\ chunks[Len(chunks)].window = window - 1
                         /\ chunks[Len(chunks)].to = to_block

\* The inductive invariant.
IInv == /\ TypeOK
        /\ RangesTileTheRest
        /\ WindowsFollow
        /\ ChunksAreContiguous
        /\ SuccessIsComplete

-----------------------------------------------------------------------------
(* Ranges and sequences of them. *)

\* The middle of a range of two blocks or more is not its last one.
LEMMA MiddleIsInside ==
  ASSUME NEW range \in Range, range.from < range.to
  PROVE  /\ MiddleBlock(range) \in Nat
         /\ range.from <= MiddleBlock(range) /\ MiddleBlock(range) < range.to
<1>1. range.from \in Nat /\ range.to \in Nat
  BY BoundsAssumption DEF Range, Blocks
<1> QED BY <1>1 DEF MiddleBlock

\* A number is zero, one or more.
LEMMA ZeroOneMore == \A n \in Nat : n = 0 \/ n = 1 \/ n > 1
OBVIOUS

\* A sequence is empty when its length is zero.
LEMMA EmptySequence ==
  ASSUME NEW S, NEW s \in Seq(S)
  PROVE  Len(s) \in Nat /\ (s = <<>> <=> Len(s) = 0)
OBVIOUS

\* The numbers of a sequence of ranges are numbers.
LEMMA RangesAreNumbers ==
  ASSUME NEW s \in Seq(Range)
  PROVE  /\ Len(s) \in Nat
         /\ \A i \in 1..Len(s) : s[i] \in Range /\ s[i].from \in Nat /\ s[i].to \in Nat
<1>1. \A i \in 1..Len(s) : s[i] \in Range
  OBVIOUS
<1> QED BY <1>1, BoundsAssumption DEF Range, Blocks

\* Without its first range, a tiling starts behind that range.
LEMMA TailTiles ==
  ASSUME NEW s \in Seq(Range), s # <<>>, NEW first, NEW last \in Nat, Tiling(s, first, last)
  PROVE  /\ Tail(s) \in Seq(Range) /\ Len(Tail(s)) = Len(s) - 1
         /\ Tiling(Tail(s), s[1].to + 1, last)
<1> DEFINE t == Tail(s)
<1>1. /\ t \in Seq(Range) /\ Len(t) = Len(s) - 1 /\ Len(s) \in Nat /\ Len(s) >= 1
      /\ Len(t) \in Nat /\ \A i \in 1..Len(t) : t[i] = s[i + 1]
  OBVIOUS
<1>2. \A i \in 1..Len(s) : s[i].from \in Nat /\ s[i].to \in Nat
  BY RangesAreNumbers
<1> HIDE DEF t
<1>4. Len(t) = 0 => s[1].to + 1 = last + 1
  <2> SUFFICES ASSUME Len(t) = 0 PROVE s[1].to = last
    OBVIOUS
  <2>1. Len(s) = 1 /\ Len(s) > 0
    BY <1>1
  <2>2. s[Len(s)].to = last
    BY <2>1 DEF Tiling
  <2> QED BY <2>1, <2>2
<1>5. Len(t) > 0 => t[1].from = s[1].to + 1 /\ t[Len(t)].to = last
  <2> SUFFICES ASSUME Len(t) > 0 PROVE t[1].from = s[1].to + 1 /\ t[Len(t)].to = last
    OBVIOUS
  <2>1. Len(t) >= 1 /\ t[1] = s[2] /\ t[Len(t)] = s[Len(s)]
    BY <1>1
  <2>2. s[1 + 1].from = s[1].to + 1
    BY <2>1, <1>1 DEF Tiling
  <2>3. s[Len(s)].to = last
    BY <1>1 DEF Tiling
  <2> QED BY <2>1, <2>2, <2>3
<1>6. \A i \in 1..Len(t) : t[i].from <= t[i].to
  BY <1>1 DEF Tiling
<1>7. \A i \in 1..(Len(t) - 1) : t[i + 1].from = t[i].to + 1
  <2> SUFFICES ASSUME NEW i \in 1..(Len(t) - 1) PROVE t[i + 1].from = t[i].to + 1
    OBVIOUS
  <2>1. t[i] = s[i + 1] /\ t[i + 1] = s[(i + 1) + 1]
    BY <1>1
  <2>2. i + 1 \in 1..(Len(s) - 1)
    BY <1>1
  <2>3. s[(i + 1) + 1].from = s[i + 1].to + 1
    BY <2>2 DEF Tiling
  <2> QED BY <2>1, <2>3
<1>8. \A i, j \in 1..Len(t) : i < j => t[j].from >= t[i].to + (j - i)
  <2> SUFFICES ASSUME NEW i \in 1..Len(t), NEW j \in 1..Len(t), i < j
               PROVE  t[j].from >= t[i].to + (j - i)
    OBVIOUS
  <2>1. t[i] = s[i + 1] /\ t[j] = s[j + 1] /\ i + 1 \in 1..Len(s) /\ j + 1 \in 1..Len(s)
    BY <1>1
  <2>2. s[j + 1].from >= s[i + 1].to + ((j + 1) - (i + 1))
    BY <2>1, <1>1 DEF Tiling
  <2>3. (j + 1) - (i + 1) = j - i
    BY <1>1
  <2> QED BY <2>1, <2>2, <2>3
<1>9. Tiling(t, s[1].to + 1, last)
  BY <1>4, <1>5, <1>6, <1>7, <1>8 DEF Tiling
<1> QED BY <1>1, <1>9 DEF t

\* The halves of the first range tile it.
LEMMA HalvesTile ==
  ASSUME NEW s \in Seq(Range), s # <<>>, NEW first, NEW last \in Nat, Tiling(s, first, last),
         s[1].from < s[1].to, NEW t, t = Halves(s[1]) \o Tail(s)
  PROVE  t \in Seq(Range) /\ Len(t) = Len(s) + 1 /\ Tiling(t, first, last)
<1> DEFINE m == MiddleBlock(s[1])
           a == [from |-> s[1].from, to |-> m]
           b == [from |-> m + 1, to |-> s[1].to]
<1>0. Len(s) \in Nat /\ Len(s) >= 1
  OBVIOUS
<1>1. Len(s) \in Nat /\ Len(s) >= 1 /\ s[1] \in Range
  BY <1>0
<1>2. \A i \in 1..Len(s) : s[i].from \in Nat /\ s[i].to \in Nat
  BY RangesAreNumbers
<1>3. m \in Nat /\ s[1].from <= m /\ m < s[1].to
  BY <1>1, MiddleIsInside
<1> HIDE DEF m
<1>4. a \in Range /\ b \in Range
  BY <1>1, <1>2, <1>3, BoundsAssumption DEF Range, Blocks
<1>5. t = <<a, b>> \o Tail(s)
  BY DEF Halves, m
<1>6. a.from = s[1].from /\ a.to = m /\ b.from = m + 1 /\ b.to = s[1].to
  OBVIOUS
<1> HIDE DEF a, b
<1>7. /\ t \in Seq(Range) /\ Len(t) = Len(s) + 1 /\ t[1] = a /\ t[2] = b
      /\ \A i \in 3..Len(t) : t[i] = s[i - 1]
  <2>1. /\ Tail(s) \in Seq(Range) /\ Len(Tail(s)) = Len(s) - 1
        /\ \A i \in 1..(Len(s) - 1) : Tail(s)[i] = s[i + 1]
    OBVIOUS
  <2>2. <<a, b>> \in Seq(Range) /\ Len(<<a, b>>) = 2
    BY <1>4
  <2>3. t \in Seq(Range) /\ Len(t) = Len(s) + 1 /\ t[1] = a /\ t[2] = b
    <3>1. t \in Seq(Range)
      <4>1. \A p, q \in Seq(Range) : p \o q \in Seq(Range)
        OBVIOUS
      <4> QED BY <1>5, <2>1, <2>2, <4>1, Zenon
    <3>2. Len(t) = Len(<<a, b>>) + Len(Tail(s))
      BY <1>5, <2>1, <2>2
    <3>3. Len(t) = Len(s) + 1
      BY <3>2, <2>1, <2>2, <1>0
    <3>4. t[1] = <<a, b>>[1] /\ t[2] = <<a, b>>[2]
      BY <1>5, <2>1, <2>2
    <3>5. <<a, b>>[1] = a /\ <<a, b>>[2] = b
      OBVIOUS
    <3> QED BY <3>1, <3>3, <3>4, <3>5
  <2>4. \A i \in 3..Len(t) : t[i] = Tail(s)[i - 2]
    BY <1>5, <2>1, <2>2
  <2>5. \A i \in 3..Len(t) : t[i] = s[i - 1]
    BY <2>1, <2>3, <2>4
  <2> QED BY <2>3, <2>5
<1>8. Len(t) > 0
  BY <1>1, <1>7
<1>9. t[1].from = first /\ t[Len(t)].to = last
  <2>1. s[1].from = first /\ s[Len(s)].to = last
    BY DEF Tiling
  <2>2. CASE Len(s) = 1
    BY <2>1, <2>2, <1>6, <1>7
  <2>3. CASE Len(s) > 1
    <3>1. t[Len(t)] = s[Len(t) - 1] /\ Len(t) - 1 = Len(s)
      BY <2>3, <1>1, <1>7
    <3> QED BY <3>1, <2>1, <1>6, <1>7
  <2>4. Len(s) = 1 \/ Len(s) > 1
    <3>1. Len(s) # 0
      BY <1>0
    <3> QED BY <1>0, <3>1, ZeroOneMore, Zenon
  <2> QED BY <2>2, <2>3, <2>4
<1>10. \A i \in 1..Len(t) : t[i].from <= t[i].to
  <2> SUFFICES ASSUME NEW i \in 1..Len(t) PROVE t[i].from <= t[i].to
    OBVIOUS
  <2>1. CASE i \in {1, 2}
    BY <2>1, <1>3, <1>6, <1>7, <1>1, <1>2
  <2>2. CASE i >= 3
    <3>1. t[i] = s[i - 1] /\ i - 1 \in 1..Len(s)
      BY <2>2, <1>1, <1>7
    <3> QED BY <3>1 DEF Tiling
  <2> QED BY <2>1, <2>2
<1>11. \A i \in 1..(Len(t) - 1) : t[i + 1].from = t[i].to + 1
  <2> SUFFICES ASSUME NEW i \in 1..(Len(t) - 1) PROVE t[i + 1].from = t[i].to + 1
    OBVIOUS
  <2>1. CASE i = 1
    BY <2>1, <1>6, <1>7
  <2>2. CASE i >= 2
    <3>1. i - 1 \in 1..(Len(s) - 1) /\ t[i + 1] = s[(i - 1) + 1]
      BY <2>2, <1>1, <1>7
    <3>2. s[(i - 1) + 1].from = s[i - 1].to + 1
      BY <3>1 DEF Tiling
    <3>3. t[i].to = s[i - 1].to
      <4>1. CASE i = 2
        BY <4>1, <1>6, <1>7
      <4>2. CASE i >= 3
        BY <4>2, <1>1, <1>7
      <4> QED BY <2>2, <4>1, <4>2
    <3> QED BY <3>1, <3>2, <3>3
  <2>3. i = 1 \/ i >= 2
    BY <1>0, <1>7
  <2> QED BY <2>1, <2>2, <2>3
<1>12. \A i, j \in 1..Len(t) : i < j => t[j].from >= t[i].to + (j - i)
  <2> SUFFICES ASSUME NEW i \in 1..Len(t), NEW j \in 1..Len(t), i < j
               PROVE  t[j].from >= t[i].to + (j - i)
    OBVIOUS
  <2>1. CASE j = 2
    <3>1. i = 1
      BY <2>1
    <3> QED BY <2>1, <3>1, <1>3, <1>6, <1>7
  <2>2. CASE j >= 3
    <3> DEFINE k == IF i = 1 THEN 1 ELSE i - 1
    <3>1. t[j] = s[j - 1] /\ k \in 1..Len(s) /\ j - 1 \in 1..Len(s)
      BY <2>2, <1>1, <1>7
    <3>2. k < j - 1
      BY <2>2
    <3>3. s[j - 1].from >= s[k].to + ((j - 1) - k)
      BY <3>1, <3>2 DEF Tiling
    <3>4. CASE i = 1
      <4>1. t[i].to = m /\ s[1].to >= m + 1 /\ k = 1 /\ s[1].to \in Nat
        BY <3>4, <1>1, <1>2, <1>3, <1>6, <1>7
      <4>2. s[j - 1].from \in Nat /\ j \in Nat
        BY <3>1, <1>2, <1>0, <1>7
      <4>3. s[j - 1].from >= s[1].to + ((j - 1) - 1)
        BY <4>1, <3>3
      <4>4. s[j - 1].from >= m + (j - 1)
        <5>1. \A x, y, z, w \in Nat : x >= y + ((z - 1) - 1) /\ y >= w + 1 => x >= w + (z - 1)
          OBVIOUS
        <5>2. s[1].to \in Nat /\ s[j - 1].from \in Nat /\ j \in Nat /\ m \in Nat
          BY <4>1, <4>2, <1>3
        <5> QED BY <4>1, <4>3, <5>1, <5>2, Zenon
      <4> QED BY <4>1, <4>4, <3>1, <3>4
    <3>5. CASE i >= 2
      <4>1. t[i].to = s[k].to
        <5>1. CASE i = 2
          BY <5>1, <1>6, <1>7
        <5>2. CASE i >= 3
          BY <5>2, <1>1, <1>7
        <5> QED BY <3>5, <5>1, <5>2
      <4>2. k = i - 1
        BY <3>5
      <4> HIDE DEF k
      <4>3. (j - 1) - k = j - i
        BY <4>2
      <4> QED BY <4>1, <4>3, <3>1, <3>3
    <3>6. i = 1 \/ i >= 2
      BY <1>0, <1>7
    <3> QED BY <3>4, <3>5, <3>6
  <2>3. j = 2 \/ j >= 3
    BY <1>0, <1>7
  <2> QED BY <2>1, <2>2, <2>3
<1>13. Tiling(t, first, last)
  <2>1. Len(t) # 0
    BY <1>0, <1>7
  <2> QED BY <2>1, <1>9, <1>10, <1>11, <1>12, Zenon DEF Tiling
<1> QED BY <1>7, <1>13

\* A tiling has at most as many ranges as blocks.
LEMMA TilingIsShort ==
  ASSUME NEW s \in Seq(Range), NEW first \in Nat, NEW last \in Nat, Tiling(s, first, last)
  PROVE  Len(s) <= last + 1 - first
<1>1. Len(s) \in Nat
  OBVIOUS
<1>2. \A i \in 1..Len(s) : s[i].from \in Nat /\ s[i].to \in Nat
  BY RangesAreNumbers
<1>3. CASE Len(s) = 0
  BY <1>3 DEF Tiling
<1>4. CASE Len(s) = 1
  <2>1. s[1].from = first /\ s[1].to = last /\ s[1].from <= s[1].to
    BY <1>4 DEF Tiling
  <2> QED BY <2>1, <1>4
<1>5. CASE Len(s) > 1
  <2>1. 1 \in 1..Len(s) /\ Len(s) \in 1..Len(s) /\ 1 < Len(s)
    BY <1>1, <1>5
  <2>2. /\ s[1].from = first /\ s[Len(s)].to = last /\ s[1].from <= s[1].to
        /\ s[Len(s)].from <= s[Len(s)].to /\ s[Len(s)].from >= s[1].to + (Len(s) - 1)
    BY <2>1 DEF Tiling
  <2>3. s[1].to \in Nat /\ s[Len(s)].from \in Nat
    BY <2>1, <1>2
  <2> QED BY <1>1, <2>2, <2>3
<1>6. Len(s) = 0 \/ Len(s) = 1 \/ Len(s) > 1
  BY <1>1, ZeroOneMore, Zenon
<1> QED BY <1>3, <1>4, <1>5, <1>6

-----------------------------------------------------------------------------
(* The invariant. *)

\* A request starts with one range, the whole of it.
LEMMA InitEstablishesIInv == Init => IInv
<1> SUFFICES ASSUME Init PROVE IInv
  OBVIOUS
<1>1. /\ from_block \in Nat /\ to_block \in Nat /\ from_block <= to_block /\ to_block <= LastBlock
      /\ LastBlock \in Nat /\ LastWindow \in Nat /\ LastWindow >= 1
  BY BoundsAssumption DEF Init, Blocks
<1>2. TypeOK
  BY <1>1 DEF Init, TypeOK, Blocks, Windows, Range, Chunk
<1>3. Reached = from_block
  BY DEF Init, Reached
<1>4. RangesTileTheRest
  BY <1>1, <1>3 DEF Init, RangesTileTheRest, Tiling
<1> QED BY <1>2, <1>4
        DEF Init, IInv, WindowsFollow, ChunksAreContiguous, SuccessIsComplete

\* The shapes of the variables, with the numbers spelled out.
LEMMA Shapes ==
  ASSUME TypeOK
  PROVE  /\ from_block \in Nat /\ to_block \in Nat /\ from_block <= to_block
         /\ from_block \in Blocks /\ to_block \in Blocks
         /\ window \in Nat /\ window >= 1 /\ window <= LastWindow /\ LastWindow \in Nat
         /\ ranges \in Seq(Range) /\ Len(ranges) \in Nat /\ (ranges = <<>> <=> Len(ranges) = 0)
         /\ chunks \in Seq(Chunk) /\ Len(chunks) \in Nat /\ (chunks = <<>> <=> Len(chunks) = 0)
<1>1. /\ from_block \in Blocks /\ window \in Windows
      /\ ranges \in Seq(Range) /\ chunks \in Seq(Chunk)
  BY DEF TypeOK
<1>2. to_block \in from_block..LastBlock
  BY DEF TypeOK
<1>3. from_block \in Nat /\ LastBlock \in Nat /\ LastWindow \in Nat
  BY <1>1, BoundsAssumption DEF Blocks
<1>4. to_block \in Nat /\ from_block <= to_block /\ to_block \in Blocks
  BY <1>2, <1>3 DEF Blocks
<1>5. window \in Nat /\ window >= 1 /\ window <= LastWindow
  BY <1>1, <1>3 DEF Windows
<1> QED BY <1>1, <1>3, <1>4, <1>5, EmptySequence

\* The block reached is a number, and the last chunk's block too.
LEMMA ReachedIsANumber ==
  ASSUME TypeOK
  PROVE  /\ from_block \in Nat /\ to_block \in Nat /\ from_block <= to_block
         /\ Reached \in Nat /\ Len(chunks) \in Nat
         /\ chunks # <<>> => /\ Len(chunks) >= 1
                             /\ chunks[Len(chunks)].window \in Windows
                             /\ chunks[Len(chunks)].to \in Nat
<1>1. from_block \in Nat /\ to_block \in Nat /\ from_block <= to_block
  BY Shapes
<1>2. /\ chunks \in Seq(Chunk) /\ Len(chunks) \in Nat
      /\ chunks # <<>> => Len(chunks) >= 1 /\ chunks[Len(chunks)] \in Chunk
  BY Shapes
<1>3. chunks # <<>> => /\ chunks[Len(chunks)].window \in Windows
                       /\ chunks[Len(chunks)].to \in Nat
  BY <1>2, BoundsAssumption DEF Chunk, Blocks
<1> QED BY <1>1, <1>2, <1>3 DEF Reached

\* The range to visit next starts at the block reached.
LEMMA HeadIsNext ==
  ASSUME IInv, ranges # <<>>
  PROVE  /\ Head(ranges) = ranges[1] /\ Len(ranges) \in Nat /\ Len(ranges) >= 1
         /\ Head(ranges) \in Range /\ Head(ranges).from \in Nat /\ Head(ranges).to \in Nat
         /\ Head(ranges).from = Reached /\ Head(ranges).from <= Head(ranges).to
<1>1. Head(ranges) = ranges[1] /\ Len(ranges) \in Nat /\ Len(ranges) >= 1 /\ ranges[1] \in Range
  <2>1. ranges \in Seq(Range)
    BY Shapes DEF IInv
  <2> QED BY <2>1
<1>2. ranges[1].from = Reached /\ ranges[1].from <= ranges[1].to
  BY <1>1 DEF IInv, RangesTileTheRest, Tiling
<1> QED BY <1>1, <1>2, BoundsAssumption DEF Range, Blocks

\* With no range left, the window's last chunk ends at the end of the request.
LEMMA WindowIsRead ==
  ASSUME IInv, ranges = <<>>
  PROVE  /\ Reached = to_block + 1
         /\ chunks # <<>> /\ chunks[Len(chunks)].window = window
         /\ chunks[Len(chunks)].to = to_block
<1>1. Reached = to_block + 1
  BY Shapes DEF IInv, RangesTileTheRest, Tiling
<1>2. /\ from_block \in Nat /\ to_block \in Nat /\ from_block <= to_block
      /\ chunks # <<>> => chunks[Len(chunks)].to \in Nat
  BY ReachedIsANumber DEF IInv
<1>3. chunks # <<>> /\ chunks[Len(chunks)].window = window
  BY <1>1, <1>2 DEF Reached
<1> QED BY <1>1, <1>2, <1>3 DEF Reached

\* What Answer does to the sequences.
LEMMA AnswerEffect ==
  ASSUME IInv, Answer
  PROVE  /\ Head(ranges) = ranges[1] /\ chunks' \in Seq(Chunk) /\ Len(chunks') = Len(chunks) + 1
         /\ chunks'[Len(chunks')].window = window
         /\ chunks'[Len(chunks')].from = Reached
         /\ chunks'[Len(chunks')].to = ranges[1].to
         /\ \A i \in 1..Len(chunks) : chunks'[i] = chunks[i]
         /\ Reached' = ranges[1].to + 1 /\ ranges[1].to >= Reached /\ ranges[1].to \in Nat
         /\ ranges' \in Seq(Range) /\ Len(ranges') = Len(ranges) - 1
         /\ Tiling(ranges', Reached', to_block)
<1> DEFINE h == Head(ranges)
           chunk == [window |-> window, from |-> h.from, to |-> h.to]
<1>1. /\ ranges # <<>> /\ chunks' = Append(chunks, chunk)
      /\ ranges' = Tail(ranges) /\ UNCHANGED <<from_block, to_block, window, status>>
  BY DEF Answer
<1>2. /\ h = ranges[1] /\ h \in Range /\ h.from \in Nat /\ h.to \in Nat
      /\ h.from = Reached /\ h.from <= h.to
  BY <1>1, HeadIsNext
<1>3. chunk \in Chunk /\ chunk.window = window /\ chunk.from = h.from /\ chunk.to = h.to
  BY <1>2 DEF IInv, TypeOK, Chunk, Range
<1>4. chunks \in Seq(Chunk) /\ Len(chunks) \in Nat
  BY Shapes DEF IInv
<1> HIDE DEF h, chunk
<1>5. /\ chunks' \in Seq(Chunk) /\ Len(chunks') = Len(chunks) + 1
      /\ chunks'[Len(chunks')] = chunk /\ chunks' # <<>>
      /\ \A i \in 1..Len(chunks) : chunks'[i] = chunks[i]
  BY <1>1, <1>3, <1>4
<1>6. Reached' = h.to + 1
  BY <1>1, <1>3, <1>5 DEF Reached
<1>7. /\ ranges' \in Seq(Range) /\ Len(ranges') = Len(ranges) - 1
      /\ Tiling(ranges', h.to + 1, to_block)
  <2>1. ranges \in Seq(Range) /\ to_block \in Nat /\ Tiling(ranges, Reached, to_block)
    BY ReachedIsANumber DEF IInv, TypeOK, RangesTileTheRest
  <2> QED BY <2>1, <1>1, <1>2, TailTiles
<1> QED BY <1>2, <1>3, <1>5, <1>6, <1>7 DEF h

\* Delivering the first range moves the block reached to its end.
LEMMA AnswerKeepsIInv == IInv /\ Answer => IInv'
<1> SUFFICES ASSUME IInv, Answer PROVE IInv'
  OBVIOUS
<1>1. status = "reading" /\ UNCHANGED <<from_block, to_block, window, status>>
  BY DEF Answer
<1>2. /\ chunks' \in Seq(Chunk) /\ Len(chunks') = Len(chunks) + 1
      /\ chunks'[Len(chunks')].window = window
      /\ chunks'[Len(chunks')].from = Reached
      /\ \A i \in 1..Len(chunks) : chunks'[i] = chunks[i]
      /\ ranges' \in Seq(Range)
      /\ Tiling(ranges', Reached', to_block)
  BY AnswerEffect
<1>3. /\ Len(chunks) \in Nat /\ chunks' # <<>>
      /\ window \in Nat /\ from_block \in Nat /\ to_block \in Nat
  <2>1. /\ Len(chunks) \in Nat /\ window \in Nat /\ from_block \in Nat /\ to_block \in Nat
    BY Shapes DEF IInv
  <2>2. Len(chunks') > 0
    BY <2>1, <1>2
  <2> QED BY <2>1, <2>2, <1>2
<1>4. TypeOK'
  <2>1. \A i \in 1..Len(ranges') : ranges'[i].from <= ranges'[i].to
    BY <1>2 DEF Tiling
  <2> QED BY <1>1, <1>2, <2>1 DEF IInv, TypeOK
<1>5. RangesTileTheRest'
  BY <1>1, <1>2 DEF RangesTileTheRest
<1>6. WindowsFollow'
  BY <1>1, <1>2, <1>3 DEF WindowsFollow
<1>7. ChunksAreContiguous'
  <2> DEFINE Starts(i) == i = 1 \/ chunks'[i - 1].window # chunks'[i].window
  <2> SUFFICES ASSUME NEW i \in 1..Len(chunks')
               PROVE  /\ Starts(i) => chunks'[i].from = from_block
                      /\ ~Starts(i) => chunks'[i].from = chunks'[i - 1].to + 1
                      /\ Starts(i) /\ i # 1 => /\ chunks'[i - 1].to = to_block
                                               /\ chunks'[i].window = chunks'[i - 1].window + 1
    BY <1>1 DEF ChunksAreContiguous
  <2>1. CASE i \in 1..Len(chunks)
    <3>1. chunks'[i] = chunks[i] /\ (i # 1 => chunks'[i - 1] = chunks[i - 1])
      BY <2>1, <1>2, <1>3
    <3> QED BY <2>1, <3>1 DEF IInv, ChunksAreContiguous
  <2>2. CASE i = Len(chunks) + 1
    <3>1. CASE chunks = <<>>
      <4>1. i = 1 /\ i = Len(chunks') /\ Reached = from_block
        BY <2>2, <3>1, <1>2, <1>3 DEF Reached
      <4>2. chunks'[i].from = from_block
        BY <4>1, <1>2
      <4> QED BY <4>1, <4>2
    <3>2. CASE chunks # <<>>
      <4>1. Len(chunks) >= 1 /\ i # 1 /\ i - 1 = Len(chunks) /\ i = Len(chunks')
        BY <2>2, <3>2, <1>2, <1>3, ReachedIsANumber DEF IInv
      <4>2. chunks'[i - 1] = chunks[Len(chunks)]
        BY <4>1, <1>2, <1>3
      <4>3. chunks[Len(chunks)].window \in Nat
        BY <3>2, ReachedIsANumber, BoundsAssumption DEF IInv, Windows
      <4>4. CASE chunks[Len(chunks)].window = window
        BY <3>2, <4>1, <4>2, <4>4, <1>2 DEF Reached
      <4>5. CASE chunks[Len(chunks)].window # window
        <5>1. chunks[Len(chunks)].window = window - 1 /\ chunks[Len(chunks)].to = to_block
          BY <3>2, <4>5 DEF IInv, WindowsFollow
        <5>2. Reached = from_block
          BY <4>5 DEF Reached
        <5> QED BY <4>1, <4>2, <4>3, <4>5, <5>1, <5>2, <1>2, <1>3
      <4> QED BY <4>4, <4>5
    <3> QED BY <3>1, <3>2
  <2> QED BY <2>1, <2>2, <1>2, <1>3
<1> QED BY <1>1, <1>4, <1>5, <1>6, <1>7 DEF IInv, SuccessIsComplete

\* What TooManyEvents does to the ranges.
LEMMA SplitEffect ==
  ASSUME IInv, TooManyEvents
  PROVE  /\ ranges' \in Seq(Range) /\ Len(ranges') = Len(ranges) + 1
         /\ Tiling(ranges', Reached, to_block) /\ Reached' = Reached
<1>1. ranges # <<>> /\ ranges' = Halves(Head(ranges)) \o Tail(ranges) /\ CanSplit
  BY DEF TooManyEvents
<1>2. /\ Head(ranges) = ranges[1] /\ ranges[1].from < ranges[1].to
  BY <1>1, HeadIsNext DEF CanSplit
<1>3. ranges \in Seq(Range) /\ to_block \in Nat /\ Tiling(ranges, Reached, to_block)
  BY ReachedIsANumber DEF IInv, TypeOK, RangesTileTheRest
<1>4. ranges' \in Seq(Range) /\ Len(ranges') = Len(ranges) + 1 /\ Tiling(ranges', Reached, to_block)
  BY <1>1, <1>2, <1>3, HalvesTile
<1>5. Reached' = Reached
  BY DEF Reached, TooManyEvents
<1> QED BY <1>4, <1>5

\* Halving a range neither loses nor repeats a block.
LEMMA SplitKeepsIInv == IInv /\ TooManyEvents => IInv'
<1> SUFFICES ASSUME IInv, TooManyEvents PROVE IInv'
  OBVIOUS
<1>1. status = "reading" /\ UNCHANGED <<from_block, to_block, window, chunks, status>>
  BY DEF TooManyEvents
<1>2. ranges' \in Seq(Range) /\ Tiling(ranges', Reached, to_block) /\ Reached' = Reached
  BY SplitEffect
<1>3. \A i \in 1..Len(ranges') : ranges'[i].from <= ranges'[i].to
  BY <1>2 DEF Tiling
<1> QED BY <1>1, <1>2, <1>3
        DEF IInv, TypeOK, RangesTileTheRest, WindowsFollow, ChunksAreContiguous,
            SuccessIsComplete

\* Ending the call, well or badly, leaves the ranges and the chunks alone.
LEMMA EndingKeepsIInv == IInv /\ (CannotSplit \/ Fail \/ Done) => IInv'
<1> SUFFICES ASSUME IInv, CannotSplit \/ Fail \/ Done PROVE IInv'
  OBVIOUS
<1>1. UNCHANGED <<from_block, to_block, window, ranges, chunks>>
  BY DEF CannotSplit, Fail, Done
<1>2. status' \in {"done", "failed", "too many"}
  BY DEF CannotSplit, Fail, Done
<1>3. TypeOK' /\ RangesTileTheRest' /\ WindowsFollow' /\ ChunksAreContiguous'
  BY <1>1, <1>2
     DEF IInv, TypeOK, RangesTileTheRest, Reached, WindowsFollow, ChunksAreContiguous
<1>4. SuccessIsComplete'
  <2>1. CASE Done
    <3>1. ranges = <<>> /\ window = LastWindow
      BY <2>1 DEF Done
    <3> QED BY <3>1, <1>1, WindowIsRead DEF SuccessIsComplete
  <2>2. CASE CannotSplit \/ Fail
    BY <2>2 DEF CannotSplit, Fail, SuccessIsComplete
  <2> QED BY <2>1, <2>2
<1> QED BY <1>3, <1>4 DEF IInv

\* What NextWindow does to the block reached.
LEMMA NextWindowEffect ==
  ASSUME IInv, NextWindow
  PROVE  /\ window \in Nat /\ window < LastWindow /\ Reached = to_block + 1 /\ Reached' = from_block
         /\ chunks # <<>> /\ chunks[Len(chunks)].window = window /\ chunks[Len(chunks)].to = to_block
<1>1. /\ ranges = <<>> /\ window < LastWindow /\ window' = window + 1
      /\ UNCHANGED <<from_block, to_block, chunks>>
  BY DEF NextWindow
<1>2. /\ Reached = to_block + 1 /\ chunks # <<>> /\ chunks[Len(chunks)].window = window
      /\ chunks[Len(chunks)].to = to_block
  BY <1>1, WindowIsRead
<1>3. window \in Nat
  BY Shapes DEF IInv
<1>4. Reached' = from_block
  BY <1>1, <1>2, <1>3 DEF Reached
<1> QED BY <1>1, <1>2, <1>3, <1>4

\* The next window starts over, with the whole range.
LEMMA NextWindowKeepsIInv == IInv /\ NextWindow => IInv'
<1> SUFFICES ASSUME IInv, NextWindow PROVE IInv'
  OBVIOUS
<1>1. /\ status = "reading" /\ window' = window + 1 /\ window < LastWindow
      /\ ranges' = << [from |-> from_block, to |-> to_block] >>
      /\ UNCHANGED <<from_block, to_block, chunks, status>>
  BY DEF NextWindow
<1>2. /\ window \in Nat /\ Reached' = from_block /\ chunks # <<>>
      /\ chunks[Len(chunks)].window = window /\ chunks[Len(chunks)].to = to_block
  BY NextWindowEffect
<1>3. from_block \in Nat /\ to_block \in Nat /\ from_block <= to_block
  BY ReachedIsANumber DEF IInv
<1>4. /\ ranges' \in Seq(Range) /\ Len(ranges') = 1 /\ ranges' # <<>>
      /\ ranges'[1].from = from_block /\ ranges'[1].to = to_block
  <2>1. [from |-> from_block, to |-> to_block] \in Range
    BY Shapes DEF IInv, Range
  <2> QED BY <2>1, <1>1
<1>5. TypeOK'
  <2>1. window' \in Windows
    BY <1>1, <1>2, BoundsAssumption DEF Windows
  <2> QED BY <2>1, <1>1, <1>3, <1>4 DEF IInv, TypeOK
<1>6. RangesTileTheRest'
  BY <1>1, <1>2, <1>3, <1>4 DEF RangesTileTheRest, Tiling
<1>7. WindowsFollow'
  BY <1>1, <1>2 DEF WindowsFollow
<1>8. ChunksAreContiguous' /\ SuccessIsComplete'
  BY <1>1 DEF IInv, ChunksAreContiguous, SuccessIsComplete
<1> QED BY <1>5, <1>6, <1>7, <1>8 DEF IInv

\* Every step keeps the invariant.
LEMMA NextKeepsIInv == IInv /\ [Next]_vars => IInv'
<1> SUFFICES ASSUME IInv, [Next]_vars PROVE IInv'
  OBVIOUS
<1>1. CASE UNCHANGED vars
  BY <1>1 DEF vars, IInv, TypeOK, RangesTileTheRest, Reached, WindowsFollow, ChunksAreContiguous,
              SuccessIsComplete
<1> QED BY <1>1, AnswerKeepsIInv, SplitKeepsIInv, EndingKeepsIInv, NextWindowKeepsIInv DEF Next

\* The invariant holds in every state of a call.
LEMMA IInvHolds == Spec => []IInv
BY InitEstablishesIInv, NextKeepsIInv, PTL DEF Spec

-----------------------------------------------------------------------------
(* What is left to do. *)

\* The requests left for the windows to come, one window fewer.
LEMMA OneWindowFewer ==
  ASSUME NEW n \in Nat, NEW k \in Int
  PROVE  2 * n * k = 2 * n * (k - 1) + 2 * n
OBVIOUS

\* There is no end to be reached before the ranges left have been asked for.
LEMMA WorkIsPositive == IInv => WorkIsBounded
<1> SUFFICES ASSUME IInv PROVE WorkIsBounded
  OBVIOUS
<1> DEFINE n == to_block + 1 - from_block
           later == 2 * n * (LastWindow - window)
<1>1. from_block \in Nat /\ to_block \in Nat /\ from_block <= to_block /\ Reached \in Nat
  BY ReachedIsANumber DEF IInv
<1>2. LastWindow - window \in Nat
  BY Shapes DEF IInv
<1>3. n \in Nat
  BY <1>1
<1> HIDE DEF n
<1>4. later \in Nat
  BY <1>2, <1>3
<1>5. Len(ranges) \in Nat /\ Len(ranges) <= to_block + 1 - Reached
  BY <1>1, Shapes, TilingIsShort DEF IInv, RangesTileTheRest
<1>6. Work = later + 2 * (to_block + 1 - Reached) - Len(ranges) + (IF status = "reading" THEN 1 ELSE 0)
  BY DEF Work, n
<1> HIDE DEF later
<1> QED BY <1>1, <1>4, <1>5, <1>6 DEF WorkIsBounded

\* Every request, and every end, leaves less to do.
LEMMA StepShrinksWork == IInv /\ Next => Work' < Work
<1> SUFFICES ASSUME IInv, Next PROVE Work' < Work
  OBVIOUS
<1> DEFINE n == to_block + 1 - from_block
           later(w) == 2 * n * (LastWindow - w)
           Sum(w, r, l, s) == later(w) + 2 * (to_block + 1 - r) - l + s
           open == IF status = "reading" THEN 1 ELSE 0
<1>1. from_block \in Nat /\ to_block \in Nat /\ from_block <= to_block /\ Reached \in Nat
  BY ReachedIsANumber DEF IInv
<1>2. Len(ranges) \in Nat /\ window \in Nat /\ LastWindow \in Nat
  BY Shapes DEF IInv
<1>3. n \in Nat /\ n = to_block + 1 - from_block
  BY <1>1
<1>4. Work = Sum(window, Reached, Len(ranges), open) /\ open \in {0, 1}
  BY DEF Work
<1>5. UNCHANGED <<from_block, to_block>>
  BY DEF Next, Answer, TooManyEvents, CannotSplit, Fail, NextWindow, Done
<1>6. Work' = Sum(window', Reached', Len(ranges'), open')
  BY <1>5 DEF Work
<1> HIDE DEF n
<1>7. \A w \in Nat : later(w) \in Int
  BY <1>2, <1>3
<1>8. later(window) = later(window + 1) + 2 * n
  BY <1>2, <1>3, OneWindowFewer
<1> HIDE DEF later
<1>9. CASE Answer
  <2>1. window' = window /\ open' = open
    BY <1>9 DEF Answer
  <2>2. /\ Reached' \in Nat /\ Reached' >= Reached + 1
        /\ Len(ranges') = Len(ranges) - 1
    BY <1>1, <1>9, AnswerEffect
  <2>3. later(window) \in Int
    BY <1>2, <1>7
  <2>4. Work' = Sum(window, Reached', Len(ranges) - 1, open)
    BY <1>6, <2>1, <2>2
  <2>5. \A a, b, x, y, l \in Int, o \in {0, 1} :
          y >= x + 1 => a + 2 * (b + 1 - y) - (l - 1) + o < a + 2 * (b + 1 - x) - l + o
    OBVIOUS
  <2>6. Sum(window, Reached', Len(ranges) - 1, open) < Sum(window, Reached, Len(ranges), open)
    <3>1. /\ later(window) \in Int /\ to_block \in Int /\ Reached \in Int /\ Reached' \in Int
          /\ Len(ranges) \in Int /\ open \in {0, 1}
      BY <1>1, <1>2, <1>4, <2>2, <2>3
    <3> QED BY <3>1, <2>2, <2>5, Zenon
  <2> QED BY <1>4, <2>4, <2>6, Zenon
<1>10. CASE TooManyEvents
  <2>1. window' = window /\ open' = open
    BY <1>10 DEF TooManyEvents
  <2>2. Reached' = Reached /\ Len(ranges') = Len(ranges) + 1
    BY <1>10, SplitEffect
  <2> QED BY <1>1, <1>2, <1>4, <1>6, <1>7, <2>1, <2>2
<1>11. CASE CannotSplit \/ Fail \/ Done
  <2>1. /\ window' = window /\ ranges' = ranges /\ chunks' = chunks
        /\ open = 1 /\ open' = 0
    BY <1>11 DEF CannotSplit, Fail, Done
  <2>2. Reached' = Reached
    BY <2>1, <1>5 DEF Reached
  <2> QED BY <1>1, <1>2, <1>4, <1>6, <1>7, <2>1, <2>2
<1>12. CASE NextWindow
  <2>1. /\ window' = window + 1 /\ open' = open /\ Len(ranges) = 0 /\ Len(ranges') = 1
    BY <1>12 DEF NextWindow
  <2>2. Reached = to_block + 1 /\ Reached' = from_block
    BY <1>12, NextWindowEffect
  <2> QED BY <1>1, <1>2, <1>3, <1>4, <1>6, <1>7, <1>8, <2>1, <2>2
<1> QED BY <1>9, <1>10, <1>11, <1>12 DEF Next

-----------------------------------------------------------------------------
(* The theorems. *)

\* Every variable keeps its shape, and binary_get_logs never asks for an empty range:
\* its debug_assert holds for every request and every pattern of refusals.
THEOREM TypeCorrect == Spec => []TypeOK
<1>1. IInv => TypeOK
  BY DEF IInv
<1> QED BY <1>1, IInvHolds, PTL

\* The callback is given the blocks of every window in order, none twice and none left out.
THEOREM DeliveryIsContiguous == Spec => []ChunksAreContiguous
<1>1. IInv => ChunksAreContiguous
  BY DEF IInv
<1> QED BY <1>1, IInvHolds, PTL

\* get_logs_ext returns Ok only after the last window has been read to its last block.
THEOREM SuccessReadsEverything == Spec => []SuccessIsComplete
<1>1. IInv => SuccessIsComplete
  BY DEF IInv
<1> QED BY <1>1, IInvHolds, PTL

\* What is left to do is a natural number ...
THEOREM RemainingWorkIsBounded == Spec => []WorkIsBounded
<1> QED BY WorkIsPositive, IInvHolds, PTL

\* ... and every request makes it smaller: get_logs_ext ends, whatever the node answers.
THEOREM EveryRequestIsProgress == Spec => WorkShrinks
<1>1. IInv /\ [Next]_vars => [Work' < Work]_vars
  BY StepShrinksWork
<1> QED BY <1>1, IInvHolds, PTL DEF Spec, WorkShrinks
=============================================================================
