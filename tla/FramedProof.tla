---------------------------- MODULE FramedProof ----------------------------
(***************************************************************************)
(* Framed, for every size of the ring, every radix of a header byte and     *)
(* every set of sizes asked for: what a read finds is made of whole frames, *)
(* and the framed ring is the queue of frames it promises (FrameFifo).      *)
(***************************************************************************)
EXTENDS Framed, BBBufferProof, WellFoundedInduction

-----------------------------------------------------------------------------
(* The header.                                                             *)

\* A length that fits the two bytes of a header is the length they are read as.
LEMMA HeaderRoundTrip ==
  ASSUME NEW n \in 0 .. Radix * Radix - 1
  PROVE  /\ HeaderByte(n, 0) \in Byte /\ HeaderByte(n, 1) \in Byte
         /\ FrameLen(HeaderByte(n, 0), HeaderByte(n, 1)) = n
<1> DEFINE lo == n % Radix
           hi == n \div Radix
<1>1. Radix \in Nat \ {0} /\ n \in Nat /\ n < Radix * Radix
  BY FramedAssumption
<1>2. lo \in 0 .. Radix - 1 /\ hi \in Nat /\ n = Radix * hi + lo
  BY <1>1, SMT
<1>3. hi < Radix
  <2>1. Radix * hi < Radix * Radix
    BY <1>1, <1>2, SMT
  <2> HIDE DEF hi
  <2> QED BY <1>1, <1>2, <2>1, SMT
<1> HIDE DEF lo, hi
<1>4. HeaderByte(n, 0) = lo /\ HeaderByte(n, 1) = hi
  BY SMT DEF HeaderByte, lo, hi
<1>5. lo + Radix * hi = n
  BY <1>1, <1>2, SMT
<1> QED BY <1>1, <1>2, <1>3, <1>4, <1>5, FramedAssumption DEF FrameLen

\* The bytes of a header are a length.
LEMMA HeaderIsLength ==
  ASSUME NEW lo \in Byte, NEW hi \in Byte
  PROVE  FrameLen(lo, hi) \in Nat
BY FramedAssumption, SMT DEF FrameLen

-----------------------------------------------------------------------------
(* Induction.  A theorem over predicates cannot be instantiated here; a     *)
(* least element of a set of counterexamples is within reach.              *)

LEMMA NatOrder == \A x, y \in Nat : y < x => <<y, x>> \in OpToRel(<, Nat)
BY DEF OpToRel

\* A set of natural numbers that is not empty has a least one ...
LEMMA LeastNumber ==
  ASSUME NEW T \in SUBSET Nat, T # {}
  PROVE  \E x \in T : \A y \in T : ~(y < x)
<1>1. \E x \in T : \A y \in T : <<y, x>> \notin OpToRel(<, Nat)
  BY NatLessThanWellFounded, WFMin
<1>2. \A x, y \in T : y < x => <<y, x>> \in OpToRel(<, Nat)
  BY NatOrder
<1> QED BY <1>1, <1>2, Zenon

\* ... and a set of numbers up to b a greatest one.
LEMMA GreatestNumber ==
  ASSUME NEW b \in Nat, NEW T \in SUBSET (0 .. b), T # {}
  PROVE  \E x \in T : \A y \in T : y <= x
<1> DEFINE D == {b - x : x \in T}
<1>1. D \in SUBSET Nat /\ D # {}
  <2>1. \A x \in T : x \in 0 .. b /\ b - x \in Nat
    OBVIOUS
  <2> QED BY <2>1
<1>2. PICK d \in D : \A y \in D : ~(y < d)
  BY <1>1, LeastNumber
<1>3. PICK x \in T : d = b - x
  BY <1>2
<1>4. ASSUME NEW y \in T PROVE y <= x
  <2>1. ~(b - y < b - x)
    BY <1>2, <1>3
  <2> QED BY <2>1
<1> QED BY <1>4

-----------------------------------------------------------------------------
(* The frames in a sequence of bytes.                                      *)

Bytes == Seq(Byte)
Texts == Seq(Int)       \* what a frame carries, or Torn

\* What lies at the start of a frame, and where the next one starts.
LEMMA FrameFacts ==
  ASSUME NEW q \in Bytes, NEW i \in Nat \ {0}, i < Len(q)
  PROVE  /\ q[i] \in Byte /\ q[i + 1] \in Byte
         /\ FrameLen(q[i], q[i + 1]) \in Nat
         /\ NextFrame(q, i) \in Nat /\ NextFrame(q, i) >= i + 2
<1>1. Len(q) \in Nat
  BY LenProperties DEF Bytes
<1>2. i \in 1 .. Len(q) /\ i + 1 \in 1 .. Len(q)
  BY <1>1
<1>3. q[i] \in Byte /\ q[i + 1] \in Byte
  BY <1>2, ElementOfSeq DEF Bytes
<1>4. FrameLen(q[i], q[i + 1]) \in Nat
  BY <1>3, HeaderIsLength
<1> HIDE DEF FrameLen
<1> QED BY <1>3, <1>4 DEF NextFrame, HDR_LEN

LEMMA PayloadType ==
  ASSUME NEW q \in Bytes, NEW i \in Nat \ {0}, IsWhole(q, i)
  PROVE  Payload(q, i) \in Texts /\ Len(Payload(q, i)) = FrameLen(q[i], q[i + 1])
<1> DEFINE n == FrameLen(q[i], q[i + 1])
<1>1. n \in Nat /\ Len(q) \in Nat /\ i + 2 + n <= Len(q) + 1
  BY FrameFacts, LenProperties DEF IsWhole, NextFrame, HDR_LEN, Bytes
<1>2. Byte \subseteq Int
  BY FramedAssumption
<1>3. Payload(q, i) = [j \in 1 .. n |-> q[i + 1 + j]]
  BY DEF Payload
<1> HIDE DEF n
<1>4. ASSUME NEW j \in 1 .. n PROVE q[i + 1 + j] \in Int
  <2>1. i + 1 + j \in 1 .. Len(q)
    BY <1>1
  <2> QED BY <1>2, <2>1, ElementOfSeq DEF Bytes
<1>5. [j \in 1 .. n |-> q[i + 1 + j]] \in [1 .. n -> Int]
  BY <1>4
<1>6. Payload(q, i) \in Seq(Int) /\ Len(Payload(q, i)) = n
  BY <1>1, <1>3, <1>5, FunctionIsSeq
<1> QED BY <1>6 DEF Texts, n

\* The equation of FramesFrom.
Follow(q, f, i) ==
  IF i > Len(q) THEN <<>>
  ELSE IF ~IsWhole(q, i) THEN <<Torn>>
  ELSE <<Payload(q, i)>> \o f[NextFrame(q, i)]

\* There is a function that satisfies it, ...
LEMMA FramesExist ==
  ASSUME NEW q \in Bytes
  PROVE  \E f \in [1 .. Len(q) + 1 -> Seq(Texts)] :
           \A i \in 1 .. Len(q) + 1 : f[i] = Follow(q, f, i)
<1> DEFINE top == Len(q) + 1
           Sat(m, f) == /\ f \in [m .. top -> Seq(Texts)]
                        /\ \A i \in m .. top : f[i] = Follow(q, f, i)
           T == {m \in 1 .. top : ~ \E f : Sat(m, f)}
<1>0. Len(q) \in Nat /\ top \in Nat /\ top = Len(q) + 1
  BY LenProperties DEF Bytes
<1>1. \E f : Sat(top, f)
  <2> DEFINE f == [i \in top .. top |-> <<>>]
  <2>1. \A i \in top .. top : i > Len(q)
    BY <1>0
  <2>2. Sat(top, f)
    BY <2>1, EmptySeq DEF Follow
  <2> HIDE DEF Sat, f, top
  <2> QED BY <2>2
<1>2. ASSUME NEW m \in 1 .. top, m < top, NEW g, Sat(m + 1, g) PROVE \E f : Sat(m, f)
  <2> DEFINE v == Follow(q, g, m)
             f == [i \in m .. top |-> IF i = m THEN v ELSE g[i]]
  <2>1. v \in Seq(Texts)
    <3>1. ~(m > Len(q)) /\ m \in Nat \ {0}
      BY <1>0, <1>2
    <3>2. CASE IsWhole(q, m)
      <4>1. NextFrame(q, m) \in m + 1 .. top
        BY <1>0, <3>1, <3>2, FrameFacts DEF IsWhole
      <4>2. g[NextFrame(q, m)] \in Seq(Texts)
        BY <1>2, <4>1
      <4>3. <<Payload(q, m)>> \in Seq(Texts)
        BY <3>1, <3>2, PayloadType
      <4> QED BY <3>1, <3>2, <4>2, <4>3, ConcatProperties DEF Follow
    <3>3. CASE ~IsWhole(q, m)
      <4>1. <<Torn>> \in Seq(Texts)
        BY DEF Torn, Texts
      <4> QED BY <3>1, <3>3, <4>1 DEF Follow
    <3> QED BY <3>2, <3>3
  <2>2. f \in [m .. top -> Seq(Texts)]
    <3>1. \A i \in m .. top : i # m => i \in m + 1 .. top
      BY <1>0, <1>2
    <3> HIDE DEF v
    <3> QED BY <1>2, <2>1, <3>1
  <2>3. ASSUME NEW i \in m .. top PROVE f[i] = Follow(q, f, i)
    <3>1. f[i] = Follow(q, g, i)
      <4>1. i # m => i \in m + 1 .. top
        BY <1>0, <1>2
      <4> QED BY <1>2, <4>1
    <3>2. Follow(q, g, i) = Follow(q, f, i)
      <4>1. CASE i > Len(q) \/ ~IsWhole(q, i)
        BY <4>1 DEF Follow
      <4>2. CASE ~(i > Len(q)) /\ IsWhole(q, i)
        <5>1. NextFrame(q, i) \in m .. top /\ NextFrame(q, i) # m
          BY <1>0, <1>2, <4>2, FrameFacts DEF IsWhole
        <5>2. f[NextFrame(q, i)] = g[NextFrame(q, i)]
          BY <5>1
        <5> HIDE DEF f
        <5> QED BY <5>2 DEF Follow
      <4> QED BY <4>1, <4>2
    <3> HIDE DEF f
    <3> QED BY <3>1, <3>2
  <2> HIDE DEF f
  <2> QED BY <2>2, <2>3
<1>3. ASSUME T # {} PROVE FALSE
  <2>1. T \in SUBSET (0 .. top)
    BY <1>0
  <2>2. PICK m \in T : \A y \in T : y <= m
    BY <1>0, <1>3, <2>1, GreatestNumber
  <2>3. m \in 1 .. top /\ ~(\E f : Sat(m, f))
    OBVIOUS
  <2>4. m < top
    <3>1. m # top
      BY <1>1, <2>3
    <3> QED BY <1>0, <2>3, <3>1
  <2>5. m + 1 \in 1 .. top /\ ~(m + 1 <= m)
    BY <1>0, <2>3, <2>4
  <2>6. \E g : Sat(m + 1, g)
    BY <2>2, <2>5
  <2> HIDE DEF Sat
  <2> QED BY <1>2, <2>3, <2>4, <2>6
<1>4. \E f : Sat(1, f)
  <2>1. 1 \in 1 .. top
    BY <1>0
  <2> HIDE DEF Sat, top
  <2> QED BY <1>3, <2>1
<1> QED BY <1>4

\* ... so FramesFrom satisfies it.
LEMMA FramesUnfold ==
  ASSUME NEW q \in Bytes, NEW i \in 1 .. Len(q) + 1
  PROVE  /\ i > Len(q) => FramesFrom(q, i) = <<>>
         /\ i <= Len(q) /\ IsWhole(q, i) =>
              FramesFrom(q, i) = <<Payload(q, i)>> \o FramesFrom(q, NextFrame(q, i))
         /\ i <= Len(q) /\ ~IsWhole(q, i) => FramesFrom(q, i) = <<Torn>>
<1> DEFINE Sat(f) == f = [k \in 1 .. Len(q) + 1 |->
                            IF k > Len(q) THEN <<>>
                            ELSE IF ~IsWhole(q, k) THEN <<Torn>>
                            ELSE <<Payload(q, k)>> \o f[NextFrame(q, k)]]
           from == CHOOSE f : Sat(f)
<1>1. PICK g \in [1 .. Len(q) + 1 -> Seq(Texts)] : \A k \in 1 .. Len(q) + 1 : g[k] = Follow(q, g, k)
  BY FramesExist
<1>2. Sat(g)
  BY <1>1 DEF Follow
<1>3. Sat(from)
  BY <1>2
<1>4. \A x : FramesFrom(q, x) = from[x]
  BY DEF FramesFrom
<1> HIDE DEF from
<1>5. i > Len(q) => from[i] = <<>>
  BY <1>3
<1>6. i <= Len(q) /\ IsWhole(q, i) => from[i] = <<Payload(q, i)>> \o from[NextFrame(q, i)]
  <2>1. i <= Len(q) => ~(i > Len(q))
    BY LenProperties DEF Bytes
  <2> QED BY <1>3, <2>1
<1>7. i <= Len(q) /\ ~IsWhole(q, i) => from[i] = <<Torn>>
  <2>1. i <= Len(q) => ~(i > Len(q))
    BY LenProperties DEF Bytes
  <2> QED BY <1>3, <2>1
<1> QED BY <1>4, <1>5, <1>6, <1>7

LEMMA FramesType ==
  ASSUME NEW q \in Bytes, NEW i \in 1 .. Len(q) + 1
  PROVE  FramesFrom(q, i) \in Seq(Texts)
<1> DEFINE top == Len(q) + 1
           T == {k \in 1 .. top : FramesFrom(q, k) \notin Seq(Texts)}
<1>0. Len(q) \in Nat /\ top \in Nat /\ top = Len(q) + 1
  BY LenProperties DEF Bytes
<1>1. ASSUME T # {} PROVE FALSE
  <2>1. T \in SUBSET (0 .. top)
    BY <1>0
  <2>2. PICK m \in T : \A y \in T : y <= m
    BY <1>0, <1>1, <2>1, GreatestNumber
  <2>3. m \in 1 .. top /\ m \in Nat \ {0} /\ FramesFrom(q, m) \notin Seq(Texts)
    BY <1>0
  <2>4. m <= Len(q)
    <3>1. m > Len(q) => FramesFrom(q, m) = <<>>
      BY <2>3, FramesUnfold
    <3>2. <<>> \in Seq(Texts)
      OBVIOUS
    <3>3. ~(m > Len(q))
      BY <2>3, <3>1, <3>2
    <3> QED BY <1>0, <2>3, <3>3
  <2>5. IsWhole(q, m)
    <3>1. <<Torn>> \in Seq(Texts)
      BY DEF Torn, Texts
    <3> QED BY <2>3, <2>4, <3>1, FramesUnfold
  <2>6. NextFrame(q, m) \in 1 .. top /\ ~(NextFrame(q, m) <= m)
    BY <1>0, <2>3, <2>5, FrameFacts DEF IsWhole
  <2>7. FramesFrom(q, NextFrame(q, m)) \in Seq(Texts)
    BY <2>2, <2>6
  <2>8. FramesFrom(q, m) = <<Payload(q, m)>> \o FramesFrom(q, NextFrame(q, m))
    BY <2>3, <2>4, <2>5, FramesUnfold
  <2>9. <<Payload(q, m)>> \in Seq(Texts)
    BY <2>3, <2>5, PayloadType
  <2> QED BY <2>3, <2>7, <2>8, <2>9, ConcatProperties
<1> QED BY <1>0, <1>1

-----------------------------------------------------------------------------
(* Sequences made of whole frames: the indices where a frame starts, with   *)
(* the one after the last byte.                                            *)

Cuts(q, S) ==
  /\ S \subseteq 1 .. Len(q) + 1
  /\ 1 \in S /\ Len(q) + 1 \in S
  /\ \A i \in S \ {Len(q) + 1} :
       /\ i < Len(q)
       /\ NextFrame(q, i) \in S
       /\ \A j \in S : i < j => NextFrame(q, i) <= j

LEMMA CutFacts ==
  ASSUME NEW q \in Bytes, NEW S, Cuts(q, S), NEW i \in S
  PROVE  /\ Len(q) \in Nat /\ i \in 1 .. Len(q) + 1 /\ i \in Nat \ {0}
         /\ i # Len(q) + 1 => /\ i \in 1 .. Len(q) /\ i + 1 \in 1 .. Len(q)
                              /\ IsWhole(q, i)
                              /\ NextFrame(q, i) \in S /\ NextFrame(q, i) \in i + 2 .. Len(q) + 1
<1>1. Len(q) \in Nat /\ i \in 1 .. Len(q) + 1 /\ i \in Nat \ {0}
  BY LenProperties DEF Bytes, Cuts
<1>2. ASSUME i # Len(q) + 1
      PROVE  i < Len(q) /\ NextFrame(q, i) \in S /\ NextFrame(q, i) \in 1 .. Len(q) + 1
  BY <1>2 DEF Cuts
<1>3. i # Len(q) + 1 => NextFrame(q, i) \in Nat /\ NextFrame(q, i) >= i + 2
  BY <1>1, <1>2, FrameFacts
<1> QED BY <1>1, <1>2, <1>3 DEF IsWhole

\* No bytes are no frames.
LEMMA CutsNone ==
  ASSUME NEW q \in Bytes, Len(q) = 0
  PROVE  Cuts(q, {1}) /\ FramesFrom(q, 1) = <<>>
<1>1. 1 \in 1 .. Len(q) + 1 /\ 1 > Len(q)
  OBVIOUS
<1>2. FramesFrom(q, 1) = <<>>
  BY <1>1, FramesUnfold
<1> QED BY <1>2 DEF Cuts

\* What follows q keeps q's bytes and frames.
LEMMA AppendedFrame ==
  ASSUME NEW q \in Bytes, NEW t \in Bytes, Len(t) >= HDR_LEN, NextFrame(t, 1) = Len(t) + 1
  PROVE  /\ q \o t \in Bytes /\ Len(q \o t) = Len(q) + Len(t)
         /\ \A i \in 1 .. Len(q) : (q \o t)[i] = q[i]
         /\ NextFrame(q \o t, Len(q) + 1) = Len(q) + Len(t) + 1
         /\ IsWhole(q \o t, Len(q) + 1)
         /\ Payload(q \o t, Len(q) + 1) = Payload(t, 1)
<1> DEFINE r == q \o t
           m == Len(q)
           k == Len(t)
<1>1. m \in Nat /\ k \in Nat /\ k >= 2
  BY LenProperties DEF Bytes, HDR_LEN
<1>2. /\ r \in Bytes /\ Len(r) = m + k
      /\ \A i \in 1 .. m + k : r[i] = IF i <= m THEN q[i] ELSE t[i - m]
  BY ConcatProperties DEF Bytes
<1> HIDE DEF r, m, k
<1>3. \A i \in 1 .. m : r[i] = q[i]
  BY <1>1, <1>2
<1>4. ASSUME NEW i \in 1 .. k PROVE r[m + i] = t[i]
  <2> DEFINE j == m + i
  <2>1. j \in 1 .. m + k /\ ~(j <= m) /\ j - m = i
    BY <1>1
  <2> HIDE DEF j
  <2>2. r[j] = t[j - m]
    BY <1>2, <2>1
  <2> QED BY <2>1, <2>2 DEF j
<1>5. r[m + 1] = t[1] /\ r[m + 1 + 1] = t[1 + 1]
  <2>1. 1 \in 1 .. k /\ 2 \in 1 .. k /\ m + 1 + 1 = m + 2 /\ 1 + 1 = 2
    BY <1>1
  <2> QED BY <1>4, <2>1
<1> DEFINE n == FrameLen(t[1], t[1 + 1])
<1>6. n = FrameLen(r[m + 1], r[m + 1 + 1]) /\ n \in Nat /\ n = k - 2
  <2>1. n \in Nat
    BY <1>1, FrameFacts DEF k
  <2>2. 1 + 2 + n = k + 1
    BY DEF NextFrame, HDR_LEN, k
  <2> HIDE DEF n
  <2>3. n = k - 2
    BY <1>1, <2>1, <2>2
  <2> QED BY <1>5, <2>1, <2>3 DEF n
<1> HIDE DEF n
<1>7. NextFrame(r, m + 1) = m + k + 1
  BY <1>1, <1>6 DEF NextFrame, HDR_LEN
<1>8. IsWhole(r, m + 1)
  BY <1>1, <1>2, <1>7 DEF IsWhole
<1>9. Payload(r, m + 1) = Payload(t, 1)
  <2>1. Payload(r, m + 1) = [j \in 1 .. n |-> r[m + 1 + 1 + j]]
    BY <1>6 DEF Payload
  <2>2. Payload(t, 1) = [j \in 1 .. n |-> t[1 + 1 + j]]
    BY DEF Payload, n
  <2>3. ASSUME NEW j \in 1 .. n PROVE r[m + 1 + 1 + j] = t[1 + 1 + j]
    <3>1. 1 + 1 + j \in 1 .. k /\ m + (1 + 1 + j) = m + 1 + 1 + j
      BY <1>1, <1>6
    <3> QED BY <1>4, <3>1
  <2> QED BY <2>1, <2>2, <2>3
<1> QED BY <1>2, <1>3, <1>7, <1>8, <1>9 DEF r, m, k

\* A whole frame behind whole frames: one cut more, ...
LEMMA CutsAppend ==
  ASSUME NEW q \in Bytes, NEW t \in Bytes, Len(t) >= HDR_LEN, NextFrame(t, 1) = Len(t) + 1,
         NEW S, Cuts(q, S)
  PROVE  /\ Cuts(q \o t, S \cup {Len(q) + Len(t) + 1})
         /\ \A i \in S \ {Len(q) + 1} : NextFrame(q \o t, i) = NextFrame(q, i)
                                        /\ IsWhole(q \o t, i)
                                        /\ Payload(q \o t, i) = Payload(q, i)
<1> DEFINE r == q \o t
           m == Len(q)
           k == Len(t)
           U == S \cup {m + k + 1}
<1>1. /\ r \in Bytes /\ Len(r) = m + k
      /\ \A i \in 1 .. m : r[i] = q[i]
      /\ NextFrame(r, m + 1) = m + k + 1
  BY AppendedFrame
<1>2. m \in Nat /\ k \in Nat /\ k >= 2
  BY LenProperties DEF Bytes, HDR_LEN
<1> HIDE DEF r, m, k
<1>3. ASSUME NEW i \in S, i # m + 1
      PROVE  /\ i \in 1 .. m /\ i + 1 \in 1 .. m /\ i < m
             /\ NextFrame(q, i) \in S /\ NextFrame(q, i) \in i + 2 .. m + 1
             /\ FrameLen(q[i], q[i + 1]) \in Nat
             /\ r[i] = q[i] /\ r[i + 1] = q[i + 1]
  <2>1. /\ i \in 1 .. m /\ i + 1 \in 1 .. m
        /\ NextFrame(q, i) \in S /\ NextFrame(q, i) \in i + 2 .. m + 1
    BY <1>3, CutFacts DEF m
  <2>2. i < m /\ i \in Nat \ {0}
    BY <1>2, <2>1
  <2>3. FrameLen(q[i], q[i + 1]) \in Nat
    BY <2>2, FrameFacts DEF m
  <2> QED BY <1>1, <2>1, <2>2, <2>3
<1>4. ASSUME NEW i \in S, i # m + 1
      PROVE  NextFrame(r, i) = NextFrame(q, i) /\ IsWhole(r, i) /\ Payload(r, i) = Payload(q, i)
  <2> DEFINE n == FrameLen(q[i], q[i + 1])
  <2>1. n = FrameLen(r[i], r[i + 1]) /\ n \in Nat
    BY <1>3, <1>4
  <2>2. i + 2 + n = NextFrame(q, i) /\ NextFrame(r, i) = NextFrame(q, i)
    BY <2>1 DEF NextFrame, HDR_LEN
  <2> HIDE DEF n
  <2>3. IsWhole(r, i)
    BY <1>1, <1>2, <1>3, <1>4, <2>2 DEF IsWhole
  <2>4. Payload(r, i) = [j \in 1 .. n |-> r[i + 1 + j]] /\ Payload(q, i) = [j \in 1 .. n |-> q[i + 1 + j]]
    BY <2>1 DEF Payload, n
  <2>5. ASSUME NEW j \in 1 .. n PROVE r[i + 1 + j] = q[i + 1 + j]
    <3>1. i + 1 + j \in 1 .. m
      BY <1>2, <1>3, <1>4, <2>1, <2>2
    <3> QED BY <1>1, <3>1
  <2> QED BY <2>2, <2>3, <2>4, <2>5
<1>5. S \subseteq 1 .. m + 1 /\ 1 \in S /\ m + 1 \in S
  BY DEF Cuts, m
<1>6. U \subseteq 1 .. m + k + 1 /\ 1 \in U /\ m + k + 1 \in U
  BY <1>2, <1>5
<1>7. ASSUME NEW i \in U \ {m + k + 1}
      PROVE  /\ i < m + k
             /\ NextFrame(r, i) \in U
             /\ \A j \in U : i < j => NextFrame(r, i) <= j
  <2>1. CASE i = m + 1
    <3>1. \A j \in U : i < j => j = m + k + 1
      BY <1>2, <1>5, <2>1
    <3> QED BY <1>1, <1>2, <1>6, <2>1, <3>1
  <2>2. CASE i # m + 1
    <3>1. i \in S
      OBVIOUS
    <3>2. \A j \in S : i < j => NextFrame(q, i) <= j
      BY <2>2, <3>1 DEF Cuts, m
    <3>3. NextFrame(r, i) = NextFrame(q, i) /\ NextFrame(q, i) \in S
          /\ NextFrame(q, i) \in i + 2 .. m + 1 /\ i < m
      BY <1>3, <1>4, <2>2, <3>1
    <3> DEFINE x == NextFrame(q, i)
    <3>4. i \in Nat /\ x \in Nat /\ x <= m + k + 1 /\ i < m + k
      BY <1>2, <1>5, <3>1, <3>3
    <3> HIDE DEF x
    <3>5. \A j \in U : i < j => x <= j
      BY <3>2, <3>4 DEF x
    <3> QED BY <3>3, <3>4, <3>5 DEF x
  <2> QED BY <2>1, <2>2
<1>8. Cuts(r, U)
  BY <1>1, <1>6, <1>7 DEF Cuts
<1> QED BY <1>4, <1>8 DEF r, m, k

\* ... and one frame more.
LEMMA FramesAppend ==
  ASSUME NEW q \in Bytes, NEW t \in Bytes, Len(t) >= HDR_LEN, NextFrame(t, 1) = Len(t) + 1,
         NEW S, Cuts(q, S)
  PROVE  FramesFrom(q \o t, 1) = FramesFrom(q, 1) \o <<Payload(t, 1)>>
<1> DEFINE r == q \o t
           m == Len(q)
           k == Len(t)
           p == <<Payload(t, 1)>>
           Same(i) == FramesFrom(r, i) = FramesFrom(q, i) \o p
           T == {i \in S : ~Same(i)}
<1>1. m \in Nat /\ k \in Nat /\ k >= 2 /\ S \subseteq 1 .. m + 1 /\ 1 \in S
  BY LenProperties DEF Bytes, HDR_LEN, Cuts
<1>2. /\ r \in Bytes /\ Len(r) = m + k
      /\ NextFrame(r, m + 1) = m + k + 1 /\ IsWhole(r, m + 1) /\ Payload(r, m + 1) = Payload(t, 1)
  BY AppendedFrame
<1>3. p \in Seq(Texts)
  <2>1. IsWhole(t, 1)
    BY <1>1 DEF IsWhole
  <2> QED BY <2>1, PayloadType
<1>4. \A i \in S : i # m + 1 =>
        NextFrame(r, i) = NextFrame(q, i) /\ IsWhole(r, i) /\ Payload(r, i) = Payload(q, i)
  BY CutsAppend
<1> HIDE DEF r, m, k, p
<1>5. Same(m + 1)
  <2>1. FramesFrom(q, m + 1) = <<>>
    <3>1. m + 1 \in 1 .. m + 1 /\ m + 1 > m
      BY <1>1
    <3> QED BY <3>1, FramesUnfold DEF m
  <2>2. FramesFrom(r, m + k + 1) = <<>>
    <3>1. m + k + 1 \in 1 .. Len(r) + 1 /\ m + k + 1 > Len(r)
      BY <1>1, <1>2
    <3> QED BY <1>2, <3>1, FramesUnfold
  <2>3. FramesFrom(r, m + 1) = p \o FramesFrom(r, m + k + 1)
    <3>1. m + 1 \in 1 .. Len(r) + 1 /\ m + 1 <= Len(r)
      BY <1>1, <1>2
    <3> QED BY <1>2, <3>1, FramesUnfold DEF p
  <2> QED BY <1>3, <2>1, <2>2, <2>3, ConcatEmptySeq
<1>6. ASSUME NEW i \in S, i # m + 1, Same(NextFrame(q, i)) PROVE Same(i)
  <2>1. i \in 1 .. m + 1 /\ i <= m /\ IsWhole(q, i) /\ NextFrame(q, i) \in 1 .. m + 1
    BY <1>1, <1>6, CutFacts DEF m
  <2> DEFINE x == <<Payload(q, i)>>
             u == FramesFrom(q, NextFrame(q, i))
  <2>2. FramesFrom(q, i) = x \o u
    BY <2>1, FramesUnfold DEF m
  <2>3. FramesFrom(r, i) = x \o FramesFrom(r, NextFrame(q, i))
    <3>1. i \in 1 .. Len(r) + 1 /\ i <= Len(r)
      BY <1>1, <1>2, <2>1
    <3> QED BY <1>2, <1>4, <1>6, <3>1, FramesUnfold
  <2>4. x \in Seq(Texts) /\ u \in Seq(Texts)
    <3>1. i \in Nat \ {0}
      BY <2>1
    <3> QED BY <2>1, <3>1, PayloadType, FramesType DEF m
  <2> HIDE DEF x, u
  <2>5. FramesFrom(r, NextFrame(q, i)) = u \o p
    BY <1>6 DEF u
  <2> QED BY <1>3, <2>2, <2>3, <2>4, <2>5, ConcatAssociative
<1>7. ASSUME T # {} PROVE FALSE
  <2>1. T \in SUBSET (0 .. m + 1) /\ m + 1 \in Nat
    <3>1. 1 .. m + 1 \subseteq 0 .. m + 1 /\ m + 1 \in Nat
      BY <1>1
    <3> HIDE DEF Same
    <3> QED BY <1>1, <3>1
  <2>2. PICK i \in T : \A y \in T : y <= i
    BY <1>7, <2>1, GreatestNumber
  <2>3. i \in S /\ ~Same(i) /\ i # m + 1
    BY <1>5
  <2>4. NextFrame(q, i) \in S /\ NextFrame(q, i) \in i + 2 .. m + 1 /\ i \in Nat
    BY <1>1, <2>3, CutFacts DEF m
  <2>5. ~(NextFrame(q, i) <= i)
    BY <1>1, <2>4
  <2>6. Same(NextFrame(q, i))
    BY <2>2, <2>4, <2>5
  <2> HIDE DEF Same
  <2> QED BY <1>6, <2>3, <2>6
<1> QED BY <1>1, <1>7 DEF r, p

\* What is left of q when its first k bytes are taken.
Suffix(q, k) == [i \in 1 .. Len(q) - k |-> q[i + k]]

\* A frame that starts behind the first k bytes is the same frame when they are gone.
LEMMA SuffixFacts ==
  ASSUME NEW q \in Bytes, NEW k \in 0 .. Len(q)
  PROVE  /\ Suffix(q, k) \in Bytes /\ Len(Suffix(q, k)) = Len(q) - k /\ Len(q) - k \in Nat
         /\ \A i \in 1 .. Len(q) - k : Suffix(q, k)[i] = q[i + k]
         /\ \A i \in Nat \ {0} : i < Len(q) - k =>
              /\ NextFrame(Suffix(q, k), i) = NextFrame(q, i + k) - k
              /\ IsWhole(Suffix(q, k), i) = IsWhole(q, i + k)
              /\ IsWhole(q, i + k) => Payload(Suffix(q, k), i) = Payload(q, i + k)
<1> DEFINE p == Suffix(q, k)
           m == Len(q)
<1>1. m \in Nat /\ k \in Nat /\ k <= m /\ m - k \in Nat
  BY LenProperties DEF Bytes
<1>2. p = [i \in 1 .. m - k |-> q[i + k]]
  BY DEF Suffix
<1>3. ASSUME NEW i \in 1 .. m - k PROVE q[i + k] \in Byte
  <2>1. i + k \in 1 .. m
    BY <1>1
  <2> QED BY <2>1, ElementOfSeq DEF Bytes
<1> HIDE DEF p
<1>4. p \in Bytes /\ Len(p) = m - k
  <2>1. p \in [1 .. m - k -> Byte]
    BY <1>2, <1>3
  <2> HIDE DEF m
  <2> QED BY <1>1, <2>1, FunctionIsSeq DEF Bytes
<1>5. \A i \in 1 .. m - k : p[i] = q[i + k]
  BY <1>2
<1> HIDE DEF m
<1>6. ASSUME NEW i \in Nat \ {0}, i < m - k
      PROVE  /\ NextFrame(p, i) = NextFrame(q, i + k) - k
             /\ IsWhole(p, i) = IsWhole(q, i + k)
             /\ IsWhole(q, i + k) => Payload(p, i) = Payload(q, i + k)
  <2>1. i \in 1 .. m - k /\ i + 1 \in 1 .. m - k /\ i + 1 + k = i + k + 1
    BY <1>1, <1>6
  <2>2. p[i] = q[i + k] /\ p[i + 1] = q[i + k + 1]
    BY <1>5, <2>1
  <2> DEFINE n == FrameLen(q[i + k], q[i + k + 1])
  <2>3. n = FrameLen(p[i], p[i + 1]) /\ n \in Nat
    <3>1. i + k \in Nat \ {0} /\ i + k < m
      BY <1>1, <1>6
    <3> QED BY <2>2, <3>1, FrameFacts DEF m
  <2> HIDE DEF n
  <2>4. NextFrame(p, i) = i + 2 + n /\ NextFrame(q, i + k) = i + k + 2 + n
    BY <2>3 DEF NextFrame, HDR_LEN, n
  <2>5. IsWhole(p, i) = IsWhole(q, i + k)
    <3>1. IsWhole(p, i) <=> i + 2 + n <= m - k + 1
      BY <1>4, <1>6, <2>4 DEF IsWhole
    <3>2. IsWhole(q, i + k) <=> i + k + 2 + n <= m + 1
      <4>1. i + k < m
        BY <1>1, <1>6
      <4> QED BY <2>4, <4>1 DEF IsWhole, m
    <3>3. i + 2 + n <= m - k + 1 <=> i + k + 2 + n <= m + 1
      BY <1>1, <2>3
    <3>4. IsWhole(p, i) \in BOOLEAN /\ IsWhole(q, i + k) \in BOOLEAN
      BY DEF IsWhole
    <3> QED BY <3>1, <3>2, <3>3, <3>4
  <2>6. ASSUME IsWhole(q, i + k) PROVE Payload(p, i) = Payload(q, i + k)
    <3>1. Payload(p, i) = [j \in 1 .. n |-> p[i + 1 + j]]
          /\ Payload(q, i + k) = [j \in 1 .. n |-> q[i + k + 1 + j]]
      BY <2>3 DEF Payload, n
    <3>2. i + k + 2 + n <= m + 1
      BY <2>4, <2>6 DEF IsWhole, m
    <3>3. ASSUME NEW j \in 1 .. n PROVE p[i + 1 + j] = q[i + k + 1 + j]
      <4>1. i + 1 + j \in 1 .. m - k /\ i + 1 + j + k = i + k + 1 + j
        BY <1>1, <2>3, <3>2
      <4> QED BY <1>5, <4>1
    <3> QED BY <3>1, <3>3
  <2>7. NextFrame(p, i) = NextFrame(q, i + k) - k
    BY <1>1, <2>3, <2>4
  <2> QED BY <2>5, <2>6, <2>7
<1> QED BY <1>1, <1>4, <1>5, <1>6 DEF p, m

\* The cuts of what is left when whole frames are taken, ...
LEMMA CutsSuffix ==
  ASSUME NEW q \in Bytes, NEW S, Cuts(q, S), NEW k \in Nat, k + 1 \in S
  PROVE  Cuts(Suffix(q, k), {i \in 1 .. Len(q) - k + 1 : i + k \in S})
<1> DEFINE p == Suffix(q, k)
           m == Len(q)
           U == {i \in 1 .. m - k + 1 : i + k \in S}
<1>1. m \in Nat /\ k \in 0 .. m /\ S \subseteq 1 .. m + 1 /\ m + 1 \in S
  BY LenProperties DEF Bytes, Cuts
<1>2. /\ Len(p) = m - k
      /\ \A i \in Nat \ {0} : i < m - k => NextFrame(p, i) = NextFrame(q, i + k) - k
  BY <1>1, SuffixFacts
<1> HIDE DEF p, m
<1>3. U \subseteq 1 .. m - k + 1 /\ 1 \in U /\ m - k + 1 \in U
  <2>1. 1 \in 1 .. m - k + 1 /\ 1 + k = k + 1
    BY <1>1
  <2>2. m - k + 1 \in 1 .. m - k + 1 /\ m - k + 1 + k = m + 1
    BY <1>1
  <2> QED BY <1>1, <2>1, <2>2
<1>4. ASSUME NEW i \in U \ {m - k + 1}
      PROVE  i < m - k /\ NextFrame(p, i) \in U /\ \A j \in U : i < j => NextFrame(p, i) <= j
  <2> DEFINE x == NextFrame(q, i + k)
  <2>1. i \in 1 .. m - k + 1 /\ i + k \in S /\ i + k # m + 1
    BY <1>1
  <2>2. i + k < m /\ x \in S /\ \A j \in S : i + k < j => x <= j
    BY <2>1 DEF Cuts, m
  <2>3. x \in i + k + 2 .. m + 1
    BY <2>1, CutFacts DEF m
  <2>4. i \in Nat \ {0} /\ i < m - k
    BY <1>1, <2>1, <2>2
  <2>5. NextFrame(p, i) = x - k
    BY <1>2, <2>4
  <2> HIDE DEF x
  <2>6. x - k \in 1 .. m - k + 1 /\ x - k + k = x
    BY <1>1, <2>1, <2>3
  <2>7. x - k \in U
    BY <2>2, <2>6
  <2>8. ASSUME NEW j \in U, i < j PROVE x - k <= j
    <3>1. j + k \in S /\ j \in 1 .. m - k + 1 /\ i + k < j + k
      BY <1>1, <2>1, <2>8
    <3>2. x <= j + k
      BY <2>2, <3>1
    <3> QED BY <1>1, <2>3, <2>1, <3>1, <3>2
  <2> QED BY <2>4, <2>5, <2>7, <2>8
<1>5. Cuts(p, U)
  BY <1>2, <1>3, <1>4 DEF Cuts
<1> QED BY <1>5 DEF p, m

\* ... and its frames.
LEMMA FramesSuffix ==
  ASSUME NEW q \in Bytes, NEW S, Cuts(q, S), NEW k \in Nat, k + 1 \in S
  PROVE  FramesFrom(Suffix(q, k), 1) = FramesFrom(q, k + 1)
<1> DEFINE p == Suffix(q, k)
           m == Len(q)
           U == {i \in 1 .. m - k + 1 : i + k \in S}
           Same(i) == FramesFrom(p, i) = FramesFrom(q, i + k)
           T == {i \in U : ~Same(i)}
<1>1. m \in Nat /\ k \in 0 .. m /\ S \subseteq 1 .. m + 1
  BY LenProperties DEF Bytes, Cuts
<1>2. /\ p \in Bytes /\ Len(p) = m - k
      /\ \A i \in Nat \ {0} : i < m - k =>
           /\ NextFrame(p, i) = NextFrame(q, i + k) - k
           /\ IsWhole(q, i + k) => Payload(p, i) = Payload(q, i + k)
  BY <1>1, SuffixFacts
<1>3. Cuts(p, U)
  BY CutsSuffix
<1> HIDE DEF p, m
<1>4. Same(m - k + 1)
  <2>1. FramesFrom(p, m - k + 1) = <<>>
    <3>1. m - k + 1 \in 1 .. Len(p) + 1 /\ m - k + 1 > Len(p)
      BY <1>1, <1>2
    <3> QED BY <1>2, <3>1, FramesUnfold
  <2>2. FramesFrom(q, m + 1) = <<>>
    <3>1. m + 1 \in 1 .. Len(q) + 1 /\ m + 1 > Len(q)
      BY <1>1 DEF m
    <3> QED BY <3>1, FramesUnfold
  <2>3. m - k + 1 + k = m + 1
    BY <1>1
  <2> QED BY <2>1, <2>2, <2>3
<1>5. ASSUME NEW i \in U, i # m - k + 1, Same(NextFrame(p, i)) PROVE Same(i)
  <2>1. /\ i \in 1 .. m - k /\ IsWhole(p, i) /\ NextFrame(p, i) \in i + 2 .. m - k + 1
        /\ i + k \in S /\ i + k # m + 1
    <3>1. i + k \in S /\ i \in 1 .. m - k + 1
      OBVIOUS
    <3>2. i + k # m + 1
      BY <1>1, <1>5, <3>1
    <3> QED BY <1>2, <1>3, <1>5, <3>1, <3>2, CutFacts
  <2>2. i \in Nat \ {0} /\ i < m - k
    <3>1. i < m - k
      BY <1>2, <2>1 DEF IsWhole
    <3> QED BY <2>1, <3>1
  <2>3. IsWhole(q, i + k) /\ i + k \in 1 .. m /\ NextFrame(q, i + k) \in i + k + 2 .. m + 1
    BY <2>1, CutFacts DEF m
  <2>4. NextFrame(p, i) = NextFrame(q, i + k) - k /\ Payload(p, i) = Payload(q, i + k)
    BY <1>2, <2>2, <2>3
  <2>5. NextFrame(p, i) + k = NextFrame(q, i + k)
    BY <1>1, <2>3, <2>4
  <2>6. FramesFrom(p, i) = <<Payload(p, i)>> \o FramesFrom(p, NextFrame(p, i))
    <3>1. i \in 1 .. Len(p) + 1 /\ i <= Len(p)
      BY <1>1, <1>2, <2>1
    <3> QED BY <1>2, <2>1, <3>1, FramesUnfold
  <2>7. FramesFrom(q, i + k) = <<Payload(q, i + k)>> \o FramesFrom(q, NextFrame(q, i + k))
    <3>1. i + k \in 1 .. m + 1 /\ i + k <= m
      BY <1>1, <2>3
    <3> QED BY <2>3, <3>1, FramesUnfold DEF m
  <2> QED BY <1>5, <2>4, <2>5, <2>6, <2>7
<1>6. ASSUME T # {} PROVE FALSE
  <2>1. T \in SUBSET (0 .. m - k + 1) /\ m - k + 1 \in Nat
    <3>1. 1 .. m - k + 1 \subseteq 0 .. m - k + 1 /\ m - k + 1 \in Nat
      BY <1>1
    <3> HIDE DEF Same
    <3> QED BY <3>1
  <2>2. PICK i \in T : \A y \in T : y <= i
    BY <1>6, <2>1, GreatestNumber
  <2>3. i \in U /\ ~Same(i) /\ i # m - k + 1
    BY <1>4
  <2>4. NextFrame(p, i) \in U /\ NextFrame(p, i) \in i + 2 .. m - k + 1 /\ i \in Nat
    BY <1>1, <1>2, <1>3, <2>3, CutFacts
  <2>5. ~(NextFrame(p, i) <= i)
    BY <1>1, <2>4
  <2>6. Same(NextFrame(p, i))
    BY <2>2, <2>4, <2>5
  <2> HIDE DEF Same
  <2> QED BY <1>5, <2>3, <2>6
<1>7. 1 \in U
  BY <1>3 DEF Cuts
<1>8. Same(1)
  BY <1>6, <1>7
<1>9. 1 + k = k + 1
  BY <1>1
<1> QED BY <1>8, <1>9 DEF p

-----------------------------------------------------------------------------
(***************************************************************************)
(* The inductive invariant.  The committed bytes are whole frames, and the  *)
(* places where a read may stop, the end of an inverted ring and the        *)
(* `write` the consumer has loaded, are ends of frames.                     *)
(***************************************************************************)

\* The index in the queue of the first byte the consumer has not seen committed.
SeenPos == IF seenWrite < read THEN (last - read) + seenWrite + 1 ELSE seenWrite - read + 1

Reading == rpc \in {"loadLast", "resolve"}

FramedBy(S) ==
  /\ Cuts(Queue, S)
  /\ Inverted(write, read) => last - read + 1 \in S
  /\ Reading => SeenPos \in S

Framing == \E S \in SUBSET (1 .. Len(Queue) + 1) : FramedBy(S)

\* A grant has room for a frame of the length asked for, and a header.
AskInv ==
  /\ wpc \in {"loadRead", "decide"} => call = "grant_exact" /\ want - HDR_LEN \in Asked
  /\ Holding => glen - HDR_LEN \in Asked

\* What is being committed is nothing or a frame.
StagedInv ==
  wpc \in {"storeLast", "storeWrite"} /\ reserve > gstart =>
    /\ reserve - gstart >= HDR_LEN
    /\ FrameLen(buf[gstart], buf[gstart + 1]) = reserve - gstart - HDR_LEN

\* The reader holds the first frame of the queue.
FrontInv == rpc = "granted" => rlen1 = HDR_LEN + FrameLen(Queue[1], Queue[2])

FInv ==
  /\ IndInv
  /\ rlen2 = 0
  /\ AskInv
  /\ StagedInv
  /\ FrontInv
  /\ Framing

\* The types of the ring's bytes and of the queue.
FTypes ==
  /\ N \in Nat \ {0} /\ Len(Queue) = UsedLen /\ Queue \in Bytes /\ UsedLen \in 0 .. N
  /\ buf \in [0 .. N - 1 -> Byte]

LEMMA FTypesHold == IndInv => FTypes
BY QueueFacts, NAssumption DEF QueueIs, FTypes, Bytes, IndInv, TypeOK

-----------------------------------------------------------------------------
(* What a read finds.                                                      *)

\* The bytes a read finds are the first of the queue.
LEMMA FoundBytes ==
  ASSUME IndInv, rpc = "resolve"
  PROVE  /\ Found \in 0 .. UsedLen /\ Resolved \in Index
         /\ \A i \in 1 .. Found : Place(i) = Resolved + i - 1
<1>1. Found \in 0 .. UsedLen /\ Resolved \in Index
  BY ResolveBounds, NAssumption, SMT DEF UsedLen, IndInv, TypeOK, IndexInv, Inverted, Index
<1>2. ASSUME NEW i \in 1 .. Found PROVE Place(i) = Resolved + i - 1
  BY ResolveBounds, NAssumption, SMT DEF Place, IndInv, TypeOK, IndexInv, Inverted, Index
<1> QED BY <1>1, <1>2

\* They end where the consumer saw the end of the committed bytes, or of the ring.
LEMMA FoundIsCut ==
  ASSUME IndInv, rpc = "resolve", Found # 0
  PROVE  \/ Found + 1 = SeenPos
         \/ Inverted(write, read) /\ Found + 1 = last - read + 1
BY NAssumption, SMT
   DEF IndInv, TypeOK, ConsumerInv, SeenWriteInv, Inverted, Index, Resolved, ResolvedRead,
       Found, FirstLen, SeenPos

\* A queue that is not empty starts with a whole frame.
LEMMA FirstFrame ==
  ASSUME IndInv, NEW S, Cuts(Queue, S), UsedLen # 0
  PROVE  /\ Len(Queue) >= 2
         /\ FrameLen(Queue[1], Queue[2]) \in Nat
         /\ NextFrame(Queue, 1) = FrameLen(Queue[1], Queue[2]) + 3
         /\ NextFrame(Queue, 1) \in S
         /\ IsWhole(Queue, 1)
         /\ \A j \in S : 1 < j => NextFrame(Queue, 1) <= j
<1>1. Queue \in Bytes /\ Len(Queue) \in Nat /\ Len(Queue) # 0
  BY FTypesHold DEF FTypes
<1>2. 1 \in S /\ 1 # Len(Queue) + 1
  BY <1>1 DEF Cuts
<1>3. Len(Queue) >= 2 /\ NextFrame(Queue, 1) \in S /\ IsWhole(Queue, 1)
  BY <1>1, <1>2, CutFacts
<1>4. FrameLen(Queue[1], Queue[1 + 1]) \in Nat /\ 1 + 1 = 2
  BY <1>1, <1>3, FrameFacts
<1>5. NextFrame(Queue, 1) = FrameLen(Queue[1], Queue[2]) + 3
  <2> DEFINE n == FrameLen(Queue[1], Queue[2])
  <2>1. NextFrame(Queue, 1) = 1 + 2 + n
    BY <1>4 DEF NextFrame, HDR_LEN
  <2>2. n \in Nat
    BY <1>4
  <2> HIDE DEF n
  <2>3. 1 + 2 + n = n + 3
    BY <2>2
  <2> QED BY <2>1, <2>3 DEF n
<1>6. \A j \in S : 1 < j => NextFrame(Queue, 1) <= j
  BY <1>2 DEF Cuts
<1> QED BY <1>3, <1>4, <1>5, <1>6

\* What a read finds, unless it is nothing, starts with a whole frame: the first of the
\* queue.
LEMMA FoundIsWhole ==
  ASSUME FInv, rpc = "resolve", Found # 0
  PROVE  /\ HeaderLen = FrameLen(Queue[1], Queue[2]) /\ HeaderLen \in Nat
         /\ Found \in Nat /\ Found >= HDR_LEN + HeaderLen
         /\ UsedLen # 0
<1>0. IndInv
  BY DEF FInv
<1>1. PICK S \in SUBSET (1 .. Len(Queue) + 1) : FramedBy(S)
  BY DEF FInv, Framing
<1>2. Found \in 0 .. UsedLen /\ UsedLen \in Nat /\ UsedLen # 0
  BY <1>0, FoundBytes, FTypesHold DEF FTypes
<1>3. Found + 1 \in S
  BY <1>0, <1>1, FoundIsCut DEF FramedBy, Reading
<1> DEFINE n == FrameLen(Queue[1], Queue[2])
<1>4. n \in Nat /\ n + 3 <= Found + 1
  <2>1. 1 < Found + 1
    BY <1>2
  <2> QED BY <1>0, <1>1, <1>2, <1>3, <2>1, FirstFrame DEF FramedBy
<1> HIDE DEF n
<1>5. Found \in Nat /\ Found >= 2 + n
  BY <1>2, <1>4
<1>6. HeaderLen = n
  <2>1. 1 \in 1 .. Found /\ 2 \in 1 .. Found /\ 1 \in 1 .. UsedLen /\ 2 \in 1 .. UsedLen
    BY <1>2, <1>4, <1>5
  <2>2. Place(1) = Resolved + 1 - 1 /\ Place(2) = Resolved + 2 - 1
    BY <1>0, <2>1, FoundBytes
  <2>3. Resolved + 1 - 1 = Resolved /\ Resolved + 2 - 1 = Resolved + 1
    BY <1>0, FoundBytes, NAssumption DEF Index
  <2>4. Queue[1] = buf[Resolved] /\ Queue[2] = buf[Resolved + 1]
    BY <1>0, <2>1, <2>2, <2>3, QueueFacts DEF QueueIs
  <2> QED BY <2>4 DEF HeaderLen, n
<1> QED BY <1>2, <1>4, <1>5, <1>6 DEF n, HDR_LEN

-----------------------------------------------------------------------------
(* The commit of a frame.                                                  *)

\* A payload is a sequence of bytes.
LEMMA FrameIsBytes ==
  ASSUME NEW p \in Frame
  PROVE  p \in Bytes /\ Len(p) \in Nat /\ p \in [1 .. Len(p) -> Byte]
<1>1. PICK n \in UNION {0 .. m : m \in Asked} : p \in [1 .. n -> Byte]
  BY DEF Frame
<1>2. n \in Nat
  BY <1>1, FramedAssumption
<1>3. p \in Seq(Byte) /\ Len(p) = n
  BY <1>1, <1>2, FunctionIsSeq
<1> QED BY <1>1, <1>2, <1>3 DEF Bytes

\* How much of the grant is committed.
LEMMA CommittedLength ==
  ASSUME FInv, wpc = "granted", NEW used \in Index
  PROVE  /\ Smaller(used, glen - HDR_LEN) \in 0 .. Radix * Radix - 1
         /\ Smaller(used, glen - HDR_LEN) \in 0 .. glen - 2
         /\ gstart \in Nat /\ glen \in Nat /\ gstart + glen <= N /\ reserve = gstart + glen
<1>1. glen - HDR_LEN \in 0 .. Radix * Radix - 1
  BY FramedAssumption DEF FInv, AskInv, Holding
<1>2. gstart \in Nat /\ glen \in Nat /\ gstart + glen <= N /\ reserve = gstart + glen
  BY NAssumption, SMT DEF FInv, IndInv, TypeOK, ProducerInv, Index
<1>3. used \in Nat
  BY NAssumption DEF Index
<1> DEFINE top == Radix * Radix - 1
           len == Smaller(used, glen - HDR_LEN)
<1>4. top \in Int /\ glen - 2 \in 0 .. top
  BY <1>1, FramedAssumption DEF HDR_LEN
<1> HIDE DEF top
<1>5. len \in 0 .. top /\ len \in 0 .. glen - 2
  BY <1>2, <1>3, <1>4, SMT DEF Smaller, HDR_LEN
<1> QED BY <1>2, <1>5 DEF top

\* It leaves the header and the payload in the slice, and every other byte as it was.
LEMMA FrameCommitWrites ==
  ASSUME FInv, NEW used \in Index, NEW payload \in Frame, FrameCommit(used, payload)
  PROVE  /\ buf' \in [0 .. N - 1 -> Byte]
         /\ Len(payload) \in 0 .. Radix * Radix - 1 /\ Len(payload) \in 0 .. glen - 2
         /\ reserve' = gstart + Len(payload) + 2
         /\ FrameLen(buf'[gstart], buf'[gstart + 1]) = Len(payload)
         /\ \A j \in 1 .. Len(payload) : buf'[gstart + 1 + j] = payload[j]
         /\ \A k \in 0 .. N - 1 : k \notin WriteGrant => buf'[k] = buf[k]
<1> DEFINE n == Len(payload)
<1>1. wpc = "granted" /\ n = Smaller(used, glen - HDR_LEN) /\ reserve' = reserve - (glen - Smaller(glen, n + 2))
  BY DEF FrameCommit, TotalLen, HDR_LEN
<1>2. /\ n \in 0 .. Radix * Radix - 1 /\ n \in 0 .. glen - 2 /\ n \in Nat
      /\ gstart \in Nat /\ glen \in Nat /\ gstart + glen <= N /\ reserve = gstart + glen
  BY <1>1, CommittedLength, FrameIsBytes
<1>3. payload \in [1 .. n -> Byte]
  BY FrameIsBytes
<1>4. HeaderByte(n, 0) \in Byte /\ HeaderByte(n, 1) \in Byte
      /\ FrameLen(HeaderByte(n, 0), HeaderByte(n, 1)) = n
  BY <1>2, HeaderRoundTrip
<1>5. buf' = [i \in 0 .. N - 1 |->
                CASE i \in gstart .. gstart + HDR_LEN - 1 -> HeaderByte(n, i - gstart)
                  [] i - gstart - HDR_LEN \in 0 .. n - 1 -> payload[i - gstart - HDR_LEN + 1]
                  [] OTHER -> buf[i]]
  BY <1>1 DEF FrameCommit
<1> HIDE DEF n, HeaderByte, FrameLen
<1>6. N \in Nat /\ buf \in [0 .. N - 1 -> Byte]
  BY NAssumption DEF FInv, IndInv, TypeOK
<1>7. ASSUME NEW i \in 0 .. N - 1
      PROVE  /\ i = gstart => buf'[i] = HeaderByte(n, 0)
             /\ i = gstart + 1 => buf'[i] = HeaderByte(n, 1)
             /\ i \in gstart + 2 .. gstart + 1 + n => buf'[i] = payload[i - gstart - 1]
             /\ (i < gstart \/ i > gstart + 1 + n) => buf'[i] = buf[i]
  <2>1. CASE i = gstart \/ i = gstart + 1
    <3>1. i \in gstart .. gstart + HDR_LEN - 1 /\ (i = gstart => i - gstart = 0)
          /\ (i = gstart + 1 => i - gstart = 1) /\ i - gstart - HDR_LEN \notin 0 .. n - 1
      BY <1>2, <2>1 DEF HDR_LEN
    <3>2. buf'[i] = HeaderByte(n, i - gstart)
      BY <1>5, <3>1
    <3>3. i \notin gstart + 2 .. gstart + 1 + n /\ ~(i < gstart) /\ ~(i > gstart + 1 + n)
      BY <1>2, <2>1
    <3>4. i = gstart => buf'[i] = HeaderByte(n, 0)
      BY <3>1, <3>2
    <3>5. i = gstart + 1 => buf'[i] = HeaderByte(n, 1)
      BY <3>1, <3>2
    <3> QED BY <3>3, <3>4, <3>5
  <2>2. CASE i \in gstart + 2 .. gstart + 1 + n
    <3>1. i \notin gstart .. gstart + HDR_LEN - 1 /\ i - gstart - HDR_LEN \in 0 .. n - 1
          /\ i - gstart - HDR_LEN + 1 = i - gstart - 1
          /\ i # gstart /\ i # gstart + 1 /\ ~(i < gstart) /\ ~(i > gstart + 1 + n)
      BY <1>2, <2>2 DEF HDR_LEN
    <3>2. buf'[i] = payload[i - gstart - HDR_LEN + 1]
      BY <1>5, <3>1
    <3> QED BY <3>1, <3>2
  <2>3. CASE i < gstart \/ i > gstart + 1 + n
    <3>1. i \notin gstart .. gstart + HDR_LEN - 1 /\ i - gstart - HDR_LEN \notin 0 .. n - 1
          /\ i # gstart /\ i # gstart + 1 /\ i \notin gstart + 2 .. gstart + 1 + n
      BY <1>2, <2>3 DEF HDR_LEN
    <3>2. buf'[i] = buf[i]
      BY <1>5, <3>1
    <3> QED BY <3>1, <3>2
  <2> QED BY <1>2, <2>1, <2>2, <2>3
<1>8. buf' \in [0 .. N - 1 -> Byte]
  <2>1. ASSUME NEW i \in 0 .. N - 1 PROVE buf'[i] \in Byte
    <3>1. CASE i = gstart \/ i = gstart + 1
      BY <1>4, <1>7, <3>1
    <3>2. CASE i \in gstart + 2 .. gstart + 1 + n
      <4>1. i - gstart - 1 \in 1 .. n
        BY <1>2, <3>2
      <4> QED BY <1>3, <1>7, <3>2, <4>1
    <3>3. CASE i < gstart \/ i > gstart + 1 + n
      BY <1>6, <1>7, <3>3
    <3> QED BY <1>2, <3>1, <3>2, <3>3
  <2>2. DOMAIN buf' = 0 .. N - 1 /\ buf' = [i \in 0 .. N - 1 |-> buf'[i]]
    BY <1>5
  <2> QED BY <2>1, <2>2
<1>9. FrameLen(buf'[gstart], buf'[gstart + 1]) = n
  <2>1. gstart \in 0 .. N - 1 /\ gstart + 1 \in 0 .. N - 1
    BY <1>2, <1>6
  <2>2. buf'[gstart] = HeaderByte(n, 0) /\ buf'[gstart + 1] = HeaderByte(n, 1)
    BY <1>7, <2>1
  <2> QED BY <1>4, <2>2
<1>10. ASSUME NEW j \in 1 .. n PROVE buf'[gstart + 1 + j] = payload[j]
  <2> DEFINE i == gstart + 1 + j
  <2>1. i \in 0 .. N - 1 /\ i \in gstart + 2 .. gstart + 1 + n /\ i - gstart - 1 = j
    BY <1>2, <1>6
  <2> HIDE DEF i
  <2>2. buf'[i] = payload[i - gstart - 1]
    BY <1>7, <2>1
  <2> QED BY <2>1, <2>2 DEF i
<1>11. ASSUME NEW k \in 0 .. N - 1, k \notin WriteGrant PROVE buf'[k] = buf[k]
  <2>1. k \notin gstart .. gstart + glen - 1
    BY <1>1, <1>11 DEF WriteGrant
  <2>2. k < gstart \/ k > gstart + 1 + n
    BY <1>2, <2>1
  <2> QED BY <1>7, <2>2
<1>12. reserve' = gstart + n + 2
  BY <1>1, <1>2, SMT DEF Smaller
<1> QED BY <1>2, <1>8, <1>9, <1>10, <1>11, <1>12 DEF n

-----------------------------------------------------------------------------
(* The ring's own invariant.                                               *)

LEMMA FrameCommitKeeps ==
  ASSUME FInv, NEW used \in Index, NEW payload \in Frame, FrameCommit(used, payload)
  PROVE  IndInv'
<1>1. /\ buf' \in [0 .. N - 1 -> Byte]
      /\ Len(payload) \in 0 .. glen - 2 /\ reserve' = gstart + Len(payload) + 2
  BY FrameCommitWrites
<1>2. /\ wpc = "granted" /\ wpc' = "storeLast"
      /\ UNCHANGED <<write, read, last, writeInProgress, call, want, seenRead, gstart, glen,
                     consumerVars>>
  BY DEF FrameCommit
<1>3. IndInv /\ gstart \in Nat /\ glen \in Nat /\ gstart + glen <= N
  BY <1>2, NAssumption, SMT DEF FInv, IndInv, TypeOK, ProducerInv, Index
<1>4. reserve' \in Index /\ gstart <= reserve' /\ reserve' <= gstart + glen
  BY <1>1, <1>3, NAssumption, SMT DEF Index
<1>5. TypeOK'
  BY <1>1, <1>2, <1>3, <1>4 DEF consumerVars, IndInv, TypeOK
<1>6. ProducerInv'
  BY <1>2, <1>3, <1>4, SMT DEF IndInv, ProducerInv, Straight, Wrapped, Inverted
<1>7. IndexInv' /\ ConsumerInv'
  BY <1>2, <1>3 DEF consumerVars, IndInv, IndexInv, ConsumerInv, SeenWriteInv, HeldInv, Inverted
<1> QED BY <1>5, <1>6, <1>7 DEF IndInv

\* The slice the reader is given is cut to the frame.
LEMMA FrameReadOkKeeps == FInv /\ FrameReadOk => IndInv'
<1> SUFFICES ASSUME FInv, FrameReadOk PROVE IndInv'
  OBVIOUS
<1>1. /\ rpc = "resolve" /\ read' = Resolved /\ rpc' = "granted"
      /\ rlen1' = HDR_LEN + HeaderLen /\ rlen2' = rlen2 /\ rlen2 = 0 /\ IndInv
      /\ UNCHANGED <<buf, write, last, readInProgress, split, seenWrite, seenLast, producerVars>>
  BY DEF FrameReadOk, FInv
<1>2. /\ Found \in Nat /\ Found \in Index /\ Resolved \in Index
      /\ rlen1' \in Nat /\ rlen1' > 0 /\ rlen1' <= Found
      /\ IF write < Resolved THEN Resolved + Found <= last ELSE Resolved + Found <= write
  <2>1. Found # 0 /\ Found >= HDR_LEN
    BY <1>1, ResolveBounds, NAssumption DEF FrameReadOk, Index, HDR_LEN
  <2>2. Found \in Nat /\ HeaderLen \in Nat /\ Found >= HDR_LEN + HeaderLen
    BY <1>1, <2>1, FoundIsWhole
  <2>3. rlen1' \in Nat /\ rlen1' > 0 /\ rlen1' <= Found
    <3> HIDE DEF HeaderLen, Found
    <3> QED BY <1>1, <2>2 DEF HDR_LEN
  <2> QED BY <1>1, <2>2, <2>3, ResolveBounds, FoundBytes
<1>3. TypeOK'
  <2>1. rlen1' \in Index
    BY <1>2, NAssumption DEF Index
  <2> QED BY <1>1, <1>2, <2>1 DEF producerVars, IndInv, TypeOK
<1>4. IndexInv' /\ ProducerInv'
  <2>1. \/ read <= read' /\ (Inverted(write, read) => read' <= last)
                          /\ (~Inverted(write, read) => read' <= write)
        \/ Inverted(write, read) /\ read' <= write
    BY <1>1, ResolveBounds, SMT DEF IndInv, TypeOK, IndexInv, Inverted, Index
  <2> QED BY <1>1, <2>1, <1>3, ReadStoreKeepsProducer DEF TypeOK
<1>5. ConsumerInv'
  <2>1. HeldInv'
    <3>1. write' = write /\ last' = last /\ last \in Nat /\ write \in Nat /\ Resolved \in Nat
      BY <1>1, <1>2, NAssumption DEF IndInv, TypeOK, Index
    <3> HIDE DEF Found, Resolved
    <3> QED BY <1>1, <1>2, <3>1, SMT DEF HeldInv, Inverted
  <2> QED BY <1>1, <2>1 DEF IndInv, ConsumerInv
<1> QED BY <1>3, <1>4, <1>5 DEF IndInv

\* Every step of the framed ring keeps it.
LEMMA FramedKeepsIndInv == FInv /\ [FramedNext]_vars => IndInv'
<1> SUFFICES ASSUME FInv, [FramedNext]_vars PROVE IndInv'
  OBVIOUS
<1>1. IndInv /\ 0 \in Index /\ rlen1 \in Index
  BY NAssumption DEF FInv, IndInv, TypeOK, Index
<1>2. ASSUME NEW maxSz \in Asked, FrameGrant(maxSz) PROVE IndInv'
  <2>1. maxSz + HDR_LEN \in Nat /\ "grant_exact" \in Calls
    BY FramedAssumption DEF HDR_LEN, Calls
  <2> QED BY <1>1, <1>2, <2>1, GrantBeginKeeps DEF FrameGrant
<1>3. ASSUME NEW used \in Index, NEW payload \in Frame, FrameCommit(used, payload) PROVE IndInv'
  BY <1>3, FrameCommitKeeps
<1>4. CASE FrameGrantDrop
  BY <1>1, <1>4, CommitBeginKeeps DEF FrameGrantDrop
<1>5. CASE ReadBegin(FALSE)
  BY <1>1, <1>5, ReadBeginKeeps
<1>6. CASE FrameRelease \/ FrameReadDrop
  BY <1>1, <1>6, ReleaseGrantKeeps DEF FrameRelease, FrameReadDrop
<1>7. CASE \/ GrantLoadRead \/ GrantOk \/ GrantRefused \/ CommitStoreLast \/ CommitStoreWrite
           \/ ReadLoadLast \/ ReadEmpty \/ UNCHANGED vars
  BY <1>1, <1>7, GrantLoadReadKeeps, GrantOkKeeps, GrantRefusedKeeps, CommitStoreLastKeeps,
     CommitStoreWriteKeeps, ReadLoadLastKeeps, ReadEmptyKeeps, StutterKeeps
<1> QED
  BY <1>2, <1>3, <1>4, <1>5, <1>6, <1>7, FrameReadOkKeeps
  DEF FramedNext, FrameProducer, FrameConsumer

-----------------------------------------------------------------------------
(* What the steps do to the queue.                                         *)

\* The loads and the bookkeeping of the two sides.
Quiet ==
  \/ \E maxSz \in Asked : FrameGrant(maxSz)
  \/ GrantLoadRead \/ GrantOk \/ GrantRefused \/ FrameGrantDrop
  \/ ReadBegin(FALSE) \/ ReadLoadLast
  \/ FrameReadDrop
  \/ UNCHANGED vars

LEMMA QuietFacts ==
  ASSUME IndInv, Quiet
  PROVE  UNCHANGED <<buf, write, read, last>> /\ Queue' = Queue
<1>1. UNCHANGED <<buf, write, read, last>>
  <2>1. CASE FrameReadDrop
    <3>1. read' = ReadAfterRelease(read, rlen1, Smaller(rlen1 + rlen2, 0))
          /\ UNCHANGED <<buf, write, last>>
      BY <2>1 DEF FrameReadDrop, ReleaseGrant
    <3>2. ReadAfterRelease(read, rlen1, Smaller(rlen1 + rlen2, 0)) = read
      BY NAssumption, SMT DEF IndInv, TypeOK, Index, ReadAfterRelease, Smaller
    <3> QED BY <3>1, <3>2
  <2>2. CASE ~FrameReadDrop
    BY <2>2 DEF Quiet, FrameGrant, GrantBegin, GrantLoadRead, GrantOk, GrantRefused,
                FrameGrantDrop, CommitBegin, ReadBegin, ReadLoadLast, vars
  <2> QED BY <2>1, <2>2
<1> QED BY <1>1 DEF Queue, UsedLen

\* No step but the store of `write` and a release changes the queue.
KeepsQueue ==
  \/ Quiet
  \/ \E used \in Index, payload \in Frame : FrameCommit(used, payload)
  \/ CommitStoreLast
  \/ FrameReadOk \/ ReadEmpty

LEMMA StepsOfTheQueue == [FramedNext]_vars => KeepsQueue \/ CommitStoreWrite \/ FrameRelease
BY DEF FramedNext, FrameProducer, FrameConsumer, KeepsQueue, Quiet

LEMMA QueueKept ==
  ASSUME FInv, IndInv', KeepsQueue
  PROVE  Queue' = Queue
<1>0. IndInv
  BY DEF FInv
<1>1. ASSUME NEW used \in Index, NEW payload \in Frame, FrameCommit(used, payload)
      PROVE  Queue' = Queue
  <2>1. UNCHANGED <<write, read, last>>
    BY <1>1 DEF FrameCommit
  <2>2. UsedLen' = UsedLen /\ \A i \in 1 .. UsedLen : Place(i)' = Place(i)
    BY <2>1 DEF UsedLen, Place
  <2>3. ASSUME NEW i \in 1 .. UsedLen PROVE (buf[Place(i)])' = buf[Place(i)]
    <3>1. Place(i) \in Readable /\ Place(i) \in 0 .. N - 1
      BY <1>0, PlaceIsReadable
    <3>2. Place(i) \notin WriteGrant
      BY <1>0, <3>1, DisjointGrants DEF GrantsDisjoint
    <3> HIDE DEF Place
    <3>3. buf'[Place(i)] = buf[Place(i)]
      BY <1>1, <3>1, <3>2, FrameCommitWrites
    <3> QED BY <2>2, <3>3
  <2> QED BY <1>0, <2>2, <2>3, QueueStays
<1>2. CASE CommitStoreLast
  BY <1>0, <1>2, CommitStoreLastKeepsQueue
<1>3. CASE FrameReadOk \/ ReadEmpty
  BY <1>0, <1>3, ResolvingKeepsQueue DEF FrameReadOk, ReadEmpty
<1>4. CASE Quiet
  BY <1>0, <1>4, QuietFacts
<1> QED BY <1>1, <1>2, <1>3, <1>4 DEF KeepsQueue

\* The frame that is being committed.
StagedPayload == [j \in 1 .. reserve - gstart - HDR_LEN |-> buf[gstart + 1 + j]]

\* The store of `write` appends nothing or one frame.
LEMMA CommitGrows ==
  ASSUME FInv, IndInv', CommitStoreWrite
  PROVE  /\ gstart \in Nat /\ reserve - gstart \in Nat
         /\ reserve - gstart = 0 => Queue' = Queue
         /\ reserve - gstart # 0 =>
              /\ Queue' = Queue \o Committed
              /\ Committed \in Bytes /\ Len(Committed) = reserve - gstart
              /\ Len(Committed) >= HDR_LEN
              /\ NextFrame(Committed, 1) = Len(Committed) + 1
              /\ Payload(Committed, 1) = StagedPayload
<1> DEFINE k == reserve - gstart
<1>0. IndInv /\ wpc = "storeWrite"
  BY DEF FInv, CommitStoreWrite
<1>1. gstart \in Nat /\ reserve \in Nat /\ gstart <= reserve /\ k \in Nat
  BY <1>0, NAssumption, SMT DEF IndInv, TypeOK, ProducerInv, Index
<1>2. /\ Queue' = Queue \o Committed
      /\ Committed \in Seq(Byte) /\ Len(Committed) = k
      /\ \A j \in 1 .. k : Committed[j] = buf[gstart + j - 1]
  BY <1>0, CommitAppends
<1>3. Queue \in Seq(Byte)
  BY <1>0, QueueFacts DEF QueueIs
<1>4. k = 0 => Queue' = Queue
  <2>1. k = 0 => Committed = <<>>
    BY <1>2, EmptySeq
  <2> HIDE DEF k
  <2> QED BY <1>2, <1>3, <2>1, ConcatEmptySeq
<1>5. ASSUME k # 0
      PROVE  /\ Len(Committed) >= HDR_LEN
             /\ NextFrame(Committed, 1) = Len(Committed) + 1
             /\ Payload(Committed, 1) = StagedPayload
  <2>1. k >= 2 /\ FrameLen(buf[gstart], buf[gstart + 1]) = k - 2
    <3>1. reserve > gstart
      BY <1>1, <1>5
    <3> QED BY <1>0, <3>1 DEF FInv, StagedInv, HDR_LEN
  <2> HIDE DEF k
  <2>2. Committed[1] = buf[gstart] /\ Committed[1 + 1] = buf[gstart + 1]
    <3>1. 1 \in 1 .. k /\ 2 \in 1 .. k /\ 1 + 1 = 2
      BY <1>1, <2>1
    <3>2. gstart + 1 - 1 = gstart /\ gstart + 2 - 1 = gstart + 1
      BY <1>1
    <3> QED BY <1>2, <3>1, <3>2
  <2>3. FrameLen(Committed[1], Committed[1 + 1]) = k - 2
    BY <2>1, <2>2
  <2>4. NextFrame(Committed, 1) = k + 1
    <3>1. NextFrame(Committed, 1) = 1 + 2 + (k - 2)
      BY <2>3 DEF NextFrame, HDR_LEN
    <3> QED BY <1>1, <3>1
  <2>5. Payload(Committed, 1) = [j \in 1 .. k - 2 |-> Committed[1 + 1 + j]]
    BY <2>3 DEF Payload
  <2>6. ASSUME NEW j \in 1 .. k - 2 PROVE Committed[1 + 1 + j] = buf[gstart + 1 + j]
    <3>1. 1 + 1 + j \in 1 .. k /\ gstart + (1 + 1 + j) - 1 = gstart + 1 + j
      BY <1>1, <2>1
    <3> QED BY <1>2, <3>1
  <2>7. StagedPayload = [j \in 1 .. k - 2 |-> buf[gstart + 1 + j]]
    BY DEF StagedPayload, HDR_LEN, k
  <2> QED BY <1>1, <1>2, <2>1, <2>4, <2>5, <2>6, <2>7 DEF HDR_LEN
<1> QED BY <1>1, <1>2, <1>4, <1>5 DEF k, Bytes

\* A release takes the first frame.
LEMMA ReleaseTakes ==
  ASSUME FInv, IndInv', FrameRelease
  PROVE  /\ Queue' = Suffix(Queue, rlen1)
         /\ rlen1 = HDR_LEN + FrameLen(Queue[1], Queue[2])
         /\ UsedLen # 0 /\ rlen1 \in Nat
<1>1. IndInv /\ rpc = "granted" /\ rlen2 = 0 /\ rlen1 \in Index /\ rlen1 \in Nat
  BY NAssumption DEF FInv, IndInv, TypeOK, FrameRelease, ReleaseGrant, Index
<1>2. Smaller(rlen1 + rlen2, rlen1) = rlen1
  BY <1>1 DEF Smaller
<1>3. Queue' = [i \in 1 .. Len(Queue) - rlen1 |-> Queue[i + rlen1]]
  BY <1>1, <1>2, ReleaseShifts DEF FrameRelease
<1>4. UsedLen # 0
  <2>1. rlen1 + rlen2 \in 1 .. UsedLen
    BY <1>1, ViewFacts DEF ViewIs
  <2> QED BY <2>1
<1> QED BY <1>1, <1>3, <1>4 DEF Suffix, FInv, FrontInv

-----------------------------------------------------------------------------
(* The other parts of the invariant.                                       *)

\* A grant is as long as what was asked for.
LEMMA AskKept == FInv /\ [FramedNext]_vars => AskInv'
<1> SUFFICES ASSUME FInv, [FramedNext]_vars PROVE AskInv'
  OBVIOUS
<1>1. AskInv
  BY DEF FInv
<1>2. ASSUME NEW maxSz \in Asked, FrameGrant(maxSz) PROVE AskInv'
  <2>1. wpc' = "loadRead" /\ call' = "grant_exact" /\ want' = maxSz + HDR_LEN
    BY <1>2 DEF FrameGrant, GrantBegin
  <2>2. want' - HDR_LEN = maxSz
    BY <2>1, FramedAssumption DEF HDR_LEN
  <2> QED BY <2>1, <2>2 DEF AskInv, Holding
<1>3. CASE GrantOk
  <2>1. wpc = "decide" /\ wpc' = "granted" /\ glen' = Decision.len /\ Decision.ok
    BY <1>3 DEF GrantOk
  <2>2. call = "grant_exact" /\ want - HDR_LEN \in Asked
    BY <1>1, <2>1 DEF AskInv
  <2>3. Decision.len = want
    BY <2>1, <2>2 DEF Decision, ExactGrant, GrantAt, NoGrant
  <2> QED BY <2>1, <2>2, <2>3 DEF AskInv, Holding
<1>4. CASE GrantLoadRead
  BY <1>1, <1>4 DEF GrantLoadRead, AskInv, Holding
<1>5. CASE GrantRefused \/ CommitStoreWrite
  BY <1>5 DEF GrantRefused, CommitStoreWrite, AskInv, Holding
<1>6. CASE CommitStoreLast \/ FrameGrantDrop
  BY <1>1, <1>6 DEF CommitStoreLast, FrameGrantDrop, CommitBegin, AskInv, Holding
<1>7. ASSUME NEW used \in Index, NEW payload \in Frame, FrameCommit(used, payload) PROVE AskInv'
  BY <1>1, <1>7 DEF FrameCommit, AskInv, Holding
<1>8. CASE FrameConsumer \/ UNCHANGED vars
  <2>1. UNCHANGED producerVars
    BY <1>8 DEF FrameConsumer, ReadBegin, ReadLoadLast, FrameReadOk, ReadEmpty, FrameRelease,
                FrameReadDrop, ReleaseGrant, vars
  <2> QED BY <1>1, <2>1 DEF producerVars, AskInv, Holding
<1> QED
  BY <1>2, <1>3, <1>4, <1>5, <1>6, <1>7, <1>8 DEF FramedNext, FrameProducer

\* What is committed is a frame, or nothing when the grant was dropped.
LEMMA StagedKept == FInv /\ [FramedNext]_vars => StagedInv'
<1> SUFFICES ASSUME FInv, [FramedNext]_vars PROVE StagedInv'
  OBVIOUS
<1>1. StagedInv
  BY DEF FInv
<1>2. ASSUME NEW used \in Index, NEW payload \in Frame, FrameCommit(used, payload)
      PROVE  StagedInv'
  <2> DEFINE n == Len(payload)
  <2>1. reserve' = gstart + n + 2 /\ gstart' = gstart /\ gstart \in Nat /\ n \in Nat
        /\ FrameLen(buf'[gstart], buf'[gstart + 1]) = n
    BY <1>2, FrameCommitWrites, FrameIsBytes, CommittedLength DEF FrameCommit
  <2> HIDE DEF n
  <2>2. reserve' - gstart = n + 2 /\ reserve' - gstart - 2 = n /\ n + 2 >= 2
    BY <2>1
  <2> QED BY <2>1, <2>2 DEF StagedInv, HDR_LEN
<1>3. CASE FrameGrantDrop
  <2>1. wpc = "granted" /\ gstart' = gstart /\ reserve' = reserve - (glen - Smaller(glen, 0))
    BY <1>3 DEF FrameGrantDrop, CommitBegin
  <2>2. gstart \in Nat /\ glen \in Nat /\ reserve = gstart + glen
    BY <2>1, NAssumption, SMT DEF FInv, IndInv, TypeOK, ProducerInv, Index
  <2>3. ~(reserve' > gstart)
    BY <2>1, <2>2, SMT DEF Smaller
  <2> QED BY <2>1, <2>3 DEF StagedInv
<1>4. CASE CommitStoreLast
  BY <1>1, <1>4 DEF CommitStoreLast, StagedInv
<1>5. CASE \/ \E maxSz \in Asked : FrameGrant(maxSz)
           \/ GrantLoadRead \/ GrantOk \/ GrantRefused \/ CommitStoreWrite
  BY <1>5 DEF FrameGrant, GrantBegin, GrantLoadRead, GrantOk, GrantRefused, CommitStoreWrite,
              StagedInv
<1>6. CASE FrameConsumer \/ UNCHANGED vars
  <2>1. UNCHANGED <<buf, producerVars>>
    BY <1>6 DEF FrameConsumer, ReadBegin, ReadLoadLast, FrameReadOk, ReadEmpty, FrameRelease,
                FrameReadDrop, ReleaseGrant, vars
  <2> QED BY <1>1, <2>1 DEF producerVars, StagedInv
<1> QED BY <1>2, <1>3, <1>4, <1>5, <1>6 DEF FramedNext, FrameProducer

\* Bytes behind the first two do not change the length of the first frame.
LEMMA FirstTwoStay ==
  ASSUME NEW q \in Bytes, NEW t \in Bytes, Len(q) >= 2
  PROVE  (q \o t)[1] = q[1] /\ (q \o t)[2] = q[2]
<1>1. Len(q) \in Nat /\ Len(t) \in Nat
  BY LenProperties DEF Bytes
<1>2. \A i \in 1 .. Len(q) + Len(t) : (q \o t)[i] = IF i <= Len(q) THEN q[i] ELSE t[i - Len(q)]
  BY ConcatProperties DEF Bytes
<1>3. 1 \in 1 .. Len(q) + Len(t) /\ 2 \in 1 .. Len(q) + Len(t) /\ 1 <= Len(q) /\ 2 <= Len(q)
  BY <1>1
<1> QED BY <1>2, <1>3

\* While the reader holds a frame there are at least two bytes.
LEMMA HeldIsThere ==
  ASSUME FInv, rpc = "granted"
  PROVE  UsedLen # 0 /\ Len(Queue) >= 2 /\ Queue \in Bytes
<1>1. IndInv
  BY DEF FInv
<1>2. UsedLen # 0
  <2>1. rlen1 + rlen2 \in 1 .. UsedLen
    BY <1>1, ViewFacts DEF ViewIs
  <2> QED BY <2>1
<1>3. PICK S \in SUBSET (1 .. Len(Queue) + 1) : FramedBy(S)
  BY DEF FInv, Framing
<1> QED BY <1>1, <1>2, <1>3, FirstFrame, FTypesHold DEF FramedBy, FTypes

\* The reader's slice stays the first frame.
LEMMA HeldKept ==
  ASSUME FInv, IndInv', [FramedNext]_vars
  PROVE  FrontInv' /\ rlen2' = 0
<1>0. IndInv /\ FrontInv /\ rlen2 = 0
  BY DEF FInv
<1>1. CASE FrameReadOk
  <2>1. rpc = "resolve" /\ Found # 0 /\ rlen1' = HDR_LEN + HeaderLen /\ rlen2' = rlen2
    <3>1. Found \in Nat /\ Found >= 2
      BY <1>0, <1>1, FoundBytes, FTypesHold DEF FrameReadOk, FTypes, HDR_LEN
    <3>2. Found # 0
      BY <3>1
    <3> QED BY <1>1, <3>2 DEF FrameReadOk
  <2>2. HeaderLen = FrameLen(Queue[1], Queue[2])
    BY <2>1, FoundIsWhole
  <2>3. Queue' = Queue
    BY <1>0, <1>1, ResolvingKeepsQueue DEF FrameReadOk
  <2> QED BY <1>0, <2>1, <2>2, <2>3 DEF FrontInv
<1>2. CASE CommitStoreWrite
  <2>1. UNCHANGED <<rpc, rlen1, rlen2>>
    BY <1>2 DEF CommitStoreWrite, consumerVars
  <2>2. ASSUME rpc = "granted" PROVE Queue'[1] = Queue[1] /\ Queue'[2] = Queue[2]
    <3>1. Len(Queue) >= 2 /\ Queue \in Bytes
      BY <2>2, HeldIsThere
    <3>2. CASE reserve - gstart = 0
      BY <1>2, <3>2, CommitGrows
    <3>3. CASE reserve - gstart # 0
      <4>1. Queue' = Queue \o Committed /\ Committed \in Bytes
        BY <1>2, <3>3, CommitGrows
      <4> QED BY <3>1, <4>1, FirstTwoStay
    <3> QED BY <3>2, <3>3
  <2> QED BY <1>0, <2>1, <2>2 DEF FrontInv
<1>3. CASE FrameRelease \/ FrameReadDrop
  BY <1>3 DEF FrameRelease, FrameReadDrop, ReleaseGrant, FrontInv
<1>4. CASE ReadBegin(FALSE) \/ ReadLoadLast \/ ReadEmpty
  BY <1>0, <1>4 DEF ReadBegin, ReadLoadLast, ReadEmpty, FrontInv
<1>5. CASE (FrameProducer /\ ~CommitStoreWrite) \/ UNCHANGED vars
  <2>1. UNCHANGED <<rpc, rlen1, rlen2>>
    BY <1>5 DEF FrameProducer, FrameGrant, GrantBegin, GrantLoadRead, GrantOk, GrantRefused,
                FrameCommit, FrameGrantDrop, CommitBegin, CommitStoreLast, vars, consumerVars
  <2>2. Queue' = Queue
    <3>1. KeepsQueue
      BY <1>5 DEF FrameProducer, KeepsQueue, Quiet
    <3> QED BY <3>1, QueueKept
  <2> QED BY <1>0, <2>1, <2>2 DEF FrontInv
<1> QED
  BY <1>1, <1>2, <1>3, <1>4, <1>5 DEF FramedNext, FrameConsumer

\* Cuts of the old queue that are cuts of the new one keep the queue framed, when the
\* places where a read may stop are among them, or new at its end.
LEMMA FramedStays ==
  ASSUME NEW S, NEW U, S \subseteq U, Cuts(Queue, S), Cuts(Queue', U), FramedBy(S),
         Inverted(write', read') =>
           \/ Inverted(write, read) /\ last' - read' = last - read
           \/ last' - read' + 1 = Len(Queue) + 1,
         Reading' => (Reading /\ SeenPos' = SeenPos) \/ SeenPos' = Len(Queue) + 1
  PROVE  Framing'
<1>1. Len(Queue) + 1 \in S
  BY DEF Cuts
<1>2. Inverted(write', read') => last' - read' + 1 \in U
  BY <1>1 DEF FramedBy
<1>3. Reading' => SeenPos' \in U
  BY <1>1 DEF FramedBy
<1>4. FramedBy(U)'
  BY <1>2, <1>3 DEF FramedBy
<1>5. U \subseteq 1 .. Len(Queue') + 1
  BY DEF Cuts
<1> QED BY <1>4, <1>5 DEF Framing

\* The frames stay frames while no byte is committed or released.
LEMMA FramingKeptQuietly ==
  ASSUME FInv, IndInv', KeepsQueue
  PROVE  Framing'
<1>0. IndInv
  BY DEF FInv
<1>1. PICK S \in SUBSET (1 .. Len(Queue) + 1) : FramedBy(S)
  BY DEF FInv, Framing
<1>2. Queue' = Queue
  BY QueueKept
<1>3. /\ write \in Nat /\ read \in Nat /\ last \in Nat /\ seenWrite \in Nat
      /\ Len(Queue) = UsedLen /\ UsedLen \in Nat
  <2>1. Len(Queue) = UsedLen /\ UsedLen \in Nat
    BY <1>0, FTypesHold DEF FTypes
  <2> QED BY <1>0, <2>1, NAssumption DEF IndInv, TypeOK, Index
<1>4. write' = write
  <2>1. CASE Quiet
    BY <1>0, <2>1, QuietFacts
  <2> QED
    BY <2>1 DEF KeepsQueue, FrameCommit, CommitStoreLast, FrameReadOk, ReadEmpty
<1>5. Inverted(write', read') => Inverted(write, read) /\ last' = last /\ read' = read
  <2>1. CASE Quiet
    BY <1>0, <2>1, QuietFacts
  <2>2. CASE CommitStoreLast
    BY <1>0, <2>2, CommitStoreLastKeepsQueue DEF CommitStoreLast
  <2>3. CASE FrameReadOk \/ ReadEmpty
    <3>1. rpc = "resolve" /\ read' = Resolved /\ last' = last
      BY <2>3 DEF FrameReadOk, ReadEmpty
    <3>2. read' = read \/ read' = 0
      BY <1>0, <3>1, ResolveBounds
    <3> QED BY <1>3, <1>4, <3>1, <3>2, SMT DEF Inverted
  <2> QED BY <2>1, <2>2, <2>3 DEF KeepsQueue, FrameCommit
<1>6. ASSUME Reading' PROVE (Reading /\ SeenPos' = SeenPos) \/ SeenPos' = Len(Queue) + 1
  <2>1. CASE ReadBegin(FALSE)
    <3>1. seenWrite' = write /\ UNCHANGED <<read, last>>
      BY <2>1 DEF ReadBegin
    <3> QED BY <1>3, <3>1, SMT DEF SeenPos, UsedLen, Inverted
  <2>2. CASE ReadLoadLast
    BY <2>2 DEF ReadLoadLast, Reading, SeenPos
  <2>3. CASE FrameReadOk \/ ReadEmpty \/ FrameReadDrop
    BY <1>6, <2>3 DEF FrameReadOk, ReadEmpty, FrameReadDrop, ReleaseGrant, Reading
  <2>4. CASE CommitStoreLast
    <3>1. UNCHANGED <<rpc, read, seenWrite>> /\ (Inverted(write, read) => last' = last)
      BY <1>0, <2>4, CommitStoreLastKeepsQueue DEF CommitStoreLast, consumerVars
    <3>2. Reading
      BY <1>6, <3>1 DEF Reading
    <3>3. seenWrite < read => Inverted(write, read)
      BY <1>0, <3>2 DEF IndInv, ConsumerInv, SeenWriteInv, Reading
    <3> QED BY <3>1, <3>2, <3>3 DEF SeenPos
  <2>5. CASE \/ \E maxSz \in Asked : FrameGrant(maxSz)
             \/ GrantLoadRead \/ GrantOk \/ GrantRefused \/ FrameGrantDrop
             \/ \E used \in Index, payload \in Frame : FrameCommit(used, payload)
             \/ UNCHANGED vars
    <3>1. UNCHANGED <<rpc, read, last, seenWrite>>
      BY <2>5 DEF FrameGrant, GrantBegin, GrantLoadRead, GrantOk, GrantRefused, FrameGrantDrop,
                  CommitBegin, FrameCommit, vars, consumerVars
    <3> QED BY <1>6, <3>1 DEF Reading, SeenPos
  <2> QED BY <2>1, <2>2, <2>3, <2>4, <2>5 DEF KeepsQueue, Quiet
<1> QED BY <1>1, <1>2, <1>5, <1>6, FramedStays DEF FramedBy

\* A commit adds a frame, and marks the end of the frames when it wraps.
LEMMA FramingKeptByCommit ==
  ASSUME FInv, IndInv', CommitStoreWrite
  PROVE  Framing'
<1>0. IndInv /\ wpc = "storeWrite"
  BY DEF FInv, CommitStoreWrite
<1>1. PICK S \in SUBSET (1 .. Len(Queue) + 1) : FramedBy(S)
  BY DEF FInv, Framing
<1>2. Cuts(Queue, S) /\ Queue \in Bytes /\ Len(Queue) = UsedLen
  BY <1>0, <1>1, FTypesHold DEF FramedBy, FTypes
<1>3. \E U : S \subseteq U /\ Cuts(Queue', U)
  <2>1. CASE reserve - gstart = 0
    BY <1>2, <2>1, CommitGrows
  <2>2. CASE reserve - gstart # 0
    <3>1. /\ Queue' = Queue \o Committed /\ Committed \in Bytes
          /\ Len(Committed) >= HDR_LEN /\ NextFrame(Committed, 1) = Len(Committed) + 1
      BY <2>2, CommitGrows
    <3>2. Cuts(Queue', S \cup {Len(Queue) + Len(Committed) + 1})
      BY <1>2, <3>1, CutsAppend
    <3> QED BY <3>2
  <2> QED BY <2>1, <2>2
<1>4. UNCHANGED <<read, last, rpc, seenWrite>> /\ write' = reserve
  BY DEF CommitStoreWrite, consumerVars
<1>5. Inverted(write', read') =>
        \/ Inverted(write, read) /\ last' - read' = last - read
        \/ last' - read' + 1 = UsedLen + 1
  BY <1>0, <1>4, NAssumption, SMT
     DEF IndInv, TypeOK, ProducerInv, Straight, Wrapped, UsedLen, Inverted, Index
<1>6. Reading' => Reading /\ SeenPos' = SeenPos
  BY <1>4 DEF Reading, SeenPos
<1> HIDE DEF Cuts, FramedBy
<1> QED BY <1>1, <1>2, <1>3, <1>5, <1>6, FramedStays

\* A release takes the first frame, and leaves the others.
LEMMA FramingKeptByRelease ==
  ASSUME FInv, IndInv', FrameRelease
  PROVE  Framing'
<1> DEFINE k == rlen1
           m == Len(Queue)
<1>0. IndInv /\ rpc = "granted" /\ rlen2 = 0
  BY DEF FInv, FrameRelease, ReleaseGrant
<1>1. PICK S \in SUBSET (1 .. m + 1) : FramedBy(S)
  BY DEF FInv, Framing
<1>2. Cuts(Queue, S) /\ Queue \in Bytes /\ m = UsedLen /\ m \in Nat
  BY <1>0, <1>1, FTypesHold DEF FramedBy, FTypes
<1>3. Queue' = Suffix(Queue, k) /\ k \in Nat /\ k + 1 \in S
  <2>1. Queue' = Suffix(Queue, k) /\ k = HDR_LEN + FrameLen(Queue[1], Queue[2]) /\ UsedLen # 0
        /\ k \in Nat
    BY ReleaseTakes
  <2>2. FrameLen(Queue[1], Queue[2]) + 3 \in S /\ FrameLen(Queue[1], Queue[2]) \in Nat
    BY <1>0, <1>2, <2>1, FirstFrame
  <2>3. k + 1 = FrameLen(Queue[1], Queue[2]) + 3
    BY <2>1, <2>2 DEF HDR_LEN
  <2> QED BY <2>1, <2>2, <2>3
<1> DEFINE left == {i \in 1 .. m - k + 1 : i + k \in S}
<1>4. Cuts(Queue', left)
  BY <1>2, <1>3, CutsSuffix
<1>5. ~Reading'
  BY DEF FrameRelease, ReleaseGrant, Reading
<1>6. Inverted(write', read') => last' - read' + 1 \in left
  <2>1. read' = read + k /\ UNCHANGED <<write, last>>
    <3>1. read' = ReadAfterRelease(read, rlen1, Smaller(rlen1 + rlen2, rlen1))
          /\ UNCHANGED <<write, last>>
      BY DEF FrameRelease, ReleaseGrant
    <3>2. Smaller(rlen1 + rlen2, rlen1) = rlen1 /\ rlen1 <= rlen1
      BY <1>0, <1>3 DEF Smaller
    <3> QED BY <3>1, <3>2 DEF ReadAfterRelease
  <2>2. ASSUME Inverted(write', read')
        PROVE  /\ Inverted(write, read) /\ read + k <= last
               /\ last - read \in 0 .. m
               /\ read \in Nat /\ last \in Nat
    <3>1. HeldInv /\ read \in Nat /\ last \in Nat /\ write \in Nat
      BY <1>0, NAssumption DEF IndInv, TypeOK, ConsumerInv, Index
    <3>2. Inverted(write, read) /\ read + k <= last
      BY <2>1, <2>2, <3>1, <1>3, SMT DEF HeldInv, Inverted
    <3>3. UsedLen = (last - read) + write
      BY <3>2 DEF UsedLen
    <3> QED BY <1>2, <1>3, <3>1, <3>2, <3>3, SMT
  <2>3. ASSUME Inverted(write', read') PROVE last' - read' + 1 \in left
    <3>1. last - read + 1 \in S
      BY <1>1, <2>2, <2>3 DEF FramedBy
    <3>2. last' - read' + 1 \in 1 .. m - k + 1 /\ last' - read' + 1 + k = last - read + 1
      <4> HIDE DEF k, m
      <4> QED BY <2>1, <2>2, <2>3, <1>2, <1>3
    <3> QED BY <3>1, <3>2
  <2> QED BY <2>3
<1>7. PICK U : Cuts(Queue', U) /\ (Inverted(write', read') => last' - read' + 1 \in U)
  <2> HIDE DEF left
  <2> QED BY <1>4, <1>6
<1>8. FramedBy(U)'
  BY <1>5, <1>7 DEF FramedBy
<1>9. U \subseteq 1 .. Len(Queue') + 1
  BY <1>7 DEF Cuts
<1> QED BY <1>8, <1>9 DEF Framing

-----------------------------------------------------------------------------
\* FInv holds in every reachable state, for every N, Radix and Asked.
LEMMA FInvInit == Init => FInv
<1> SUFFICES ASSUME Init PROVE FInv
  OBVIOUS
<1>1. IndInv
  BY InitEstablishes
<1>2. UsedLen = 0 /\ rlen2 = 0 /\ ~Inverted(write, read)
  BY SMT DEF Init, UsedLen, Inverted
<1>3. AskInv /\ StagedInv /\ FrontInv /\ ~Reading
  BY DEF Init, AskInv, StagedInv, FrontInv, Holding, Reading
<1>4. Cuts(Queue, {1}) /\ Len(Queue) = 0
  BY <1>1, <1>2, FTypesHold, CutsNone DEF FTypes
<1>5. Framing
  <2>1. FramedBy({1})
    BY <1>2, <1>3, <1>4 DEF FramedBy
  <2>2. {1} \subseteq 1 .. Len(Queue) + 1
    BY <1>4
  <2> QED BY <2>1, <2>2 DEF Framing
<1> QED BY <1>1, <1>2, <1>3, <1>5 DEF FInv

LEMMA FInvKept == FInv /\ [FramedNext]_vars => FInv'
<1> SUFFICES ASSUME FInv, [FramedNext]_vars PROVE FInv'
  OBVIOUS
<1>1. IndInv'
  BY FramedKeepsIndInv
<1>2. AskInv' /\ StagedInv' /\ FrontInv' /\ rlen2' = 0
  BY <1>1, AskKept, StagedKept, HeldKept
<1>3. Framing'
  BY <1>1, StepsOfTheQueue, FramingKeptQuietly, FramingKeptByCommit, FramingKeptByRelease
<1> QED BY <1>1, <1>2, <1>3 DEF FInv

\* The inductive invariant of the framed ring.
THEOREM FramedInvariant == FramedSpec => []FInv
BY FInvInit, FInvKept, PTL DEF FramedSpec

\* A read never finds part of a frame: a header and the whole frame behind it, or nothing.
THEOREM NoTornFrames == FramedSpec => []FramesAreWhole
<1>1. FInv => FramesAreWhole
  <2> SUFFICES ASSUME FInv, rpc = "resolve", Found # 0
               PROVE  Found >= HDR_LEN /\ Found >= HDR_LEN + HeaderLen
    BY DEF FramesAreWhole
  <2>1. HeaderLen \in Nat /\ Found \in Nat /\ Found >= HDR_LEN + HeaderLen
    BY FoundIsWhole
  <2> HIDE DEF HeaderLen, Found
  <2> QED BY <2>1 DEF HDR_LEN
<1> QED BY <1>1, FramedInvariant, PTL

-----------------------------------------------------------------------------
(***************************************************************************)
(* The refinement: committed bytes are frames, a commit of a frame appends  *)
(* it, and the reader holds the first one.                                  *)
(***************************************************************************)

FrameStep == [Abstract!FrameNext]_(Abstract!frameVars)

\* The parts of a sequence that starts with x.
LEMMA HeadAndTail ==
  ASSUME NEW T, NEW x \in T, NEW s \in Seq(T)
  PROVE  /\ <<x>> \o s # <<>>
         /\ Head(<<x>> \o s) = x /\ Tail(<<x>> \o s) = s
<1> DEFINE t == <<x>> \o s
<1>1. <<x>> \in Seq(T) /\ Len(<<x>>) = 1 /\ <<x>>[1] = x /\ Len(s) \in Nat
  BY LenProperties
<1>2. /\ t \in Seq(T) /\ Len(t) = 1 + Len(s)
      /\ \A i \in 1 .. 1 + Len(s) : t[i] = IF i <= 1 THEN <<x>>[i] ELSE s[i - 1]
  BY <1>1, ConcatProperties
<1> HIDE DEF t
<1>3. t # <<>>
  BY <1>1, <1>2, EmptySeq
<1>4. Head(t) = x
  <2>1. 1 \in 1 .. 1 + Len(s) /\ 1 <= 1
    BY <1>1
  <2>2. t[1] = x
    BY <1>1, <1>2, <2>1
  <2> QED BY <1>1, <1>2, <2>1, <2>2, SMT
<1>5. Tail(t) = s
  <2>1. /\ Tail(t) \in Seq(T) /\ Len(Tail(t)) = Len(s)
        /\ \A i \in 1 .. Len(Tail(t)) : Tail(t)[i] = t[i + 1]
    BY <1>1, <1>2, <1>3, HeadTailProperties
  <2>2. ASSUME NEW i \in 1 .. Len(s) PROVE Tail(t)[i] = s[i]
    <3>1. i + 1 \in 1 .. 1 + Len(s) /\ ~(i + 1 <= 1) /\ i + 1 - 1 = i
      BY <1>1
    <3>2. t[i + 1] = s[i + 1 - 1]
      BY <1>2, <3>1
    <3> QED BY <2>1, <3>1, <3>2
  <2> QED BY <2>1, <2>2, SeqEqual
<1> QED BY <1>3, <1>4, <1>5 DEF t

\* The first frame of a queue that holds some.
LEMMA FirstOfTheFrames ==
  ASSUME FInv, UsedLen # 0
  PROVE  /\ FramesIn(Queue) # <<>>
         /\ Head(FramesIn(Queue)) = Payload(Queue, 1)
         /\ Tail(FramesIn(Queue)) = FramesFrom(Queue, FrameLen(Queue[1], Queue[2]) + 3)
<1>1. IndInv
  BY DEF FInv
<1>2. PICK S \in SUBSET (1 .. Len(Queue) + 1) : FramedBy(S)
  BY DEF FInv, Framing
<1> DEFINE n == FrameLen(Queue[1], Queue[2])
<1>3. /\ IsWhole(Queue, 1) /\ NextFrame(Queue, 1) = n + 3 /\ n + 3 \in S
      /\ Queue \in Bytes /\ Len(Queue) \in Nat /\ Len(Queue) >= 2
  BY <1>1, <1>2, FirstFrame, FTypesHold DEF FramedBy, FTypes
<1> HIDE DEF n
<1>4. n + 3 \in 1 .. Len(Queue) + 1
  BY <1>3
<1>5. FramesFrom(Queue, 1) = <<Payload(Queue, 1)>> \o FramesFrom(Queue, n + 3)
  <2>1. 1 \in 1 .. Len(Queue) + 1 /\ 1 <= Len(Queue)
    BY <1>3
  <2> QED BY <1>3, <2>1, FramesUnfold
<1>6. Payload(Queue, 1) \in Texts /\ FramesFrom(Queue, n + 3) \in Seq(Texts)
  BY <1>3, <1>4, PayloadType, FramesType
<1> QED BY <1>5, <1>6, HeadAndTail DEF FramesIn, n

\* What the reader holds is the first frame.
LEMMA HeldIsFirst ==
  FInv /\ rpc = "granted" => HeldFrame = <<Payload(Queue, 1)>>
<1> SUFFICES ASSUME FInv, rpc = "granted" PROVE HeldFrame = <<Payload(Queue, 1)>>
  OBVIOUS
<1> DEFINE n == FrameLen(Queue[1], Queue[2])
<1>1. IndInv /\ rlen2 = 0 /\ rlen1 = 2 + n
  BY DEF FInv, FrontInv, HDR_LEN
<1>2. n \in Nat /\ UsedLen \in Nat /\ rlen1 \in 1 .. UsedLen
  <2>1. PICK S \in SUBSET (1 .. Len(Queue) + 1) : FramedBy(S)
    BY DEF FInv, Framing
  <2>2. n \in Nat
    BY <1>1, <2>1, HeldIsThere, FirstFrame DEF FramedBy
  <2>3. rlen1 + rlen2 \in 1 .. UsedLen /\ UsedLen \in Nat
    BY <1>1, ViewFacts, FTypesHold DEF ViewIs, FTypes
  <2> HIDE DEF n
  <2> QED BY <1>1, <2>2, <2>3
<1> HIDE DEF n
<1>3. ASSUME NEW i \in 1 .. rlen1 PROVE Queue[i] = buf[read + i - 1]
  <2>1. i \in 1 .. UsedLen
    BY <1>2
  <2>2. Place(i) = read + i - 1
    BY <1>1, NAssumption, SMT DEF Place, IndInv, TypeOK, ConsumerInv, HeldInv, Inverted, Index
  <2> QED BY <1>1, <2>1, <2>2, QueueFacts DEF QueueIs
<1>4. HeldFrame = <<[j \in 1 .. n |-> buf[read + 1 + j]]>>
  <2>1. rlen1 - HDR_LEN = n
    BY <1>1, <1>2 DEF HDR_LEN
  <2> QED BY <2>1 DEF HeldFrame
<1>5. Payload(Queue, 1) = [j \in 1 .. n |-> Queue[1 + 1 + j]]
  BY DEF Payload, n
<1>6. ASSUME NEW j \in 1 .. n PROVE Queue[1 + 1 + j] = buf[read + 1 + j]
  <2> DEFINE i == 1 + 1 + j
  <2>1. i \in 1 .. rlen1 /\ read + i - 1 = read + 1 + j
    BY <1>1, <1>2, NAssumption DEF IndInv, TypeOK, Index
  <2> HIDE DEF i
  <2>2. Queue[i] = buf[read + i - 1]
    BY <1>3, <2>1
  <2> QED BY <2>1, <2>2 DEF i
<1> QED BY <1>4, <1>5, <1>6

\* It stays while the queue and the reader do.
LEMMA HeldStays ==
  ASSUME FInv, FInv', UNCHANGED rpc, Queue' = Queue
  PROVE  HeldFrame' = HeldFrame
<1>1. CASE rpc = "granted"
  <2>1. HeldFrame = <<Payload(Queue, 1)>>
    BY <1>1, HeldIsFirst
  <2>2. (rpc = "granted")'
    BY <1>1
  <2>3. (HeldFrame = <<Payload(Queue, 1)>>)'
    BY <2>2, HeldIsFirst, PTL
  <2> QED BY <2>1, <2>3
<1>2. CASE rpc # "granted"
  BY <1>2 DEF HeldFrame
<1> QED BY <1>1, <1>2

-----------------------------------------------------------------------------
(* The steps.                                                              *)

\* What is staged for a commit, by the payload.
LEMMA StagedIsPayload ==
  /\ wpc \in {"storeLast", "storeWrite"} /\ reserve > gstart => StagedFrame = <<StagedPayload>>
  /\ ~(wpc \in {"storeLast", "storeWrite"} /\ reserve > gstart) => StagedFrame = <<>>
BY DEF StagedFrame, StagedPayload

\* A commit begins with the frame the user wrote.
LEMMA FrameCommitStages ==
  ASSUME FInv, FInv', NEW used \in Index, NEW payload \in Frame, FrameCommit(used, payload)
  PROVE  FrameStep
<1> DEFINE n == Len(payload)
<1>1. Queue' = Queue
  BY QueueKept DEF KeepsQueue, FInv
<1>2. HeldFrame' = HeldFrame
  BY <1>1, HeldStays DEF FrameCommit, consumerVars
<1>3. StagedFrame' = <<payload>>
  <2>1. /\ reserve' = gstart + n + 2 /\ gstart' = gstart /\ wpc' = "storeLast"
        /\ gstart \in Nat /\ n \in Nat
        /\ payload \in [1 .. n -> Byte]
        /\ \A j \in 1 .. n : buf'[gstart + 1 + j] = payload[j]
    BY FrameCommitWrites, FrameIsBytes, CommittedLength DEF FrameCommit
  <2> HIDE DEF n
  <2>2. reserve' > gstart' /\ reserve' - gstart' - HDR_LEN = n
    BY <2>1 DEF HDR_LEN
  <2>3. StagedFrame' = <<[j \in 1 .. n |-> buf'[gstart + 1 + j]]>>
    BY <2>1, <2>2 DEF StagedFrame
  <2> QED BY <2>1, <2>3
<1> QED BY <1>1, <1>2, <1>3 DEF FrameStep, Abstract!FrameNext, Abstract!Stage

\* The store of `write` puts it behind the others.
LEMMA FrameCommitPuts ==
  ASSUME FInv, FInv', CommitStoreWrite
  PROVE  FrameStep
<1>1. wpc = "storeWrite" /\ wpc' = "idle" /\ UNCHANGED <<buf, read, rpc, rlen1>>
  BY DEF CommitStoreWrite, consumerVars
<1>2. HeldFrame' = HeldFrame
  BY <1>1 DEF HeldFrame
<1>3. StagedFrame' = <<>>
  BY <1>1 DEF StagedFrame
<1>4. IndInv' /\ IndInv /\ gstart \in Nat /\ reserve \in Nat /\ reserve - gstart \in Nat
  <2>1. IndInv /\ IndInv'
    BY DEF FInv
  <2>2. reserve \in Nat
    BY <2>1, NAssumption DEF IndInv, TypeOK, Index
  <2> QED BY <2>1, <2>2, CommitGrows
<1>5. CASE reserve - gstart = 0
  <2>1. Queue' = Queue
    BY <1>4, <1>5, CommitGrows
  <2>2. StagedFrame = <<>>
    <3>1. ~(reserve > gstart)
      BY <1>4, <1>5
    <3> QED BY <3>1, StagedIsPayload
  <2> QED BY <1>2, <1>3, <2>1, <2>2 DEF FrameStep, Abstract!frameVars
<1>6. CASE reserve - gstart # 0
  <2>1. /\ Queue' = Queue \o Committed /\ Committed \in Bytes
        /\ Len(Committed) >= HDR_LEN /\ NextFrame(Committed, 1) = Len(Committed) + 1
        /\ Payload(Committed, 1) = StagedPayload
    BY <1>4, <1>6, CommitGrows
  <2>2. StagedFrame = <<StagedPayload>>
    <3>1. reserve > gstart
      BY <1>4, <1>6
    <3> QED BY <1>1, <3>1, StagedIsPayload
  <2>3. PICK S \in SUBSET (1 .. Len(Queue) + 1) : FramedBy(S)
    BY DEF FInv, Framing
  <2>4. Queue \in Bytes
    BY <1>4, FTypesHold DEF FTypes
  <2>5. FramesFrom(Queue \o Committed, 1) = FramesFrom(Queue, 1) \o <<Payload(Committed, 1)>>
    BY <2>1, <2>3, <2>4, FramesAppend DEF FramedBy
  <2>6. FramesIn(Queue)' = FramesIn(Queue) \o StagedFrame
    BY <2>1, <2>2, <2>5 DEF FramesIn
  <2>7. StagedFrame # <<>>
    BY <2>2
  <2> QED BY <1>2, <1>3, <2>6, <2>7 DEF FrameStep, Abstract!FrameNext, Abstract!Put
<1> QED BY <1>5, <1>6

\* A read looks at the first frame.
LEMMA FrameReadLooks ==
  ASSUME FInv, FInv', FrameReadOk
  PROVE  FrameStep
<1>0. IndInv /\ IndInv'
  BY DEF FInv
<1>1. rpc = "resolve" /\ rpc' = "granted" /\ UNCHANGED producerVars /\ buf' = buf
  BY DEF FrameReadOk
<1>2. Queue' = Queue
  BY <1>0, QueueKept DEF KeepsQueue
<1>3. UsedLen # 0
  <2>1. Found \in Nat /\ Found >= 2
    BY <1>0, <1>1, FoundBytes, FTypesHold DEF FrameReadOk, FTypes, HDR_LEN
  <2>2. Found # 0
    BY <2>1
  <2> QED BY <1>1, <2>2, FoundIsWhole
<1>4. (HeldFrame = <<Payload(Queue, 1)>>)'
  <2>1. (rpc = "granted")'
    BY <1>1
  <2> QED BY <2>1, HeldIsFirst, PTL
<1>5. HeldFrame' = <<Head(FramesIn(Queue))>> /\ FramesIn(Queue) # <<>>
  BY <1>2, <1>3, <1>4, FirstOfTheFrames
<1>6. HeldFrame = <<>>
  BY <1>1 DEF HeldFrame
<1>7. StagedFrame' = StagedFrame
  BY <1>1 DEF StagedFrame, producerVars
<1>8. FramesIn(Queue)' = FramesIn(Queue)
  BY <1>2
<1> QED BY <1>5, <1>6, <1>7, <1>8 DEF FrameStep, Abstract!FrameNext, Abstract!Look

\* A release takes it.
LEMMA FrameReleaseReleases ==
  ASSUME FInv, FInv', FrameRelease
  PROVE  FrameStep
<1>0. IndInv /\ IndInv'
  BY DEF FInv
<1>1. rpc = "granted" /\ rpc' = "idle" /\ UNCHANGED <<buf, producerVars>>
  BY DEF FrameRelease, ReleaseGrant
<1> DEFINE n == FrameLen(Queue[1], Queue[2])
<1>2. Queue' = Suffix(Queue, rlen1) /\ rlen1 = 2 + n /\ UsedLen # 0 /\ rlen1 \in Nat
  BY <1>0, ReleaseTakes DEF HDR_LEN
<1>3. Tail(FramesIn(Queue)) = FramesFrom(Queue, n + 3)
  BY <1>2, FirstOfTheFrames
<1>4. PICK S \in SUBSET (1 .. Len(Queue) + 1) : FramedBy(S)
  BY DEF FInv, Framing
<1>5. Cuts(Queue, S) /\ Queue \in Bytes /\ n \in Nat /\ n + 3 \in S
  BY <1>0, <1>2, <1>4, FirstFrame, FTypesHold DEF FramedBy, FTypes
<1> HIDE DEF n
<1>6. rlen1 + 1 = n + 3
  BY <1>2, <1>5
<1>7. FramesFrom(Suffix(Queue, rlen1), 1) = FramesFrom(Queue, rlen1 + 1)
  BY <1>2, <1>5, <1>6, FramesSuffix
<1>8. FramesIn(Queue)' = Tail(FramesIn(Queue))
  BY <1>2, <1>3, <1>6, <1>7 DEF FramesIn
<1>9. HeldFrame # <<>> /\ HeldFrame' = <<>>
  BY <1>1 DEF HeldFrame
<1>10. StagedFrame' = StagedFrame
  BY <1>1 DEF StagedFrame, producerVars
<1> QED BY <1>8, <1>9, <1>10 DEF FrameStep, Abstract!FrameNext, Abstract!Release

\* A grant that is dropped gives the frame back, and every other step shows nothing.
LEMMA OtherStepsAreQuiet ==
  ASSUME FInv, FInv', Quiet \/ CommitStoreLast \/ ReadEmpty
  PROVE  FrameStep
<1>0. IndInv /\ IndInv'
  BY DEF FInv
<1>1. Queue' = Queue
  BY <1>0, QueueKept DEF KeepsQueue
<1>2. FramesIn(Queue)' = FramesIn(Queue)
  BY <1>1
<1>3. CASE FrameReadDrop
  <2>1. rpc = "granted" /\ rpc' = "idle" /\ UNCHANGED <<buf, producerVars>>
    BY <1>3 DEF FrameReadDrop, ReleaseGrant
  <2>2. HeldFrame # <<>> /\ HeldFrame' = <<>> /\ StagedFrame' = StagedFrame
    BY <2>1 DEF HeldFrame, StagedFrame, producerVars
  <2> QED BY <1>2, <2>2 DEF FrameStep, Abstract!FrameNext, Abstract!GiveBack
<1>4. CASE ReadBegin(FALSE) \/ ReadLoadLast \/ ReadEmpty \/ UNCHANGED vars
  <2>1. UNCHANGED <<buf, producerVars>> /\ (rpc' = rpc \/ (rpc # "granted" /\ rpc' # "granted"))
    BY <1>4 DEF ReadBegin, ReadLoadLast, ReadEmpty, vars, consumerVars
  <2>2. StagedFrame' = StagedFrame
    BY <2>1 DEF StagedFrame, producerVars
  <2>3. HeldFrame' = HeldFrame
    <3>1. CASE rpc' = rpc
      BY <1>1, <3>1, HeldStays
    <3>2. CASE rpc # "granted" /\ rpc' # "granted"
      BY <3>2 DEF HeldFrame
    <3> QED BY <2>1, <3>1, <3>2
  <2> QED BY <1>2, <2>2, <2>3 DEF FrameStep, Abstract!frameVars
<1>5. CASE \/ \E maxSz \in Asked : FrameGrant(maxSz)
           \/ GrantLoadRead \/ GrantOk \/ GrantRefused \/ FrameGrantDrop \/ CommitStoreLast
  <2>1. rpc' = rpc
    BY <1>5 DEF FrameGrant, GrantBegin, GrantLoadRead, GrantOk, GrantRefused, FrameGrantDrop,
                CommitBegin, CommitStoreLast, consumerVars
  <2>2. HeldFrame' = HeldFrame
    BY <1>1, <2>1, HeldStays
  <2>3. StagedFrame' = StagedFrame
    <3>1. CASE CommitStoreLast
      BY <3>1 DEF CommitStoreLast, StagedFrame
    <3>2. CASE FrameGrantDrop
      <4>1. wpc = "granted" /\ gstart' = gstart /\ reserve' = reserve - (glen - Smaller(glen, 0))
        BY <3>2 DEF FrameGrantDrop, CommitBegin
      <4>2. gstart \in Nat /\ glen \in Nat /\ reserve = gstart + glen
        BY <4>1, NAssumption, SMT DEF FInv, IndInv, TypeOK, ProducerInv, Index
      <4>3. ~(reserve' > gstart')
        BY <4>1, <4>2, SMT DEF Smaller
      <4> QED BY <4>1, <4>3 DEF StagedFrame
    <3>3. CASE ~CommitStoreLast /\ ~FrameGrantDrop
      <4>1. /\ wpc \notin {"storeLast", "storeWrite"}
            /\ wpc' \notin {"storeLast", "storeWrite"}
        BY <1>5, <3>3 DEF FrameGrant, GrantBegin, GrantLoadRead, GrantOk, GrantRefused
      <4> QED BY <4>1 DEF StagedFrame
    <3> QED BY <3>1, <3>2, <3>3
  <2> QED BY <1>2, <2>2, <2>3 DEF FrameStep, Abstract!frameVars
<1> QED BY <1>3, <1>4, <1>5 DEF Quiet

\* Each frame that is committed is read whole, in order and once, with the length and the
\* bytes it was given.
THEOREM FramedImplementsFifo == FramedSpec => ImplementsFrames
<1>1. Init => Abstract!FrameInit
  <2> SUFFICES ASSUME Init PROVE Abstract!FrameInit
    OBVIOUS
  <2>1. IndInv /\ UsedLen = 0
    BY InitEstablishes, SMT DEF Init, UsedLen, Inverted
  <2>2. FramesIn(Queue) = <<>>
    BY <2>1, FTypesHold, CutsNone DEF FTypes, FramesIn
  <2>3. StagedFrame = <<>> /\ HeldFrame = <<>>
    BY DEF Init, StagedFrame, HeldFrame
  <2> QED BY <2>2, <2>3 DEF Abstract!FrameInit
<1>2. FInv /\ FInv' /\ [FramedNext]_vars => FrameStep
  <2> SUFFICES ASSUME FInv, FInv', [FramedNext]_vars PROVE FrameStep
    OBVIOUS
  <2>1. ASSUME NEW used \in Index, NEW payload \in Frame, FrameCommit(used, payload)
        PROVE  FrameStep
    BY <2>1, FrameCommitStages
  <2>2. CASE CommitStoreWrite \/ FrameReadOk \/ FrameRelease
    BY <2>2, FrameCommitPuts, FrameReadLooks, FrameReleaseReleases
  <2>3. CASE Quiet \/ CommitStoreLast \/ ReadEmpty
    BY <2>3, OtherStepsAreQuiet
  <2> QED BY <2>1, <2>2, <2>3, StepsOfTheQueue DEF KeepsQueue
<1> QED
  BY <1>1, <1>2, FramedInvariant, PTL
  DEF FramedSpec, ImplementsFrames, Abstract!FrameSpec, FrameStep
=============================================================================
