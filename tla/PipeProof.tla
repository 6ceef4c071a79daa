------------------------------ MODULE PipeProof ------------------------------
(***************************************************************************)
(* Pipe, for every size of the ring and of the frames: the slots hold the   *)
(* grants the ring has out, and the ring, the slots and the preempted main  *)
(* loop are the pipe of FramePipe that the ports are built on.              *)
(***************************************************************************)
EXTENDS Pipe, SequenceTheorems, WellFoundedInduction, TLAPS

-----------------------------------------------------------------------------
(* Induction.  The provers cannot instantiate a theorem over predicates; a  *)
(* least element of a set of counterexamples is within their reach.         *)

LEMMA NatOrder == \A x, y \in Nat : y < x => <<y, x>> \in OpToRel(<, Nat)
BY DEF OpToRel

\* A set of natural numbers that is not empty has a least one ...
LEMMA LeastNumber ==
  ASSUME NEW T \in SUBSET Nat, T # {}
  PROVE  \E x \in T : \A y \in T : ~(y < x)
<1>1. \E x \in T : \A y \in T : <<y, x>> \notin OpToRel(<, Nat)
  BY NatLessThanWellFounded, WFMin
<1>2. \A x, y \in T : y < x => <<y, x>> \in OpToRel(<, Nat)
  BY NatOrder
<1> QED BY <1>1, <1>2, Zenon

\* ... and a set of numbers up to b a greatest one.
LEMMA GreatestNumber ==
  ASSUME NEW b \in Nat, NEW T \in SUBSET (0 .. b), T # {}
  PROVE  \E x \in T : \A y \in T : y <= x
<1> DEFINE D == {b - x : x \in T}
<1>1. D \in SUBSET Nat /\ D # {}
  <2>1. \A x \in T : x \in 0 .. b /\ b - x \in Nat
    OBVIOUS
  <2> QED BY <2>1
<1>2. PICK d \in D : \A y \in D : ~(y < d)
  BY <1>1, LeastNumber
<1>3. PICK x \in T : d = b - x
  BY <1>2
<1>4. ASSUME NEW y \in T PROVE y <= x
  <2>1. ~(b - y < b - x)
    BY <1>2, <1>3
  <2> QED BY <2>1
<1> QED BY <1>4

-----------------------------------------------------------------------------
(* The frames in a piece of the ring.                                      *)

Headers == [0 .. N - 1 -> FrameLengths]

\* The headers of a piece lead from its start to its end.
Linked(h, a, b) ==
  \E S \in SUBSET (a .. b) : /\ a \in S /\ b \in S
                             /\ \A i \in S \ {b} : i + HDR + h[i] \in S

\* The equation of FramesBetween.
Follow(h, b, f, i) == IF i >= b THEN <<>> ELSE <<h[i]>> \o f[i + HDR + h[i]]

\* There is a function that satisfies it, ...
LEMMA FramesExist ==
  ASSUME NEW h \in Headers, NEW b \in Index
  PROVE  \E f \in [0 .. b + HDR + MaxLen -> Seq(FrameLengths)] :
           \A i \in 0 .. b + HDR + MaxLen : f[i] = Follow(h, b, f, i)
<1> DEFINE top == b + HDR + MaxLen
           Sat(m, f) == /\ f \in [m .. top -> Seq(FrameLengths)]
                        /\ \A i \in m .. top : f[i] = Follow(h, b, f, i)
           T == {m \in 0 .. top : ~ \E f : Sat(m, f)}
<1>0. top \in Nat /\ b \in Nat /\ b <= top /\ b <= N /\ HDR = 2 /\ N \in Nat
  BY NAssumption, PipeAssumption DEF Index, HDR
<1>1. ASSUME NEW i \in 0 .. top, i < b
      PROVE  /\ i \in 0 .. N - 1 /\ h[i] \in FrameLengths
             /\ i + HDR + h[i] \in i + 1 .. top
  <2>1. i \in 0 .. N - 1
    BY <1>0, <1>1
  <2>2. h[i] \in FrameLengths
    BY <2>1 DEF Headers
  <2>3. h[i] \in Nat /\ h[i] <= MaxLen
    BY <2>2, PipeAssumption DEF FrameLengths
  <2> QED BY <1>0, <1>1, <2>1, <2>2, <2>3, PipeAssumption
<1>2. ASSUME NEW m \in 0 .. top, m >= b PROVE \E f : Sat(m, f)
  <2> DEFINE f == [i \in m .. top |-> <<>>]
  <2>1. \A i \in m .. top : i >= b
    BY <1>0, <1>2
  <2>2. Sat(m, f)
    BY <2>1, EmptySeq DEF Follow
  <2> QED BY <2>2
<1>3. ASSUME NEW m \in 0 .. top, m < b, NEW g, Sat(m + 1, g) PROVE \E f : Sat(m, f)
  <2> DEFINE v == <<h[m]>> \o g[m + HDR + h[m]]
             f == [i \in m .. top |-> IF i = m THEN v ELSE g[i]]
  <2>1. v \in Seq(FrameLengths)
    BY <1>1, <1>3, ConcatProperties
  <2>2. f \in [m .. top -> Seq(FrameLengths)]
    <3>1. \A i \in m .. top : i # m => i \in m + 1 .. top
      BY <1>0, <1>3
    <3> QED BY <1>3, <2>1, <3>1
  <2>3. ASSUME NEW i \in m .. top PROVE f[i] = Follow(h, b, f, i)
    <3>1. CASE i >= b
      <4>1. i \in m + 1 .. top
        BY <1>0, <1>3, <3>1
      <4>2. g[i] = <<>>
        BY <1>3, <3>1, <4>1 DEF Follow
      <4> QED BY <1>0, <1>3, <3>1, <4>1, <4>2 DEF Follow
    <3>2. CASE i < b
      <4> DEFINE j == i + HDR + h[i]
      <4>1. i \in 0 .. top /\ j \in i + 1 .. top
        BY <1>0, <1>1, <1>3, <3>2
      <4>2. j \in m + 1 .. top /\ j \in m .. top /\ j # m
        BY <1>0, <1>3, <4>1
      <4> HIDE DEF j
      <4>3. f[j] = g[j]
        BY <4>2
      <4>4. f[i] = <<h[i]>> \o g[j]
        <5>1. CASE i = m
          BY <5>1 DEF j
        <5>2. CASE i # m
          <6>1. i \in m + 1 .. top /\ ~(i >= b)
            BY <1>0, <1>3, <3>2, <5>2
          <6>2. g[i] = <<h[i]>> \o g[j]
            BY <1>3, <6>1 DEF Follow, j
          <6> QED BY <5>2, <6>2
        <5> QED BY <5>1, <5>2
      <4>5. ~(i >= b)
        BY <1>0, <1>3, <3>2
      <4> HIDE DEF f
      <4> QED BY <4>3, <4>4, <4>5 DEF Follow, j
    <3> QED BY <1>0, <1>3, <3>1, <3>2
  <2> QED BY <2>2, <2>3
<1>4. ASSUME T # {} PROVE FALSE
  <2>1. PICK m \in T : \A y \in T : y <= m
    BY <1>0, <1>4, GreatestNumber
  <2>2. m \in 0 .. top /\ ~(\E f : Sat(m, f))
    OBVIOUS
  <2>3. m < b
    BY <1>0, <1>2, <2>2
  <2>4. m + 1 \in 0 .. top /\ ~(m + 1 <= m)
    BY <1>0, <2>2, <2>3
  <2>5. \E g : Sat(m + 1, g)
    BY <2>1, <2>4
  <2> HIDE DEF Sat
  <2> QED BY <1>3, <2>2, <2>3, <2>5
<1>5. \E f : Sat(0, f)
  <2>1. 0 \in 0 .. top
    BY <1>0
  <2> HIDE DEF Sat, top
  <2> QED BY <1>4, <2>1
<1> QED BY <1>5

\* ... so FramesBetween satisfies it.
LEMMA FramesUnfold ==
  ASSUME NEW h \in Headers, NEW b \in Index, NEW a \in 0 .. b + HDR + MaxLen
  PROVE  /\ a >= b => FramesBetween(h, a, b) = <<>>
         /\ a < b => FramesBetween(h, a, b) = <<h[a]>> \o FramesBetween(h, a + HDR + h[a], b)
<1> DEFINE Sat(f) == f = [i \in 0 .. b + HDR + MaxLen |->
                            IF i >= b THEN <<>> ELSE <<h[i]>> \o f[i + HDR + h[i]]]
           from == CHOOSE f : Sat(f)
<1>1. PICK g \in [0 .. b + HDR + MaxLen -> Seq(FrameLengths)] :
        \A i \in 0 .. b + HDR + MaxLen : g[i] = Follow(h, b, g, i)
  BY FramesExist
<1>2. Sat(g)
  BY <1>1 DEF Follow
<1>3. Sat(from)
  BY <1>2
<1>4. \A x : FramesBetween(h, x, b) = from[x]
  BY DEF FramesBetween
<1> HIDE DEF from
<1>5. a >= b => from[a] = <<>>
  BY <1>3
<1>6. a < b => from[a] = <<h[a]>> \o from[a + HDR + h[a]]
  <2>1. a < b => ~(a >= b)
    BY NAssumption DEF Index
  <2> QED BY <1>3, <2>1
<1> QED BY <1>4, <1>5, <1>6

\* The piece of the ring from one frame on.
LEMMA InThePiece ==
  ASSUME NEW h \in Headers, NEW b \in Index, NEW a \in Nat, a < b
  PROVE  /\ a \in 0 .. N - 1 /\ h[a] \in FrameLengths
         /\ a + HDR + h[a] \in a + 2 .. b + HDR + MaxLen
         /\ a + HDR + h[a] \in Nat
<1>1. a \in 0 .. N - 1
  BY NAssumption DEF Index
<1>2. h[a] \in FrameLengths
  BY <1>1 DEF Headers
<1>3. h[a] \in Nat /\ h[a] <= MaxLen
  BY <1>2, PipeAssumption DEF FrameLengths
<1> QED BY <1>1, <1>2, <1>3, NAssumption, PipeAssumption DEF Index, HDR

LEMMA FramesNone ==
  ASSUME NEW h \in Headers, NEW b \in Index
  PROVE  FramesBetween(h, b, b) = <<>>
<1>1. b \in 0 .. b + HDR + MaxLen /\ b >= b
  BY NAssumption, PipeAssumption DEF Index, HDR
<1> QED BY <1>1, FramesUnfold

LEMMA FramesType ==
  ASSUME NEW h \in Headers, NEW b \in Index, NEW a \in 0 .. b + HDR + MaxLen
  PROVE  FramesBetween(h, a, b) \in Seq(FrameLengths)
<1> DEFINE top == b + HDR + MaxLen
           T == {i \in 0 .. top : FramesBetween(h, i, b) \notin Seq(FrameLengths)}
<1>0. top \in Nat /\ b \in Nat
  BY NAssumption, PipeAssumption DEF Index, HDR
<1>1. ASSUME T # {} PROVE FALSE
  <2>1. PICK m \in T : \A y \in T : y <= m
    BY <1>0, <1>1, GreatestNumber
  <2>2. m \in 0 .. top /\ FramesBetween(h, m, b) \notin Seq(FrameLengths)
    OBVIOUS
  <2>3. m < b
    <3>1. m >= b => FramesBetween(h, m, b) = <<>>
      BY <2>2, FramesUnfold
    <3>2. <<>> \in Seq(FrameLengths)
      OBVIOUS
    <3>3. ~(m >= b)
      BY <2>2, <3>1, <3>2
    <3>4. m \in Nat
      BY <1>0, <2>2
    <3> QED BY <1>0, <3>3, <3>4
  <2> DEFINE j == m + HDR + h[m]
  <2>4. j \in 0 .. top /\ ~(j <= m) /\ h[m] \in FrameLengths
    BY <1>0, <2>2, <2>3, InThePiece
  <2>5. FramesBetween(h, j, b) \in Seq(FrameLengths)
    BY <2>1, <2>4
  <2>6. FramesBetween(h, m, b) = <<h[m]>> \o FramesBetween(h, j, b)
    BY <2>2, <2>3, FramesUnfold
  <2>7. <<h[m]>> \in Seq(FrameLengths)
    BY <2>4
  <2> HIDE DEF j
  <2> QED BY <2>2, <2>5, <2>6, <2>7, ConcatProperties
<1> QED BY <1>1

-----------------------------------------------------------------------------
(* Pieces of the ring whose headers lead from their start to their end.    *)

LEMMA LinkedEmpty == ASSUME NEW h, NEW a \in Nat PROVE Linked(h, a, a)
<1>1. {a} \in SUBSET (a .. a)
  OBVIOUS
<1> QED BY <1>1 DEF Linked

\* The first frame of a piece ends within it, and a piece is left.
LEMMA LinkedStep ==
  ASSUME NEW h \in Headers, NEW b \in Index, NEW a \in Nat, a < b, Linked(h, a, b)
  PROVE  a + HDR + h[a] <= b /\ Linked(h, a + HDR + h[a], b)
<1>1. PICK S \in SUBSET (a .. b) : /\ a \in S /\ b \in S
                                   /\ \A i \in S \ {b} : i + HDR + h[i] \in S
  BY DEF Linked
<1> DEFINE c == a + HDR + h[a]
           U == S \cap (c .. b)
<1>2. c \in S /\ c \in Nat
  BY <1>1, InThePiece
<1>3. c <= b /\ c \in U /\ b \in U /\ b \in Nat
  BY <1>1, <1>2, NAssumption DEF Index
<1>4. ASSUME NEW i \in U \ {b} PROVE i + HDR + h[i] \in U
  <2>1. i \in Nat /\ i < b /\ i >= c
    BY <1>2, <1>3
  <2>2. i + HDR + h[i] \in S /\ i + HDR + h[i] \in i + 2 .. b + HDR + MaxLen
    BY <1>1, <2>1, InThePiece
  <2> QED BY <1>1, <1>2, <1>3, <2>1, <2>2
<1> HIDE DEF c
<1>5. U \in SUBSET (c .. b)
  OBVIOUS
<1> QED BY <1>3, <1>4, <1>5 DEF Linked, c

\* Headers written outside a piece leave it as it is.
LEMMA LinkedSame ==
  ASSUME NEW h \in Headers, NEW k \in Headers, NEW b \in Index, NEW a \in Nat, Linked(h, a, b),
         \A i \in a .. b - 1 : k[i] = h[i]
  PROVE  Linked(k, a, b)
<1>1. PICK S \in SUBSET (a .. b) : /\ a \in S /\ b \in S
                                   /\ \A i \in S \ {b} : i + HDR + h[i] \in S
  BY DEF Linked
<1>2. \A i \in S \ {b} : i \in a .. b - 1
  BY NAssumption DEF Index
<1> QED BY <1>1, <1>2 DEF Linked

\* A header written at the end of a piece makes it longer by a frame.
LEMMA LinkedLonger ==
  ASSUME NEW h \in Headers, NEW b \in Index, NEW a \in 0 .. b, Linked(h, a, b), b < N,
         b + HDR + h[b] <= N
  PROVE  Linked(h, a, b + HDR + h[b])
<1>1. PICK S \in SUBSET (a .. b) : /\ a \in S /\ b \in S
                                   /\ \A i \in S \ {b} : i + HDR + h[i] \in S
  BY DEF Linked
<1> DEFINE e == b + HDR + h[b]
           U == S \cup {e}
<1>2. b \in 0 .. N - 1 /\ b \in Nat
  BY NAssumption DEF Index
<1>3. h[b] \in Nat
  BY <1>2, PipeAssumption DEF Headers, FrameLengths
<1>4. e \in Nat /\ e > b /\ e \notin S
  BY <1>1, <1>2, <1>3 DEF HDR
<1> HIDE DEF e
<1>5. U \in SUBSET (a .. e) /\ a \in U /\ e \in U
  BY <1>1, <1>2, <1>4
<1>6. \A i \in U \ {e} : i + HDR + h[i] \in U
  BY <1>1 DEF e
<1>7. \E V \in SUBSET (a .. e) : /\ a \in V /\ e \in V
                                 /\ \A i \in V \ {e} : i + HDR + h[i] \in V
  BY <1>5, <1>6
<1> QED BY <1>7 DEF Linked, e

\* The frames of a longer piece are those of the piece and the frame behind it; headers
\* outside make no difference.
LEMMA FramesLonger ==
  ASSUME NEW h \in Headers, NEW k \in Headers, NEW b \in Index, NEW a \in 0 .. b, Linked(h, a, b),
         b < N, b + HDR + k[b] <= N, \A i \in a .. b - 1 : k[i] = h[i]
  PROVE  FramesBetween(k, a, b + HDR + k[b]) = Append(FramesBetween(h, a, b), k[b])
<1> DEFINE e == b + HDR + k[b]
           Same(i) == FramesBetween(k, i, e) = Append(FramesBetween(h, i, b), k[b])
           T == {i \in 0 .. b : a <= i /\ Linked(h, i, b) /\ ~Same(i)}
<1>0. b \in Nat /\ b \in 0 .. N - 1 /\ a \in Nat
  BY NAssumption DEF Index
<1>1. k[b] \in FrameLengths /\ k[b] \in Nat
  BY <1>0, PipeAssumption DEF Headers, FrameLengths
<1>2. e \in Index /\ e \in Nat /\ b < e
  BY <1>0, <1>1, NAssumption DEF Index, HDR
<1>3. Same(b)
  <2>1. FramesBetween(h, b, b) = <<>>
    BY FramesNone
  <2>2. FramesBetween(k, b, e) = <<k[b]>> \o FramesBetween(k, e, e)
    BY <1>0, <1>2, FramesUnfold, PipeAssumption DEF HDR
  <2>3. FramesBetween(k, e, e) = <<>>
    BY <1>2, FramesNone
  <2> HIDE DEF e
  <2> QED BY <1>1, <2>1, <2>2, <2>3
<1>4. ASSUME NEW i \in 0 .. b, a <= i, i < b, Linked(h, i, b), Same(i + HDR + h[i])
      PROVE  Same(i)
  <2> DEFINE j == i + HDR + h[i]
  <2>1. h[i] \in FrameLengths /\ k[i] = h[i] /\ j \in i + 2 .. b
    BY <1>0, <1>4, InThePiece, LinkedStep
  <2>2. FramesBetween(h, i, b) = <<h[i]>> \o FramesBetween(h, j, b)
    BY <1>0, <1>4, FramesUnfold, PipeAssumption DEF HDR
  <2>3. FramesBetween(k, i, e) = <<h[i]>> \o FramesBetween(k, j, e)
    <3>1. i \in 0 .. e + HDR + MaxLen /\ i < e
      BY <1>0, <1>2, PipeAssumption DEF HDR
    <3> HIDE DEF e
    <3> QED BY <1>2, <2>1, <3>1, FramesUnfold
  <2>4. FramesBetween(h, j, b) \in Seq(FrameLengths)
    BY <1>0, <2>1, FramesType, PipeAssumption DEF HDR
  <2> HIDE DEF e, j
  <2>5. FramesBetween(k, j, e) = Append(FramesBetween(h, j, b), k[b])
    BY <1>4 DEF j
  <2> QED BY <1>1, <2>1, <2>2, <2>3, <2>4, <2>5
<1>5. ASSUME T # {} PROVE FALSE
  <2> HIDE DEF Same, e
  <2>1. PICK m \in T : \A y \in T : y <= m
    BY <1>0, <1>5, GreatestNumber
  <2>2. m \in 0 .. b /\ a <= m /\ Linked(h, m, b) /\ ~Same(m)
    OBVIOUS
  <2>3. m < b
    BY <1>0, <1>3, <2>2
  <2> DEFINE j == m + HDR + h[m]
  <2>4. j \in 0 .. b /\ a <= j /\ Linked(h, j, b) /\ ~(j <= m)
    BY <1>0, <2>2, <2>3, InThePiece, LinkedStep
  <2>5. Same(j)
    BY <2>1, <2>4
  <2> QED BY <1>4, <2>2, <2>3, <2>5
<1>6. Same(a)
  <2> HIDE DEF Same
  <2> QED BY <1>0, <1>5
<1> QED BY <1>6

LEMMA FramesSame ==
  ASSUME NEW h \in Headers, NEW k \in Headers, NEW b \in Index, NEW a \in 0 .. b, Linked(h, a, b),
         \A i \in a .. b - 1 : k[i] = h[i]
  PROVE  FramesBetween(k, a, b) = FramesBetween(h, a, b)
<1> DEFINE Same(i) == FramesBetween(k, i, b) = FramesBetween(h, i, b)
           T == {i \in 0 .. b : a <= i /\ Linked(h, i, b) /\ ~Same(i)}
<1>0. b \in Nat /\ a \in Nat
  BY NAssumption DEF Index
<1>1. Same(b)
  BY FramesNone
<1>2. ASSUME NEW i \in 0 .. b, a <= i, i < b, Linked(h, i, b), Same(i + HDR + h[i])
      PROVE  Same(i)
  <2>1. k[i] = h[i] /\ i \in 0 .. b + HDR + MaxLen
    BY <1>0, <1>2, PipeAssumption DEF HDR
  <2> QED BY <1>2, <2>1, FramesUnfold
<1>3. ASSUME T # {} PROVE FALSE
  <2> HIDE DEF Same
  <2>1. PICK m \in T : \A y \in T : y <= m
    BY <1>0, <1>3, GreatestNumber
  <2>2. m \in 0 .. b /\ a <= m /\ Linked(h, m, b) /\ ~Same(m)
    OBVIOUS
  <2>3. m < b
    BY <1>0, <1>1, <2>2
  <2> DEFINE j == m + HDR + h[m]
  <2>4. j \in 0 .. b /\ a <= j /\ Linked(h, j, b) /\ ~(j <= m)
    BY <1>0, <2>2, <2>3, InThePiece, LinkedStep
  <2>5. Same(j)
    BY <2>1, <2>4
  <2> QED BY <1>2, <2>2, <2>3, <2>5
<1>4. Same(a)
  <2> HIDE DEF Same
  <2> QED BY <1>0, <1>3
<1> QED BY <1>4

\* A frame takes two bytes at least.
LEMMA FramesCount ==
  ASSUME NEW h \in Headers, NEW b \in Index, NEW a \in 0 .. b, Linked(h, a, b)
  PROVE  2 * Len(FramesBetween(h, a, b)) <= b - a
<1> DEFINE Few(i) == 2 * Len(FramesBetween(h, i, b)) <= b - i
           T == {i \in 0 .. b : Linked(h, i, b) /\ ~Few(i)}
<1>0. b \in Nat /\ a \in Nat
  BY NAssumption DEF Index
<1>1. Few(b)
  <2>1. FramesBetween(h, b, b) = <<>>
    BY FramesNone
  <2> QED BY <1>0, <2>1
<1>2. ASSUME NEW i \in 0 .. b, i < b, Linked(h, i, b), Few(i + HDR + h[i])
      PROVE  Few(i)
  <2> DEFINE j == i + HDR + h[i]
             f == FramesBetween(h, j, b)
  <2>1. h[i] \in FrameLengths /\ j \in i + 2 .. b
    BY <1>0, <1>2, InThePiece, LinkedStep
  <2>2. FramesBetween(h, i, b) = <<h[i]>> \o f
    BY <1>0, <1>2, FramesUnfold, PipeAssumption DEF HDR
  <2>3. f \in Seq(FrameLengths)
    BY <1>0, <2>1, FramesType, PipeAssumption DEF HDR
  <2>4. 2 * Len(f) <= b - j
    BY <1>2
  <2> HIDE DEF j, f
  <2>5. Len(FramesBetween(h, i, b)) = 1 + Len(f) /\ Len(f) \in Nat
    BY <2>1, <2>2, <2>3
  <2> QED BY <1>0, <2>1, <2>4, <2>5
<1>3. ASSUME T # {} PROVE FALSE
  <2> HIDE DEF Few
  <2>1. PICK m \in T : \A y \in T : y <= m
    BY <1>0, <1>3, GreatestNumber
  <2>2. m \in 0 .. b /\ Linked(h, m, b) /\ ~Few(m)
    OBVIOUS
  <2>3. m < b
    BY <1>0, <1>1, <2>2
  <2> DEFINE j == m + HDR + h[m]
  <2>4. j \in 0 .. b /\ Linked(h, j, b) /\ ~(j <= m)
    BY <1>0, <2>2, <2>3, InThePiece, LinkedStep
  <2>5. Few(j)
    BY <2>1, <2>4
  <2> QED BY <1>2, <2>2, <2>3, <2>5
<1>4. Few(a)
  <2> HIDE DEF Few
  <2> QED BY <1>0, <1>3
<1> QED BY <1>4

-----------------------------------------------------------------------------
(* The inductive invariant.                                                *)

\* The frames lie one behind the other from the reader to the writer, round the end of the
\* ring when it is inverted.
IndexInv ==
  IF Inverted(write, read)
    THEN read <= last /\ Linked(header, read, last) /\ Linked(header, 0, write)
    ELSE write <= last /\ Linked(header, read, write)

\* A grant in the slot is behind the writer, or at the start of the ring and before the reader.
GrantInv ==
  wrState # "IDLE" =>
    /\ wrLen = HDR + MaxLen
    /\ \/ reserve = write + wrLen /\ (Inverted(write, read) => reserve < read)
       \/ reserve = wrLen /\ ~Inverted(write, read) /\ reserve < read

\* A frame in the slot is the first one of the ring.
TakenInv ==
  rdState # "IDLE" =>
    /\ rdLen = HDR + header[read]
    /\ read # (IF Inverted(write, read) THEN last ELSE write)

\* What the preempted main loop has loaded is behind what is there, in the same round of the ring.
SeenInv ==
  /\ mainPc = "wrDecide" => /\ seenRead <= read
                            /\ Inverted(write, seenRead) <=> Inverted(write, read)
  /\ mainPc \in {"rdLoad", "rdDecide"} =>
       IF seenWrite < read THEN Inverted(write, read) /\ seenWrite <= write
       ELSE IF Inverted(write, read) THEN seenWrite <= last ELSE seenWrite <= write
  /\ mainPc = "rdDecide" /\ seenWrite < read => seenLast = last

\* A side that is taking a grant has none in its slot.
TakingInv ==
  /\ mainPc \in {"wrLoad", "wrDecide"} => wrState = "IDLE"
  /\ mainPc \in {"rdLoad", "rdDecide"} => rdState = "IDLE"

SlotInv == SlotsHoldTheGrants /\ TakingInv

IInv == TypeOK /\ SlotInv /\ IndexInv /\ GrantInv /\ TakenInv /\ SeenInv

LEMMA Numbers ==
  ASSUME TypeOK
  PROVE  /\ N \in Nat /\ N > 0 /\ MaxLen \in Nat /\ HDR = 2 /\ Index = 0 .. N
         /\ write \in Nat /\ read \in Nat /\ last \in Nat /\ reserve \in Nat
         /\ write <= N /\ read <= N /\ last <= N /\ reserve <= N
         /\ write \in Index /\ read \in Index /\ last \in Index
         /\ seenRead \in Nat /\ seenWrite \in Nat /\ seenLast \in Nat
         /\ wrLen \in Nat /\ rdLen \in Nat
         /\ header \in Headers
         /\ \A i \in 0 .. N - 1 : header[i] \in Nat /\ header[i] <= MaxLen
BY NAssumption, PipeAssumption DEF TypeOK, Index, HDR, Headers, FrameLengths

\* The invariant holds to begin with, ...
LEMMA InitInv == Init => IInv
<1> SUFFICES ASSUME Init PROVE IInv
  OBVIOUS
<1>0. 0 \in Index /\ 0 \in FrameLengths /\ 0 \in 0 .. HDR + MaxLen
  BY NAssumption, PipeAssumption DEF Index, HDR, FrameLengths
<1>1. TypeOK
  BY <1>0 DEF Init, TypeOK, States
<1>2. IndexInv
  BY LinkedEmpty DEF Init, IndexInv, Inverted
<1> QED BY <1>1, <1>2 DEF Init, IInv, SlotInv, SlotsHoldTheGrants, TakingInv, GrantInv, TakenInv, SeenInv

-----------------------------------------------------------------------------
(* The steps of the main loop.                                             *)

LEMMA WrBeginInv == IInv /\ ServiceWrBegin => IInv'
<1> SUFFICES ASSUME IInv, ServiceWrBegin PROVE IInv'
  OBVIOUS
<1> USE DEF IInv, ServiceWrBegin, wrVars, rdVars
<1>1. TypeOK'
  BY DEF TypeOK
<1>2. SlotInv'
  BY DEF SlotInv, SlotsHoldTheGrants, TakingInv
<1>3. IndexInv' /\ GrantInv' /\ TakenInv' /\ SeenInv'
  BY DEF IndexInv, GrantInv, TakenInv, SeenInv, Inverted
<1> QED BY <1>1, <1>2, <1>3

LEMMA WrLoadInv == IInv /\ ServiceWrLoad => IInv'
<1> SUFFICES ASSUME IInv, ServiceWrLoad PROVE IInv'
  OBVIOUS
<1> USE DEF IInv, ServiceWrLoad, ringVars, wrVars, rdVars
<1>1. TypeOK'
  BY DEF TypeOK
<1>2. SlotInv'
  BY DEF SlotInv, SlotsHoldTheGrants, TakingInv
<1>3. IndexInv' /\ GrantInv' /\ TakenInv'
  BY DEF IndexInv, GrantInv, TakenInv, Inverted
<1>4. SeenInv'
  BY Numbers DEF SeenInv, Inverted
<1> QED BY <1>1, <1>2, <1>3, <1>4

\* A grant that ExactGrant gives is one GrantInv allows.
LEMMA GrantsFit ==
  ASSUME TypeOK, SeenInv, mainPc = "wrDecide", WrGrant.ok
  PROVE  LET end == WrGrant.start + WrGrant.len
         IN  /\ WrGrant.len = HDR + MaxLen
             /\ end \in Index
             /\ \/ end = write + WrGrant.len /\ (Inverted(write, read) => end < read)
                \/ end = WrGrant.len /\ ~Inverted(write, read) /\ end < read
<1> DEFINE sz == HDR + MaxLen
<1>0. /\ sz \in Nat /\ seenRead \in Nat /\ seenRead <= read /\ read <= N /\ write \in Nat
      /\ N \in Nat /\ read \in Nat /\ Index = 0 .. N
      /\ Inverted(write, seenRead) <=> Inverted(write, read)
  BY Numbers DEF SeenInv
<1> HIDE DEF sz
<1>1. WrGrant = ExactGrant(write, seenRead, sz)
  BY DEF WrGrant, sz
<1>2. CASE Inverted(write, seenRead) /\ write + sz < seenRead
  <2>1. WrGrant = GrantAt(write, sz)
    BY <1>0, <1>1, <1>2 DEF ExactGrant, Inverted
  <2> QED BY <1>0, <1>2, <2>1 DEF GrantAt, sz
<1>3. CASE ~Inverted(write, seenRead) /\ write + sz <= N
  <2>1. WrGrant = GrantAt(write, sz)
    BY <1>0, <1>1, <1>3 DEF ExactGrant, Inverted
  <2> QED BY <1>0, <1>3, <2>1 DEF GrantAt, sz
<1>4. CASE ~Inverted(write, seenRead) /\ write + sz > N /\ sz < seenRead
  <2>1. WrGrant = GrantAt(0, sz)
    BY <1>0, <1>1, <1>4 DEF ExactGrant, Inverted
  <2> QED BY <1>0, <1>4, <2>1 DEF GrantAt, sz
<1>5. CASE ~ \/ Inverted(write, seenRead) /\ write + sz < seenRead
             \/ ~Inverted(write, seenRead) /\ write + sz <= N
             \/ ~Inverted(write, seenRead) /\ write + sz > N /\ sz < seenRead
  <2>1. WrGrant = NoGrant
    BY <1>0, <1>1, <1>5 DEF ExactGrant, Inverted
  <2> QED BY <2>1 DEF NoGrant
<1> QED BY <1>2, <1>3, <1>4, <1>5

LEMMA WrPublishInv == IInv /\ ServiceWrPublish => IInv'
<1> SUFFICES ASSUME IInv, ServiceWrPublish PROVE IInv'
  OBVIOUS
<1> USE DEF IInv, ServiceWrPublish, rdVars
<1>1. GrantInv' /\ reserve' \in Index /\ wrLen' = HDR + MaxLen
  BY GrantsFit DEF GrantInv, Inverted
<1>2. TypeOK'
  BY <1>1, NAssumption, PipeAssumption DEF TypeOK, Index, HDR, States
<1>3. SlotInv'
  BY DEF SlotInv, SlotsHoldTheGrants, TakingInv
<1>4. IndexInv' /\ TakenInv' /\ SeenInv'
  BY DEF IndexInv, TakenInv, SeenInv, Inverted
<1> QED BY <1>1, <1>2, <1>3, <1>4

LEMMA WrRefusedInv == IInv /\ ServiceWrRefused => IInv'
<1> SUFFICES ASSUME IInv, ServiceWrRefused PROVE IInv'
  OBVIOUS
<1> USE DEF IInv, ServiceWrRefused, wrVars, rdVars
<1>0. 0 \in Index
  BY NAssumption DEF Index
<1>1. TypeOK'
  BY <1>0 DEF TypeOK
<1>2. SlotInv'
  BY DEF SlotInv, SlotsHoldTheGrants, TakingInv
<1>3. IndexInv' /\ GrantInv' /\ TakenInv' /\ SeenInv'
  BY DEF IndexInv, GrantInv, TakenInv, SeenInv, Inverted
<1> QED BY <1>1, <1>2, <1>3

LEMMA RdBeginInv == IInv /\ ServiceRdBegin => IInv'
<1> SUFFICES ASSUME IInv, ServiceRdBegin PROVE IInv'
  OBVIOUS
<1> USE DEF IInv, ServiceRdBegin, wrVars, rdVars
<1>1. TypeOK'
  BY DEF TypeOK
<1>2. SlotInv'
  BY DEF SlotInv, SlotsHoldTheGrants, TakingInv
<1>3. IndexInv' /\ GrantInv' /\ TakenInv'
  BY DEF IndexInv, GrantInv, TakenInv, Inverted
<1>4. SeenInv'
  BY Numbers DEF IndexInv, SeenInv, Inverted
<1> QED BY <1>1, <1>2, <1>3, <1>4

LEMMA RdLoadInv == IInv /\ ServiceRdLoad => IInv'
<1> SUFFICES ASSUME IInv, ServiceRdLoad PROVE IInv'
  OBVIOUS
<1> USE DEF IInv, ServiceRdLoad, ringVars, wrVars, rdVars
<1>1. TypeOK'
  BY DEF TypeOK
<1>2. SlotInv'
  BY DEF SlotInv, SlotsHoldTheGrants, TakingInv
<1>3. IndexInv' /\ GrantInv' /\ TakenInv' /\ SeenInv'
  BY DEF IndexInv, GrantInv, TakenInv, SeenInv, Inverted
<1> QED BY <1>1, <1>2, <1>3

\* Where the reader starts, and what it finds there.
LEMMA Resolves ==
  ASSUME IInv, mainPc = "rdDecide"
  PROVE  /\ \/ Resolved = read
            \/ Resolved = 0 /\ Inverted(write, read) /\ read = last /\ Found = seenWrite
         /\ Resolved = read /\ Inverted(write, read) /\ Found # 0 => read < last
         /\ Resolved = read /\ ~Inverted(write, read) /\ Found # 0 => read < write
         /\ Resolved = 0 /\ Inverted(write, read) /\ read = last /\ Found # 0 => write > 0
         /\ Found = 0 /\ Resolved = read => seenWrite = read
BY Numbers DEF IInv, SeenInv, IndexInv, Inverted, Resolved, ResolvedRead, Found, FirstLen

LEMMA RdPublishInv == IInv /\ ServiceRdPublish => IInv'
<1> SUFFICES ASSUME IInv, ServiceRdPublish PROVE IInv'
  OBVIOUS
<1> USE DEF IInv, ServiceRdPublish, wrVars
<1>0. read' = Resolved /\ Found # 0 /\ mainPc = "rdDecide"
  OBVIOUS
<1>1. read' \in 0 .. N - 1 /\ read' \in Index
  BY <1>0, Resolves, Numbers DEF IndexInv, Inverted
<1>2. rdLen' = HDR + header[read'] /\ rdLen' \in 0 .. HDR + MaxLen
  BY <1>0, <1>1, Numbers
<1>3. TypeOK'
  BY <1>1, <1>2, NAssumption DEF TypeOK, Index, States
<1>4. SlotInv'
  BY DEF SlotInv, SlotsHoldTheGrants, TakingInv
<1>5. \/ read' = read
      \/ read' = 0 /\ Inverted(write, read) /\ read = last /\ write > 0
  BY <1>0, Resolves, Numbers
<1>6. IndexInv'
  BY <1>5, Numbers DEF IndexInv, Inverted
<1>7. GrantInv'
  BY <1>5, Numbers DEF GrantInv, Inverted
<1>8. TakenInv'
  <2>1. read' # (IF Inverted(write, read') THEN last ELSE write)
    BY <1>0, <1>5, Resolves, Numbers DEF IndexInv, Inverted
  <2> QED BY <1>2, <2>1 DEF TakenInv, Inverted
<1>9. SeenInv'
  BY DEF SeenInv
<1> QED BY <1>3, <1>4, <1>6, <1>7, <1>8, <1>9

LEMMA RdNoneInv == IInv /\ ServiceRdNone => IInv'
<1> SUFFICES ASSUME IInv, ServiceRdNone PROVE IInv'
  OBVIOUS
<1> USE DEF IInv, ServiceRdNone, wrVars, rdVars
<1>1. \/ read' = read
      \/ read' = 0 /\ Inverted(write, read) /\ read = last
  BY Resolves
<1>0. 0 \in Index
  BY NAssumption DEF Index
<1>2. TypeOK'
  BY <1>0, <1>1 DEF TypeOK
<1>3. SlotInv'
  BY DEF SlotInv, SlotsHoldTheGrants, TakingInv
<1>4. IndexInv'
  BY <1>1, Numbers DEF IndexInv, Inverted
<1>5. GrantInv'
  BY <1>1, Numbers DEF GrantInv, Inverted
<1>6. rdState' = "IDLE"
  BY DEF SlotInv, TakingInv
<1>7. TakenInv' /\ SeenInv'
  BY <1>6 DEF TakenInv, SeenInv
<1> QED BY <1>2, <1>3, <1>4, <1>5, <1>7

-----------------------------------------------------------------------------
(* The steps of the handlers.                                              *)

LEMMA PrepWrInv == IInv /\ GetPrepWrDma => IInv'
<1> SUFFICES ASSUME IInv, GetPrepWrDma PROVE IInv'
  OBVIOUS
<1> USE DEF IInv, GetPrepWrDma, ringVars, rdVars, mainVars
<1>1. TypeOK'
  BY DEF TypeOK, States
<1>2. SlotInv'
  BY DEF SlotInv, SlotsHoldTheGrants, TakingInv
<1>3. IndexInv' /\ GrantInv' /\ TakenInv' /\ SeenInv'
  BY DEF IndexInv, GrantInv, TakenInv, SeenInv, Inverted
<1> QED BY <1>1, <1>2, <1>3

LEMMA PrepRdInv == IInv /\ GetPrepRdDma => IInv'
<1> SUFFICES ASSUME IInv, GetPrepRdDma PROVE IInv'
  OBVIOUS
<1> USE DEF IInv, GetPrepRdDma, ringVars, wrVars, mainVars
<1>1. TypeOK'
  BY DEF TypeOK, States
<1>2. SlotInv'
  BY DEF SlotInv, SlotsHoldTheGrants, TakingInv
<1>3. IndexInv' /\ GrantInv' /\ TakenInv' /\ SeenInv'
  BY DEF IndexInv, GrantInv, TakenInv, SeenInv, Inverted
<1> QED BY <1>1, <1>2, <1>3

LEMMA AbortRdInv == IInv /\ AbortRdDma => IInv'
<1> SUFFICES ASSUME IInv, AbortRdDma PROVE IInv'
  OBVIOUS
<1> USE DEF IInv, AbortRdDma, wrVars, mainVars
<1>0. 0 \in 0 .. HDR + MaxLen
  BY PipeAssumption DEF HDR
<1>1. TypeOK'
  BY <1>0 DEF TypeOK, States
<1>2. SlotInv'
  BY DEF SlotInv, SlotsHoldTheGrants, TakingInv
<1>3. IndexInv' /\ GrantInv' /\ TakenInv' /\ SeenInv'
  BY DEF IndexInv, GrantInv, TakenInv, SeenInv, Inverted
<1> QED BY <1>1, <1>2, <1>3

\* The frame in the slot lies before the end of its piece, and so does what follows it.
LEMMA TakenFrame ==
  ASSUME IInv, rdState # "IDLE"
  PROVE  LET end == IF Inverted(write, read) THEN last ELSE write
         IN  /\ end \in Index /\ read < end /\ Linked(header, read, end)
             /\ rdLen = HDR + header[read]
             /\ read + rdLen \in Nat /\ read + rdLen > read /\ read + rdLen <= end
             /\ Linked(header, read + rdLen, end)
<1> DEFINE end == IF Inverted(write, read) THEN last ELSE write
<1>1. end \in Index /\ end \in Nat /\ read <= end /\ read # end /\ Linked(header, read, end)
  BY Numbers DEF IInv, IndexInv, TakenInv, Inverted
<1>2. rdLen = HDR + header[read]
  BY DEF IInv, TakenInv
<1> HIDE DEF end
<1>3. read < end /\ read \in 0 .. N - 1
  BY <1>1, Numbers DEF IInv
<1>4. read + HDR + header[read] <= end /\ Linked(header, read + HDR + header[read], end)
  BY <1>1, <1>3, Numbers, LinkedStep DEF IInv
<1>5. read + rdLen = read + HDR + header[read] /\ header[read] \in Nat
  BY <1>2, <1>3, Numbers DEF IInv
<1>6. read + rdLen \in Nat /\ read + rdLen > read
  BY <1>2, <1>5, Numbers DEF IInv
<1> QED BY <1>1, <1>2, <1>3, <1>4, <1>5, <1>6 DEF end

LEMMA CompleteRdInv == IInv /\ CompleteRdDma => IInv'
<1> SUFFICES ASSUME IInv, CompleteRdDma PROVE IInv'
  OBVIOUS
<1> USE DEF CompleteRdDma, wrVars, mainVars
<1>1. read' = read + rdLen
  BY Numbers DEF IInv, ReadAfterRelease
<1>2. /\ read' \in Nat /\ read < read'
      /\ Inverted(write, read) => read' <= last /\ Linked(header, read', last)
      /\ ~Inverted(write, read) => read' <= write /\ Linked(header, read', write)
  BY <1>1, TakenFrame
<1>3. Inverted(write, read') <=> Inverted(write, read)
  BY <1>2, Numbers DEF IInv, Inverted
<1>4. read' \in Index /\ 0 \in 0 .. HDR + MaxLen
  BY <1>2, Numbers DEF IInv
<1> USE DEF IInv
<1>5. TypeOK'
  BY <1>4 DEF TypeOK, States
<1>6. SlotInv'
  BY DEF SlotInv, SlotsHoldTheGrants, TakingInv
<1>7. IndexInv'
  BY <1>2, <1>3 DEF IndexInv, Inverted
<1>8. GrantInv'
  BY <1>2, <1>3, Numbers DEF GrantInv, Inverted
<1>9. TakenInv'
  BY DEF TakenInv
<1>10. SeenInv'
  <2>1. mainPc \notin {"rdLoad", "rdDecide"}
    BY DEF SlotInv, TakingInv
  <2> QED BY <1>2, <1>3, <2>1, Numbers DEF SeenInv, Inverted
<1> QED BY <1>5, <1>6, <1>7, <1>8, <1>9, <1>10

\* What a commit of `total` bytes does, nothing or a frame with its header.
Committed(total) ==
  /\ wrState = "BUSY"
  /\ total \in 0 .. wrLen
  /\ CommitInner(total)
  /\ header' \in Headers
  /\ \A i \in 0 .. N - 1 : i # reserve - wrLen => header'[i] = header[i]
  /\ total # 0 => total = HDR + header'[reserve - wrLen]
  /\ wrState' = "IDLE" /\ wrLen' = 0
  /\ UNCHANGED <<read, rip, rdVars, mainVars>>

LEMMA CompleteCommits ==
  ASSUME IInv, NEW used \in 0 .. MaxLen + 1, CompleteWrDma(used)
  PROVE  /\ Committed(HDR + CutToGrant(used))
         /\ CutToGrant(used) \in FrameLengths
         /\ header'[reserve - wrLen] = CutToGrant(used)
<1>1. wrLen = HDR + MaxLen
  BY DEF IInv, GrantInv, CompleteWrDma
<1>2. reserve - wrLen \in 0 .. N - 1
  BY <1>1, Numbers DEF IInv, GrantInv, CompleteWrDma
<1>3. CutToGrant(used) \in FrameLengths /\ CutToGrant(used) \in Nat /\ CutToGrant(used) <= MaxLen
  BY <1>1, Numbers DEF IInv, CutToGrant, Smaller, FrameLengths
<1>4. header' = [header EXCEPT ![reserve - wrLen] = CutToGrant(used)] /\ header \in Headers
  BY Numbers DEF IInv, CompleteWrDma
<1>5. header' \in Headers /\ header'[reserve - wrLen] = CutToGrant(used)
      /\ \A i \in 0 .. N - 1 : i # reserve - wrLen => header'[i] = header[i]
  BY <1>2, <1>3, <1>4 DEF Headers
<1>6. HDR + CutToGrant(used) \in 0 .. wrLen
  BY <1>1, <1>3, Numbers DEF IInv
<1> QED BY <1>3, <1>5, <1>6 DEF Committed, CompleteWrDma

LEMMA AbortCommits == ASSUME IInv, AbortWrDma PROVE Committed(0) /\ header' = header
<1>1. 0 \in 0 .. wrLen
  BY Numbers DEF IInv
<1>2. header \in Headers
  BY Numbers DEF IInv
<1> QED BY <1>1, <1>2 DEF Committed, AbortWrDma

\* A commit puts the writer behind what it wrote, in the round of its grant.
LEMMA CommitMoves ==
  ASSUME IInv, NEW total, Committed(total)
  PROVE  LET start == reserve - wrLen
         IN  /\ write' = start + total /\ reserve' = write' /\ wip' = FALSE
             /\ total \in Nat /\ start \in 0 .. N - 1 /\ write' <= reserve
             /\ \/ start = write /\ Inverted(write, read) /\ reserve < read /\ last' = last
                \/ start = write /\ ~Inverted(write, read) /\ write' <= last' /\ last' \in Index
                   /\ (total = 0 => last' = last)
                \/ /\ start = 0 /\ ~Inverted(write, read) /\ reserve < read
                   /\ last' = write
<1> DEFINE start == reserve - wrLen
<1>0. /\ N \in Nat /\ MaxLen \in Nat /\ HDR = 2 /\ Index = 0 .. N
      /\ write \in 0 .. N /\ read \in 0 .. N /\ last \in 0 .. N /\ reserve \in 0 .. N
  BY Numbers DEF IInv
<1>7. /\ Inverted(write, read) => write < read /\ read <= last
      /\ ~Inverted(write, read) => read <= write /\ write <= last
  BY <1>0 DEF IInv, IndexInv, Inverted
<1>1. /\ wrLen = HDR + MaxLen
      /\ \/ reserve = write + wrLen /\ (Inverted(write, read) => reserve < read)
         \/ reserve = wrLen /\ ~Inverted(write, read) /\ reserve < read
  BY DEF IInv, GrantInv, Committed
<1>2. /\ total \in Nat /\ total <= wrLen
      /\ write' = reserve - (wrLen - total) /\ reserve' = write' /\ wip' = FALSE
      /\ last' = LastAfterCommit(write, last, write')
  BY Numbers DEF IInv, Committed, CommitInner, Smaller
<1>3. start \in 0 .. N - 1 /\ write' = start + total /\ write' <= reserve /\ write' \in Nat
  <2>1. start \in 0 .. N - 1
    BY <1>0, <1>1
  <2>2. write' = start + total /\ write' <= reserve
    BY <1>0, <1>1, <1>2
  <2> QED BY <1>2, <2>1, <2>2
<1>4. CASE reserve = write + wrLen /\ Inverted(write, read) /\ reserve < read
  <2>1. start = write /\ ~(write' < write) /\ ~(write' > last)
    BY <1>0, <1>1, <1>2, <1>3, <1>4, <1>7
  <2> QED BY <1>2, <1>3, <1>4, <2>1 DEF LastAfterCommit
<1>5. CASE reserve = write + wrLen /\ ~Inverted(write, read)
  <2>1. start = write /\ ~(write' < write) /\ (total = 0 => ~(write' > last)) /\ write' <= N
    BY <1>0, <1>1, <1>2, <1>3, <1>5, <1>7
  <2> QED BY <1>0, <1>2, <1>3, <1>5, <2>1 DEF LastAfterCommit
<1>6. CASE reserve = wrLen /\ ~Inverted(write, read) /\ reserve < read
  <2>1. start = 0 /\ write' < write /\ ~(write' > last)
    BY <1>0, <1>2, <1>3, <1>6, <1>7
  <2>2. write = N => last = N
    BY <1>0, <1>6, <1>7
  <2> QED BY <1>2, <1>3, <1>6, <2>1, <2>2 DEF LastAfterCommit
<1> QED BY <1>1, <1>4, <1>5, <1>6

\* The piece that ends at the grant, with what is committed.
LEMMA PieceLonger ==
  ASSUME IInv, NEW total, Committed(total), NEW a \in Nat,
         a <= reserve - wrLen, Linked(header, a, reserve - wrLen)
  PROVE  Linked(header', a, reserve - wrLen + total)
<1> DEFINE start == reserve - wrLen
<1>0. N \in Nat /\ HDR = 2 /\ Index = 0 .. N /\ reserve \in Nat /\ reserve <= N
  BY Numbers DEF IInv
<1>7. start \in 0 .. N - 1 /\ total \in Nat /\ start + total <= reserve
  BY CommitMoves
<1>1. start \in 0 .. N - 1 /\ start \in Nat /\ start \in Index /\ a \in 0 .. start
  BY <1>0, <1>7
<1> HIDE DEF start
<1>2. header \in Headers /\ header' \in Headers /\ start < N
  BY <1>1, Numbers DEF IInv, Committed
<1>3. \A i \in a .. start - 1 : header'[i] = header[i]
  <2>1. \A i \in a .. start - 1 : i \in 0 .. N - 1 /\ i # start
    BY <1>0, <1>1
  <2> QED BY <2>1 DEF Committed, start
<1>4. Linked(header', a, start)
  BY <1>1, <1>2, <1>3, LinkedSame DEF start
<1>5. CASE total = 0
  BY <1>1, <1>4, <1>5 DEF start
<1>6. CASE total # 0
  <2>1. total = HDR + header'[start] /\ total \in Nat /\ start + total <= N
    BY <1>0, <1>1, <1>6, <1>7 DEF Committed, start
  <2>2. header'[start] \in Nat
    BY <1>1, <1>2, PipeAssumption DEF Headers, FrameLengths
  <2>3. start + HDR + header'[start] = start + total
    BY <1>0, <1>1, <2>1, <2>2
  <2>4. Linked(header', a, start + HDR + header'[start])
    BY <1>1, <1>2, <1>4, <2>1, <2>3, LinkedLonger
  <2> QED BY <2>3, <2>4 DEF start
<1> QED BY <1>5, <1>6

\* A piece without the grant stays.
LEMMA PieceStays ==
  ASSUME IInv, NEW total, Committed(total), NEW a \in Nat, NEW b \in Index,
         Linked(header, a, b), reserve - wrLen < a \/ b <= reserve - wrLen
  PROVE  /\ Linked(header', a, b)
         /\ \A i \in a .. b - 1 : header'[i] = header[i]
<1>1. \A i \in a .. b - 1 : i \in 0 .. N - 1 /\ i # reserve - wrLen
  BY CommitMoves, Numbers DEF IInv
<1>2. \A i \in a .. b - 1 : header'[i] = header[i]
  BY <1>1 DEF Committed
<1>3. header \in Headers /\ header' \in Headers
  BY Numbers DEF IInv, Committed
<1> QED BY <1>2, <1>3, LinkedSame

LEMMA CommitInv == ASSUME IInv, NEW total, Committed(total) PROVE IInv'
<1> DEFINE start == reserve - wrLen
<1> USE DEF rdVars, mainVars
<1>1. /\ write' = start + total /\ reserve' = write' /\ wip' = FALSE
      /\ total \in Nat /\ start \in 0 .. N - 1 /\ write' <= reserve /\ write' \in Index
      /\ read' = read
  <2>1. /\ write' = start + total /\ reserve' = write' /\ wip' = FALSE
        /\ total \in Nat /\ start \in 0 .. N - 1 /\ write' <= reserve
    BY CommitMoves
  <2>2. N \in Nat /\ Index = 0 .. N /\ reserve \in Nat /\ reserve <= N
    BY Numbers DEF IInv
  <2>3. write' \in Index
    BY <2>1, <2>2
  <2> QED BY <2>1, <2>3 DEF Committed
<1>2. \/ start = write /\ Inverted(write, read) /\ write' < read /\ last' = last
      \/ start = write /\ ~Inverted(write, read) /\ write' <= last' /\ last' \in Index
      \/ start = 0 /\ ~Inverted(write, read) /\ write' < read /\ last' = write
  <2>1. write' \in Nat /\ reserve \in Nat /\ read \in Nat /\ write' <= reserve
    BY <1>1, Numbers DEF IInv
  <2>2. \/ start = write /\ Inverted(write, read) /\ reserve < read /\ last' = last
        \/ start = write /\ ~Inverted(write, read) /\ write' <= last' /\ last' \in Index
        \/ start = 0 /\ ~Inverted(write, read) /\ reserve < read /\ last' = write
    BY CommitMoves
  <2> HIDE DEF start
  <2> QED BY <2>1, <2>2
<1> HIDE DEF start
<1>3. TypeOK'
  <2>1. last' \in Index /\ 0 \in 0 .. HDR + MaxLen
    BY <1>2, Numbers DEF IInv
  <2> QED BY <1>1, <2>1 DEF IInv, TypeOK, States, Committed, Headers
<1>4. SlotInv'
  BY <1>1 DEF IInv, SlotInv, SlotsHoldTheGrants, TakingInv, Committed
<1>5. IndexInv'
  <2>1. CASE start = write /\ Inverted(write, read) /\ write' < read /\ last' = last
    <3>1. Linked(header', read, last)
      BY <2>1, PieceStays, Numbers DEF IInv, IndexInv, Inverted, start
    <3>2. Linked(header', 0, write')
      BY <1>1, <2>1, PieceLonger, Numbers DEF IInv, IndexInv, start
    <3> QED BY <1>1, <2>1, <3>1, <3>2 DEF IInv, IndexInv, Inverted
  <2>2. CASE start = write /\ ~Inverted(write, read) /\ write' <= last' /\ last' \in Index
    <3>1. Linked(header', read, write')
      BY <1>1, <2>2, PieceLonger, Numbers DEF IInv, IndexInv, Inverted, start
    <3>2. ~Inverted(write', read)
      BY <1>1, <2>2, Numbers DEF IInv, Inverted
    <3> QED BY <1>1, <2>2, <3>1, <3>2 DEF IndexInv, Inverted
  <2>3. CASE start = 0 /\ ~Inverted(write, read) /\ write' < read /\ last' = write
    <3>0. write \in Index /\ read \in Nat /\ write' \in Nat /\ start < read /\ Linked(header, read, write)
      BY <1>1, <2>3, Numbers DEF IInv, IndexInv
    <3>1. Linked(header', read, write)
      BY <3>0, PieceStays DEF start
    <3>2. Linked(header', 0, write')
      <4>1. Linked(header, 0, start) /\ 0 \in Nat /\ 0 <= start
        BY <2>3, LinkedEmpty
      <4> QED BY <1>1, <4>1, PieceLonger DEF start
    <3> QED BY <1>1, <2>3, <3>1, <3>2, Numbers DEF IInv, IndexInv, Inverted
  <2> QED BY <1>2, <2>1, <2>2, <2>3
<1>6. GrantInv'
  BY DEF GrantInv, Committed
<1>7. TakenInv'
  <2> SUFFICES ASSUME rdState # "IDLE"
               PROVE  /\ rdLen = HDR + header'[read]
                      /\ read # (IF Inverted(write', read) THEN last' ELSE write')
    BY <1>1 DEF TakenInv, Inverted, Committed
  <2>1. /\ rdLen = HDR + header[read] /\ read \in 0 .. N - 1
        /\ read < (IF Inverted(write, read) THEN last ELSE write)
    BY TakenFrame, Numbers DEF IInv
  <2>2. read # start
    BY <1>1, <1>2, <2>1, Numbers DEF IInv, Inverted
  <2>3. header'[read] = header[read]
    BY <2>1, <2>2 DEF Committed, start
  <2> QED BY <1>1, <1>2, <2>1, <2>3, Numbers DEF IInv, Inverted
<1>8. SeenInv'
  <2>1. mainPc # "wrDecide" /\ mainPc' = mainPc /\ seenWrite' = seenWrite /\ seenLast' = seenLast
    BY DEF IInv, SlotInv, TakingInv, Committed
  <2> QED BY <1>1, <1>2, <2>1, Numbers DEF IInv, SeenInv, Inverted
<1> QED BY <1>3, <1>4, <1>5, <1>6, <1>7, <1>8 DEF IInv

\* ... and every step keeps it.
LEMMA StepInv == IInv /\ [Next]_vars => IInv'
<1> SUFFICES ASSUME IInv, [Next]_vars PROVE IInv'
  OBVIOUS
<1>1. CASE Main
  BY <1>1, WrBeginInv, WrLoadInv, WrPublishInv, WrRefusedInv,
     RdBeginInv, RdLoadInv, RdPublishInv, RdNoneInv DEF Main
<1>2. CASE Handlers
  <2>1. ASSUME NEW used \in 0 .. MaxLen + 1, CompleteWrDma(used) PROVE IInv'
    BY <2>1, CompleteCommits, CommitInv
  <2>2. CASE AbortWrDma
    BY <2>2, AbortCommits, CommitInv
  <2> QED BY <1>2, <2>1, <2>2, PrepWrInv, PrepRdInv, CompleteRdInv, AbortRdInv DEF Handlers
<1>3. CASE UNCHANGED vars
  BY <1>3 DEF vars, ringVars, wrVars, rdVars, mainVars, IInv, TypeOK, SlotInv, SlotsHoldTheGrants,
              TakingInv, IndexInv, GrantInv, TakenInv, SeenInv, Inverted
<1> QED BY <1>1, <1>2, <1>3 DEF Next

\* The invariant holds in every state of the pipe.
THEOREM PipeInvariant == Spec => []IInv
<1> QED BY InitInv, StepInv, PTL DEF Spec

\* Pipe.TypeOK: the indices stay within the ring, no length exceeds a grant, for every N and
\* MaxLen.
THEOREM PipeTypeOK == Spec => []TypeOK
<1>1. IInv => TypeOK
  BY DEF IInv
<1> QED BY <1>1, PipeInvariant, PTL

\* Pipe.SlotsHoldTheGrants: no grant is leaked or used after it went back, wherever the main
\* loop is preempted by the handlers' calls.
THEOREM GrantsAreInTheSlots == Spec => []SlotsHoldTheGrants
<1>1. IInv => SlotsHoldTheGrants
  BY DEF IInv, SlotInv
<1> QED BY <1>1, PipeInvariant, PTL

-----------------------------------------------------------------------------
(* The pipe of FramePipeSpec.                                              *)

unresolved == Inverted(write, read) /\ write = 0

\* The pieces of the ring the frames lie in.
LEMMA Pieces ==
  ASSUME IInv
  PROVE  /\ Inverted(write, read) =>
              /\ Frames = FramesBetween(header, read, last) \o FramesBetween(header, 0, write)
              /\ FramesBetween(header, read, last) \in Seq(FrameLengths)
              /\ FramesBetween(header, 0, write) \in Seq(FrameLengths)
              /\ read \in 0 .. last /\ Linked(header, read, last) /\ Linked(header, 0, write)
         /\ ~Inverted(write, read) =>
              /\ Frames = FramesBetween(header, read, write)
              /\ FramesBetween(header, read, write) \in Seq(FrameLengths)
              /\ read \in 0 .. write /\ Linked(header, read, write)
         /\ 0 \in 0 .. write
<1>1. /\ N \in Nat /\ MaxLen \in Nat /\ HDR = 2
      /\ write \in Index /\ read \in Nat /\ last \in Index /\ header \in Headers
      /\ write \in Nat /\ last \in Nat /\ read <= N
  BY Numbers DEF IInv
<1>2. CASE Inverted(write, read)
  <2>1. /\ Frames = FramesBetween(header, read, last) \o FramesBetween(header, 0, write)
        /\ read <= last /\ Linked(header, read, last) /\ Linked(header, 0, write)
    BY <1>2 DEF IInv, IndexInv, Frames
  <2>2. read \in 0 .. last + HDR + MaxLen /\ 0 \in 0 .. write + HDR + MaxLen
    BY <1>1, <2>1
  <2>3. /\ FramesBetween(header, read, last) \in Seq(FrameLengths)
        /\ FramesBetween(header, 0, write) \in Seq(FrameLengths)
    BY <1>1, <2>2, FramesType
  <2> QED BY <1>1, <1>2, <2>1, <2>3
<1>3. CASE ~Inverted(write, read)
  <2>1. Frames = FramesBetween(header, read, write) /\ read <= write /\ Linked(header, read, write)
    BY <1>1, <1>3 DEF IInv, IndexInv, Frames, Inverted
  <2>2. read \in 0 .. write + HDR + MaxLen
    BY <1>1, <2>1
  <2>3. FramesBetween(header, read, write) \in Seq(FrameLengths)
    BY <1>1, <2>2, FramesType
  <2> QED BY <1>1, <1>3, <2>1, <2>3
<1> QED BY <1>2, <1>3

\* The ring is never full of frames: the bound of FramePipe on their number is no bound.
LEMMA FramesFit == IInv => Frames \in Seq(FrameLengths) /\ Len(Frames) < N
<1> SUFFICES ASSUME IInv PROVE Frames \in Seq(FrameLengths) /\ Len(Frames) < N
  OBVIOUS
<1>1. /\ N \in Nat /\ N > 0 /\ write \in Nat /\ read \in Nat /\ last \in Nat
      /\ write <= N /\ last <= N
      /\ write \in Index /\ last \in Index /\ header \in Headers
  BY Numbers DEF IInv
<1>2. CASE Inverted(write, read)
  <2> DEFINE f == FramesBetween(header, read, last)
             g == FramesBetween(header, 0, write)
  <2>1. Frames = f \o g /\ f \in Seq(FrameLengths) /\ g \in Seq(FrameLengths) /\ write < read
    BY <1>2, Pieces DEF Inverted
  <2>2. 2 * Len(f) <= last - read /\ 2 * Len(g) <= write - 0
    BY <1>1, <1>2, Pieces, FramesCount
  <2> HIDE DEF f, g
  <2>3. Len(f \o g) = Len(f) + Len(g) /\ Len(f) \in Nat /\ Len(g) \in Nat
        /\ f \o g \in Seq(FrameLengths)
    BY <2>1, ConcatProperties
  <2> QED BY <1>1, <2>1, <2>2, <2>3
<1>3. CASE ~Inverted(write, read)
  <2> DEFINE f == FramesBetween(header, read, write)
  <2>1. Frames = f /\ f \in Seq(FrameLengths)
    BY <1>3, Pieces
  <2>2. 2 * Len(f) <= write - read
    BY <1>1, <1>3, Pieces, FramesCount
  <2> HIDE DEF f
  <2>3. Len(f) \in Nat
    BY <2>1
  <2> QED BY <1>1, <2>1, <2>2, <2>3
<1> QED BY <1>2, <1>3

\* A piece with a byte in it has a frame in it, its first one.
LEMMA FirstFrame ==
  ASSUME NEW h \in Headers, NEW b \in Index, NEW a \in 0 .. b, a # b, Linked(h, a, b)
  PROVE  LET rest == FramesBetween(h, a + HDR + h[a], b)
         IN  /\ rest \in Seq(FrameLengths)
             /\ FramesBetween(h, a, b) = <<h[a]>> \o rest
             /\ h[a] \in FrameLengths
             /\ FramesBetween(h, a, b) # <<>>
             /\ Tail(FramesBetween(h, a, b)) = rest
<1>1. a < b /\ a \in Nat /\ a \in 0 .. b + HDR + MaxLen
  BY NAssumption, PipeAssumption DEF Index, HDR
<1> DEFINE c == a + HDR + h[a]
           rest == FramesBetween(h, c, b)
<1>2. h[a] \in FrameLengths /\ c \in 0 .. b + HDR + MaxLen
  <2>1. c \in a + 2 .. b + HDR + MaxLen /\ h[a] \in FrameLengths
    BY <1>1, InThePiece
  <2> QED BY <1>1, <2>1
<1> HIDE DEF c
<1>3. rest \in Seq(FrameLengths)
  BY <1>2, FramesType
<1>4. FramesBetween(h, a, b) = <<h[a]>> \o rest
  BY <1>1, FramesUnfold DEF c
<1> HIDE DEF rest
<1>5. <<h[a]>> \o rest # <<>> /\ Tail(<<h[a]>> \o rest) = rest
  <2>1. <<h[a]>> \in Seq(FrameLengths) /\ Len(<<h[a]>>) = 1
    BY <1>2
  <2>2. /\ Len(<<h[a]>> \o rest) = 1 + Len(rest) /\ Len(rest) \in Nat
        /\ <<h[a]>> \o rest \in Seq(FrameLengths)
        /\ \A i \in 1 .. Len(rest) : (<<h[a]>> \o rest)[i + 1] = rest[i]
    BY <1>3, <2>1, ConcatProperties
  <2> QED BY <1>3, <2>2
<1> QED BY <1>2, <1>3, <1>4, <1>5 DEF rest, c

LEMMA InitPipe == Init => Abstract!PipeInit
<1> SUFFICES ASSUME Init PROVE Abstract!PipeInit
  OBVIOUS
<1>1. Frames = FramesBetween(header, 0, 0)
  BY DEF Init, Frames, Inverted
<1>2. header \in Headers /\ 0 \in Index
  BY Numbers, InitInv DEF Init, IInv
<1>3. Frames = <<>>
  BY <1>1, <1>2, FramesNone
<1>4. (Inverted(write, read) /\ write = 0) = FALSE
  BY DEF Init, Inverted
<1>5. wrState = "IDLE" /\ rdState = "IDLE"
  BY DEF Init
<1> QED BY <1>3, <1>4, <1>5 DEF Abstract!PipeInit, Abstract!EmptyPipe, Abstract!IDLE

\* Steps that leave the frames as they are.
LEMMA FramesStay ==
  ASSUME UNCHANGED <<write, read, last, header>>
  PROVE  Frames' = Frames /\ unresolved' = unresolved
BY DEF Frames, Inverted, unresolved

LEMMA WrPublishPipe == IInv /\ ServiceWrPublish => Abstract!PipeNext
<1> SUFFICES ASSUME IInv, ServiceWrPublish PROVE Abstract!PipeNext
  OBVIOUS
<1>1. wrState = "IDLE" /\ wrState' = "READY" /\ rdState' = rdState
  BY DEF ServiceWrPublish, IInv, SlotInv, TakingInv, rdVars
<1>2. Frames' = Frames /\ unresolved' = unresolved
  BY FramesStay DEF ServiceWrPublish
<1>3. Len(Frames) < N
  BY FramesFit
<1> QED BY <1>1, <1>2, <1>3 DEF unresolved, Abstract!PipeNext, Abstract!CanGrantWr,
           Abstract!ServiceWr, Abstract!IDLE, Abstract!READY

\* What abort_wr_dma does, as records.
LEMMA AbortRecord ==
  ASSUME NEW f, NEW r, NEW u, NEW v, v \in {u, TRUE}
  PROVE  [frames |-> f, wr |-> "IDLE", rd |-> r, unresolved |-> v]
           \in Abstract!AbortWr([frames |-> f, wr |-> "BUSY", rd |-> r, unresolved |-> u])
<1> DEFINE p == [frames |-> f, wr |-> "BUSY", rd |-> r, unresolved |-> u]
           q == [frames |-> f, wr |-> "IDLE", rd |-> r, unresolved |-> u]
           s == [frames |-> f, wr |-> "IDLE", rd |-> r, unresolved |-> v]
<1>1. q = [p EXCEPT !.wr = "IDLE"] /\ s = [q EXCEPT !.unresolved = v]
  OBVIOUS
<1>2. p.wr = "BUSY" /\ p.unresolved = u
  OBVIOUS
<1> HIDE DEF p, q, s
<1>3. s = [p EXCEPT !.wr = "IDLE", !.unresolved = v]
  <2>1. [p EXCEPT !.wr = "IDLE", !.unresolved = v] = [[p EXCEPT !.wr = "IDLE"] EXCEPT !.unresolved = v]
    BY Zenon
  <2> QED BY <1>1, <2>1, Zenon
<1>4. [p EXCEPT !.wr = "IDLE", !.unresolved = v] \in Abstract!AbortWr(p)
  BY <1>2, Zenon DEF Abstract!AbortWr, Abstract!IDLE, Abstract!BUSY
<1> QED BY <1>3, <1>4, Zenon DEF p, s

\* The reader's start again at 0 takes no frame.
LEMMA ResolvedFrames ==
  ASSUME IInv, Inverted(write, read), read = last
  PROVE  /\ Frames = FramesBetween(header, 0, write)
         /\ read' = 0 /\ UNCHANGED <<write, last, header>> =>
              Frames' = Frames /\ (unresolved' <=> FALSE)
<1>1. last \in Index /\ write \in Nat /\ header \in Headers
  BY Numbers DEF IInv
<1>2. FramesBetween(header, read, last) = <<>>
  BY <1>1, FramesNone
<1>3. Frames = <<>> \o FramesBetween(header, 0, write)
      /\ FramesBetween(header, 0, write) \in Seq(FrameLengths)
  BY <1>2, Pieces
<1>4. Frames = FramesBetween(header, 0, write)
  BY <1>3, ConcatEmptySeq
<1>5. ASSUME read' = 0, UNCHANGED <<write, last, header>>
      PROVE  Frames' = FramesBetween(header, 0, write) /\ (unresolved' <=> FALSE)
  BY <1>1, <1>5 DEF Frames, Inverted, unresolved
<1> QED BY <1>4, <1>5

LEMMA RdPublishPipe == IInv /\ ServiceRdPublish => Abstract!PipeNext
<1> SUFFICES ASSUME IInv, ServiceRdPublish PROVE Abstract!PipeNext
  OBVIOUS
<1>1. rdState = "IDLE" /\ rdState' = "READY" /\ wrState' = wrState
  BY DEF ServiceRdPublish, IInv, SlotInv, TakingInv, wrVars
<1>2. mainPc = "rdDecide" /\ Found # 0 /\ read' = Resolved /\ UNCHANGED <<write, last, header>>
  BY DEF ServiceRdPublish
<1>3. /\ N \in Nat /\ write \in Index /\ last \in Index /\ read \in Nat
      /\ write \in Nat /\ last \in Nat /\ header \in Headers
  BY Numbers DEF IInv
<1>4. Frames # <<>> /\ Frames' = Frames /\ (unresolved' <=> unresolved)
  <2>1. CASE Resolved = read
    <3>1. Frames' = Frames /\ unresolved' = unresolved
      BY <1>2, <2>1, FramesStay
    <3>2. Frames # <<>>
      <4>1. CASE Inverted(write, read)
        <5>1. read \in 0 .. last /\ read # last /\ Linked(header, read, last)
          BY <1>2, <1>3, <2>1, <4>1, Resolves, Pieces
        <5>2. FramesBetween(header, read, last) # <<>>
          BY <1>3, <5>1, FirstFrame
        <5> QED BY <4>1, <5>2, Pieces, ConcatEmptySeq, ConcatProperties
      <4>2. CASE ~Inverted(write, read)
        <5>1. read \in 0 .. write /\ read # write /\ Linked(header, read, write)
          BY <1>2, <1>3, <2>1, <4>2, Resolves, Pieces
        <5> QED BY <1>3, <4>2, <5>1, Pieces, FirstFrame
      <4> QED BY <4>1, <4>2
    <3> QED BY <3>1, <3>2
  <2>2. CASE Resolved # read
    <3>1. Resolved = 0 /\ Inverted(write, read) /\ read = last /\ write > 0
      BY <1>2, <2>2, Resolves
    <3>2. Frames = FramesBetween(header, 0, write) /\ Frames' = Frames /\ (unresolved' <=> FALSE)
      BY <1>2, <3>1, ResolvedFrames
    <3>3. 0 \in 0 .. write /\ 0 # write /\ Linked(header, 0, write)
      BY <1>3, <3>1, Pieces
    <3>4. Frames # <<>>
      BY <1>3, <3>2, <3>3, FirstFrame
    <3>5. unresolved <=> FALSE
      BY <1>3, <3>1 DEF unresolved
    <3> QED BY <3>2, <3>4, <3>5
  <2> QED BY <2>1, <2>2
<1>5. unresolved' = unresolved
  BY <1>4 DEF unresolved
<1> QED BY <1>1, <1>4, <1>5 DEF unresolved, Abstract!PipeNext, Abstract!CanGrantRd,
           Abstract!ServiceRd, Abstract!IDLE, Abstract!READY

LEMMA RdNonePipe ==
  IInv /\ ServiceRdNone =>
    \/ Abstract!PipeNext
    \/ Frames' = Frames /\ unresolved' = unresolved /\ UNCHANGED <<wrState, rdState>>
<1> SUFFICES ASSUME IInv, ServiceRdNone
             PROVE  \/ Abstract!PipeNext
                    \/ Frames' = Frames /\ unresolved' = unresolved /\ UNCHANGED <<wrState, rdState>>
  OBVIOUS
<1>1. rdState = "IDLE" /\ UNCHANGED <<wrState, rdState>>
  BY DEF ServiceRdNone, IInv, SlotInv, TakingInv, wrVars, rdVars
<1>2. mainPc = "rdDecide" /\ Found = 0 /\ read' = Resolved /\ UNCHANGED <<write, last, header>>
  BY DEF ServiceRdNone
<1>3. CASE Resolved = read
  BY <1>1, <1>2, <1>3, FramesStay
<1>4. CASE Resolved # read
  <2>1. Resolved = 0 /\ Inverted(write, read) /\ read = last
    BY <1>2, <1>4, Resolves
  <2>2. Frames = FramesBetween(header, 0, write) /\ Frames' = Frames /\ (unresolved' <=> FALSE)
    BY <1>2, <2>1, ResolvedFrames
  <2>3. unresolved' = FALSE
    BY <2>2 DEF unresolved
  <2>4. CASE write = 0
    <3>1. Frames = <<>>
      BY <2>2, <2>4, FramesNone, Numbers DEF IInv
    <3>2. Frames' = <<>>
      BY <2>2, <3>1
    <3> DEFINE P == [frames |-> Frames, wr |-> wrState, rd |-> rdState, unresolved |-> unresolved]
    <3>3. Abstract!FindsNone(P)
      BY <1>1, <3>1 DEF Abstract!FindsNone, Abstract!IDLE
    <3>4. P' = [frames |-> Frames, wr |-> wrState, rd |-> rdState, unresolved |-> unresolved']
      BY <1>1, <3>1, <3>2
    <3>5. P' = [P EXCEPT !.unresolved = unresolved']
      BY <3>4, SMT
    <3>6. P' = Abstract!ServiceRdNone(P)
      BY <2>3, <3>5, Zenon DEF Abstract!ServiceRdNone
    <3> QED BY <3>3, <3>6, Zenon DEF unresolved, Abstract!PipeNext
  <2>5. CASE write # 0
    <3>1. unresolved = FALSE
      BY <2>5 DEF unresolved
    <3> QED BY <1>1, <2>2, <2>3, <3>1
  <2> QED BY <2>4, <2>5
<1> QED BY <1>3, <1>4

LEMMA PrepWrPipe == GetPrepWrDma => Abstract!PipeNext
<1> SUFFICES ASSUME GetPrepWrDma PROVE Abstract!PipeNext
  OBVIOUS
<1>1. wrState = "READY" /\ wrState' = "BUSY" /\ rdState' = rdState
  BY DEF GetPrepWrDma, rdVars
<1>2. Frames' = Frames /\ unresolved' = unresolved
  BY FramesStay DEF GetPrepWrDma, ringVars
<1> QED BY <1>1, <1>2 DEF unresolved, Abstract!PipeNext, Abstract!PrepWr, Abstract!READY,
           Abstract!BUSY

LEMMA PrepRdPipe == GetPrepRdDma => Abstract!PipeNext
<1> SUFFICES ASSUME GetPrepRdDma PROVE Abstract!PipeNext
  OBVIOUS
<1>1. rdState = "READY" /\ rdState' = "BUSY" /\ wrState' = wrState
  BY DEF GetPrepRdDma, wrVars
<1>2. Frames' = Frames /\ unresolved' = unresolved
  BY FramesStay DEF GetPrepRdDma, ringVars
<1> QED BY <1>1, <1>2 DEF unresolved, Abstract!PipeNext, Abstract!PrepRd, Abstract!READY,
           Abstract!BUSY

LEMMA AbortRdPipe == AbortRdDma => Abstract!PipeNext
<1> SUFFICES ASSUME AbortRdDma PROVE Abstract!PipeNext
  OBVIOUS
<1>1. rdState = "BUSY" /\ rdState' = "IDLE" /\ wrState' = wrState
  BY DEF AbortRdDma, wrVars
<1>2. Frames' = Frames /\ unresolved' = unresolved
  BY FramesStay DEF AbortRdDma
<1> QED BY <1>1, <1>2 DEF unresolved, Abstract!PipeNext, Abstract!AbortRd, Abstract!IDLE,
           Abstract!BUSY

LEMMA CompleteRdPipe == IInv /\ CompleteRdDma => Abstract!PipeNext
<1> SUFFICES ASSUME IInv, CompleteRdDma PROVE Abstract!PipeNext
  OBVIOUS
<1>1. rdState = "BUSY" /\ rdState' = "IDLE" /\ wrState' = wrState
      /\ UNCHANGED <<write, last, header>>
  BY DEF CompleteRdDma, wrVars
<1>2. /\ N \in Nat /\ write \in Index /\ last \in Index /\ read \in Nat
      /\ write \in Nat /\ last \in Nat /\ header \in Headers
  BY Numbers DEF IInv
<1>3. read' = read + rdLen
  BY Numbers DEF IInv, CompleteRdDma, ReadAfterRelease
<1> DEFINE end == IF Inverted(write, read) THEN last ELSE write
<1>4. /\ end \in Index /\ read \in 0 .. end /\ read # end /\ Linked(header, read, end)
      /\ read' = read + HDR + header[read] /\ read' > read /\ read' <= end /\ read' \in Nat
  <2>1. /\ end \in Index /\ read < end /\ Linked(header, read, end)
        /\ rdLen = HDR + header[read]
        /\ read' \in Nat /\ read' > read /\ read' <= end
    BY <1>1, <1>3, TakenFrame
  <2>2. read \in 0 .. N - 1
    BY <1>2, <2>1 DEF Index
  <2>3. header[read] \in Nat /\ HDR = 2
    BY <2>2, Numbers DEF IInv
  <2> QED BY <1>2, <1>3, <2>1, <2>3
<1>5. Inverted(write, read)' <=> Inverted(write, read)
  BY <1>1, <1>2, <1>4 DEF Inverted
<1> DEFINE rest == FramesBetween(header, read', end)
<1>6. /\ rest \in Seq(FrameLengths) /\ header[read] \in FrameLengths
      /\ FramesBetween(header, read, end) = <<header[read]>> \o rest
      /\ FramesBetween(header, read, end) # <<>>
      /\ Tail(FramesBetween(header, read, end)) = rest
  BY <1>2, <1>4, FirstFrame
<1>7. Frames' = Tail(Frames)
  <2>1. CASE Inverted(write, read)
    <3> DEFINE g == FramesBetween(header, 0, write)
    <3>1. Frames = (<<header[read]>> \o rest) \o g /\ g \in Seq(FrameLengths)
      BY <1>6, <2>1, Pieces
    <3>2. Frames' = rest \o g
      BY <1>1, <1>5, <2>1 DEF Frames, Inverted
    <3> HIDE DEF rest, g
    <3>3. <<header[read]>> \in Seq(FrameLengths)
      BY <1>6
    <3>4. Frames = <<header[read]>> \o (rest \o g)
      BY <1>6, <3>1, <3>3, ConcatAssociative
    <3>5. rest \o g \in Seq(FrameLengths)
      BY <1>6, <3>1, ConcatProperties
    <3>6. Tail(<<header[read]>> \o (rest \o g)) = rest \o g
      BY <1>6, <3>5
    <3> QED BY <3>2, <3>4, <3>6
  <2>2. CASE ~Inverted(write, read)
    <3>1. Frames = FramesBetween(header, read, end)
      BY <2>2, Pieces
    <3>2. Frames' = rest
      BY <1>1, <1>5, <2>2 DEF Frames, Inverted
    <3> QED BY <1>6, <3>1, <3>2
  <2> QED BY <2>1, <2>2
<1>8. unresolved' = unresolved
  BY <1>1, <1>5 DEF unresolved
<1> QED BY <1>1, <1>7, <1>8 DEF unresolved, Abstract!PipeNext, Abstract!CompleteRd,
           Abstract!IDLE, Abstract!BUSY

\* A frame that is committed is the last of the pipe; nothing else happens to the frames.
LEMMA CommitFrames ==
  ASSUME IInv, NEW total, Committed(total)
  PROVE  /\ total = 0 => Frames' = Frames
         /\ total # 0 => Frames' = Append(Frames, header'[reserve - wrLen])
<1> DEFINE start == reserve - wrLen
           f == header'[start]
<1>1. /\ N \in Nat /\ HDR = 2 /\ read \in Nat /\ write \in Index /\ last \in Index
      /\ write \in Nat /\ last \in Nat
      /\ header \in Headers /\ header' \in Headers /\ read' = read
      /\ reserve \in Nat /\ reserve <= N
  BY Numbers DEF IInv, Committed
<1>2. /\ write' = start + total /\ total \in Nat /\ start \in 0 .. N - 1 /\ start + total <= reserve
      /\ start \in Index /\ start \in Nat
  <2>1. /\ write' = start + total /\ total \in Nat /\ start \in 0 .. N - 1 /\ write' <= reserve
    BY CommitMoves
  <2> QED BY <1>1, <2>1 DEF Index
<1>3. \/ start = write /\ Inverted(write, read) /\ reserve < read /\ last' = last
      \/ start = write /\ ~Inverted(write, read)
      \/ start = 0 /\ ~Inverted(write, read) /\ reserve < read /\ last' = write
  BY CommitMoves
<1>4. total # 0 => total = HDR + f
  BY DEF Committed
<1>5. f \in FrameLengths /\ f \in Nat
  BY <1>1, <1>2, PipeAssumption DEF Headers, FrameLengths
<1> HIDE DEF start, f
\* The piece that ends at the grant ...
<1>6. ASSUME NEW a \in 0 .. start, Linked(header, a, start)
      PROVE  /\ total = 0 => FramesBetween(header', a, write') = FramesBetween(header, a, start)
             /\ total # 0 => FramesBetween(header', a, write')
                               = Append(FramesBetween(header, a, start), f)
  <2>1. \A i \in a .. start - 1 : i \in 0 .. N - 1 /\ i # start
    BY <1>1, <1>2
  <2>2. \A i \in a .. start - 1 : header'[i] = header[i]
    BY <2>1 DEF Committed, start
  <2>3. CASE total = 0
    <3>1. write' = start
      BY <1>2, <2>3
    <3> QED BY <1>1, <1>2, <1>6, <2>2, <2>3, <3>1, FramesSame
  <2>4. CASE total # 0
    <3>1. write' = start + HDR + header'[start] /\ start + HDR + header'[start] <= N /\ start < N
      BY <1>1, <1>2, <1>4, <1>5, <2>4 DEF f
    <3>2. FramesBetween(header', a, start + HDR + header'[start])
            = Append(FramesBetween(header, a, start), header'[start])
      BY <1>1, <1>2, <1>6, <2>2, <3>1, FramesLonger
    <3> QED BY <2>4, <3>1, <3>2 DEF f
  <2> QED BY <2>3, <2>4
\* ... and the one without it.
<1>7. ASSUME NEW a \in Nat, NEW b \in Index, a \in 0 .. b, Linked(header, a, b), start < a
      PROVE  FramesBetween(header', a, b) = FramesBetween(header, a, b)
  <2>1. \A i \in a .. b - 1 : header'[i] = header[i]
    BY <1>7, PieceStays DEF start
  <2> QED BY <1>1, <1>7, <2>1, FramesSame
<1>8. CASE start = write /\ Inverted(write, read) /\ reserve < read /\ last' = last
  <2> DEFINE p == FramesBetween(header, read, last)
             q == FramesBetween(header, 0, write)
  <2>1. /\ Frames = p \o q /\ p \in Seq(FrameLengths) /\ q \in Seq(FrameLengths)
        /\ read \in 0 .. last /\ Linked(header, read, last) /\ Linked(header, 0, write)
        /\ 0 \in 0 .. write
    BY <1>8, Pieces
  <2>2. start < read
    BY <1>1, <1>8 DEF Inverted
  <2>3. FramesBetween(header', read, last) = p
    BY <1>1, <1>7, <2>1, <2>2
  <2>4. /\ total = 0 => FramesBetween(header', 0, write') = q
        /\ total # 0 => FramesBetween(header', 0, write') = Append(q, f)
    BY <1>6, <1>8, <2>1
  <2>5. Inverted(write, read)'
    BY <1>1, <1>2, <1>8 DEF Inverted
  <2>6. Frames' = p \o FramesBetween(header', 0, write')
    BY <1>1, <1>8, <2>3, <2>5 DEF Frames
  <2> HIDE DEF p, q
  <2>7. p \o Append(q, f) = Append(p \o q, f)
    BY <1>5, <2>1
  <2> QED BY <2>1, <2>4, <2>6, <2>7 DEF f, start
<1>9. CASE start = write /\ ~Inverted(write, read)
  <2>1. Frames = FramesBetween(header, read, write) /\ read \in 0 .. write
        /\ Linked(header, read, write)
    BY <1>9, Pieces
  <2>2. ~Inverted(write, read)'
    BY <1>1, <1>2, <1>9, <2>1 DEF Inverted
  <2>3. Frames' = FramesBetween(header', read, write')
    BY <1>1, <2>2 DEF Frames
  <2> QED BY <1>6, <1>9, <2>1, <2>3 DEF f, start
<1>10. CASE start = 0 /\ ~Inverted(write, read) /\ reserve < read /\ last' = write
  <2> DEFINE p == FramesBetween(header, read, write)
  <2>1. Frames = p /\ p \in Seq(FrameLengths) /\ read \in 0 .. write /\ Linked(header, read, write)
    BY <1>10, Pieces
  <2>2. start < read
    BY <1>1, <1>10
  <2>3. FramesBetween(header', read, write) = p
    BY <1>1, <1>7, <2>1, <2>2
  <2>4. /\ total = 0 => FramesBetween(header', 0, write') = <<>>
        /\ total # 0 => FramesBetween(header', 0, write') = Append(<<>>, f)
    <3>1. 0 \in 0 .. start /\ Linked(header, 0, start) /\ FramesBetween(header, 0, start) = <<>>
      BY <1>1, <1>2, <1>10, LinkedEmpty, FramesNone
    <3> QED BY <1>6, <3>1
  <2>5. Inverted(write, read)'
    BY <1>1, <1>2, <1>10 DEF Inverted
  <2>6. Frames' = p \o FramesBetween(header', 0, write')
    BY <1>1, <1>10, <2>3, <2>5 DEF Frames
  <2> HIDE DEF p
  <2>7. p \o <<>> = p /\ p \o Append(<<>>, f) = Append(p, f)
    BY <1>5, <2>1
  <2> QED BY <2>1, <2>4, <2>6, <2>7 DEF f, start
<1> QED BY <1>3, <1>8, <1>9, <1>10

LEMMA CompleteWrPipe ==
  ASSUME IInv, NEW used \in 0 .. MaxLen + 1, CompleteWrDma(used)
  PROVE  Abstract!PipeNext
<1> DEFINE f == CutToGrant(used)
           total == HDR + f
<1>1. Committed(total) /\ f \in FrameLengths /\ header'[reserve - wrLen] = f
  BY CompleteCommits
<1> HIDE DEF f
<1>2. total \in Nat /\ total >= 2
  BY <1>1, PipeAssumption DEF FrameLengths, HDR
<1> HIDE DEF total
<1>3. Frames' = Append(Frames, f)
  <2>1. total # 0
    BY <1>2
  <2> QED BY <1>1, <2>1, CommitFrames
<1>4. write' # 0
  <2>1. write' = reserve - wrLen + total /\ reserve - wrLen \in 0 .. N - 1
    BY <1>1, CommitMoves
  <2> QED BY <1>2, <2>1, NAssumption
<1>5. (Inverted(write, read) /\ write = 0)' = FALSE
  BY <1>4
<1>6. wrState = "BUSY" /\ wrState' = "IDLE" /\ rdState' = rdState
  BY DEF CompleteWrDma, rdVars
<1> QED BY <1>1, <1>3, <1>5, <1>6 DEF Abstract!PipeNext, Abstract!CompleteWr,
           Abstract!IDLE, Abstract!BUSY

LEMMA AbortWrPipe == IInv /\ AbortWrDma => Abstract!PipeNext
<1> SUFFICES ASSUME IInv, AbortWrDma PROVE Abstract!PipeNext
  OBVIOUS
<1>1. Committed(0) /\ header' = header /\ read' = read
  BY AbortCommits DEF AbortWrDma
<1>2. Frames' = Frames
  BY <1>1, CommitFrames
<1>3. wrState = "BUSY" /\ wrState' = "IDLE" /\ rdState' = rdState
  BY DEF AbortWrDma, rdVars
<1>4. unresolved' \in {unresolved, TRUE}
  <2>1. write \in Nat /\ read \in Nat /\ reserve \in Nat
    BY Numbers DEF IInv
  <2>2. /\ write' = reserve - wrLen + 0 /\ write' <= reserve /\ reserve - wrLen \in 0 .. N - 1
        /\ \/ reserve - wrLen = write
           \/ reserve - wrLen = 0 /\ reserve < read
    BY <1>1, CommitMoves
  <2>3. CASE reserve - wrLen = write
    <3>1. write' = write
      BY <2>1, <2>2, <2>3
    <3> QED BY <1>1, <3>1 DEF unresolved, Inverted
  <2>4. CASE reserve - wrLen = 0 /\ reserve < read
    <3>1. write' = 0 /\ read' = read /\ 0 < read
      BY <1>1, <2>1, <2>2, <2>4
    <3> QED BY <3>1 DEF unresolved, Inverted
  <2> QED BY <2>2, <2>3, <2>4
<1> DEFINE P == [frames |-> Frames, wr |-> wrState, rd |-> rdState, unresolved |-> unresolved]
<1>5. P' \in Abstract!AbortWr(P)
  <2>1. P' = [frames |-> Frames, wr |-> "IDLE", rd |-> rdState, unresolved |-> unresolved']
        /\ P = [frames |-> Frames, wr |-> "BUSY", rd |-> rdState, unresolved |-> unresolved]
    BY <1>2, <1>3
  <2> QED BY <1>4, <2>1, AbortRecord, Zenon
<1> QED BY <1>5, Zenon DEF unresolved, Abstract!PipeNext

LEMMA StepPipe ==
  IInv /\ [Next]_vars =>
    \/ Abstract!PipeNext
    \/ Frames' = Frames /\ unresolved' = unresolved /\ UNCHANGED <<wrState, rdState>>
<1> DEFINE Stutter == Frames' = Frames /\ unresolved' = unresolved /\ UNCHANGED <<wrState, rdState>>
<1> SUFFICES ASSUME IInv, [Next]_vars PROVE Abstract!PipeNext \/ Stutter
  OBVIOUS
<1>1. CASE ServiceWrBegin \/ ServiceWrLoad \/ ServiceWrRefused \/ ServiceRdBegin \/ ServiceRdLoad
  <2>1. UNCHANGED <<write, read, last, header>> /\ UNCHANGED <<wrState, rdState>>
    BY <1>1 DEF ServiceWrBegin, ServiceWrLoad, ServiceWrRefused, ServiceRdBegin, ServiceRdLoad,
                ringVars, wrVars, rdVars
  <2> QED BY <2>1, FramesStay
<1>2. CASE ServiceWrPublish \/ ServiceRdPublish \/ ServiceRdNone
  <2> HIDE DEF Stutter
  <2> QED BY <1>2, WrPublishPipe, RdPublishPipe, RdNonePipe DEF Stutter
<1>3. CASE Handlers
  BY <1>3, PrepWrPipe, PrepRdPipe, CompleteWrPipe, AbortWrPipe, CompleteRdPipe, AbortRdPipe
     DEF Handlers
<1>4. CASE UNCHANGED vars
  <2>1. UNCHANGED <<write, read, last, header>> /\ UNCHANGED <<wrState, rdState>>
    BY <1>4 DEF vars, ringVars, wrVars, rdVars
  <2> QED BY <2>1, FramesStay
<1> QED BY <1>1, <1>2, <1>3, <1>4 DEF Next, Main

\* Pipe.ImplementsPipe: with the main loop preempted anywhere in its calls, the ring and the
\* slots are a queue of whole frames, each delivered once and in order.
THEOREM PipeRefinement == Spec => ImplementsPipe
<1>1. IInv /\ [Next]_vars =>
        [Abstract!PipeNext]_([frames |-> Frames, wr |-> wrState, rd |-> rdState,
                              unresolved |-> Inverted(write, read) /\ write = 0])
  <2> SUFFICES ASSUME IInv, [Next]_vars, ~Abstract!PipeNext
               PROVE  UNCHANGED [frames |-> Frames, wr |-> wrState, rd |-> rdState,
                                 unresolved |-> Inverted(write, read) /\ write = 0]
    OBVIOUS
  <2>1. Frames' = Frames /\ unresolved' = unresolved /\ UNCHANGED <<wrState, rdState>>
    BY StepPipe
  <2> QED BY <2>1 DEF unresolved
<1> QED BY <1>1, InitPipe, PipeInvariant, PTL DEF Spec, ImplementsPipe, Abstract!PipeSpec

\* Pipe.RefusedOnlyWhenInUse: when twice a grant fits the ring (1024 and 258 bytes in the
\* firmware), a grant is refused only while the pipe holds a frame or a dropped wrap.
THEOREM RefusedOnlyInUse ==
  ASSUME 2 * (HDR + MaxLen) <= N
  PROVE  Spec => RefusedOnlyWhenInUse
<1> DEFINE sz == HDR + MaxLen
           Refused == ServiceWrLoad /\ ~ExactGrant(write, read, sz).ok
           InUse == Frames # <<>> \/ (Inverted(write, read) /\ write = 0)
<1>1. ASSUME IInv, ~ExactGrant(write, read, sz).ok PROVE InUse
  <2> SUFFICES ASSUME Frames = <<>> PROVE Inverted(write, read) /\ write = 0
    OBVIOUS
  <2>1. /\ N \in Nat /\ sz \in Nat /\ 2 * sz <= N /\ write \in Nat /\ read \in Nat
        /\ write \in Index /\ last \in Index /\ header \in Headers
    BY <1>1, Numbers DEF IInv
  <2>2. CASE Inverted(write, read)
    <3>1. FramesBetween(header, 0, write) = <<>>
      <4> DEFINE p == FramesBetween(header, read, last)
                 q == FramesBetween(header, 0, write)
      <4>1. p \o q = <<>> /\ p \in Seq(FrameLengths) /\ q \in Seq(FrameLengths)
        BY <1>1, <2>2, Pieces
      <4> HIDE DEF p, q
      <4>2. Len(p \o q) = Len(p) + Len(q) /\ Len(p) \in Nat /\ Len(q) \in Nat
        BY <4>1, ConcatProperties
      <4>3. Len(q) = 0
        BY <4>1, <4>2
      <4> QED BY <4>1, <4>3 DEF q
    <3>2. 0 \in 0 .. write /\ Linked(header, 0, write)
      BY <1>1, <2>2, Pieces
    <3> QED BY <2>1, <2>2, <3>1, <3>2, FirstFrame
  <2>3. CASE ~Inverted(write, read)
    <3>1. FramesBetween(header, read, write) = <<>> /\ read \in 0 .. write
          /\ Linked(header, read, write)
      BY <1>1, <2>3, Pieces
    <3>2. read = write
      BY <2>1, <3>1, FirstFrame
    <3> HIDE DEF sz
    <3>3. write + sz <= N
      <4>1. ~(write + sz > N /\ sz < read)
        BY <1>1, <2>1, <2>3, <3>2 DEF ExactGrant, GrantAt, Inverted
      <4> QED BY <2>1, <3>2, <4>1
    <3> QED BY <1>1, <2>1, <2>3, <3>2, <3>3 DEF ExactGrant, GrantAt, Inverted
  <2> QED BY <2>2, <2>3
<1>2. IInv => (Refused => InUse)
  <2> HIDE DEF InUse
  <2> QED BY <1>1
<1>3. IInv /\ [Next]_vars => [Refused => InUse]_vars
  BY <1>2
<1> QED BY <1>3, PipeInvariant, PTL DEF Spec, RefusedOnlyWhenInUse
=============================================================================
