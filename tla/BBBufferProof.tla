--------------------------- MODULE BBBufferProof ---------------------------
(***************************************************************************)
(* IndInv is inductive for every buffer size, every set of byte values and  *)
(* every set of requests; what follows from it; and the ring implements the *)
(* queue of bytes it promises (ByteFifo).                                   *)
(***************************************************************************)
EXTENDS BBBuffer, SequenceTheorems, TLAPS

\* A grant that is given lies in the buffer, and either continues at `write`
\* below the reader or starts at 0 below a reader that is ahead of it.
LEMMA ExactGrantBounds ==
  ASSUME NEW w \in Index, NEW r \in Index, NEW sz \in Nat, ExactGrant(w, r, sz).ok
  PROVE  LET g == ExactGrant(w, r, sz) IN
         /\ g.start \in Index /\ g.len \in Index /\ g.start + g.len <= N
         /\ \/ g.start = w /\ (w < r => w + g.len < r)
            \/ g.start = 0 /\ r <= w /\ g.len < r
BY NAssumption, SMT DEF ExactGrant, GrantAt, NoGrant, Index, Inverted

\* The same of what grant_max_remaining gives.
LEMMA MaxRemainingGrantBounds ==
  ASSUME NEW w \in Index, NEW r \in Index, NEW sz \in Nat, MaxRemainingGrant(w, r, sz).ok
  PROVE  LET g == MaxRemainingGrant(w, r, sz) IN
         /\ g.start \in Index /\ g.len \in Index /\ g.start + g.len <= N
         /\ \/ g.start = w /\ (w < r => w + g.len < r)
            \/ g.start = 0 /\ r <= w /\ g.len < r
BY NAssumption, SMT DEF MaxRemainingGrant, GrantAt, NoGrant, Index, Inverted, Smaller

\* BBBuffer::new and init leave a ring that satisfies IndInv.
LEMMA InitEstablishes == Init => IndInv
<1> SUFFICES ASSUME Init PROVE IndInv
  OBVIOUS
<1>1. readInProgress \in BOOLEAN /\ writeInProgress \in BOOLEAN
  BY Zenon DEF Init
<1>2. buf \in [0 .. N - 1 -> Byte]
  BY BytesAssumption, SMT DEF Init
<1>3. IndexInv /\ ProducerInv /\ ConsumerInv
  BY SMT DEF Init, IndexInv, ProducerInv, ConsumerInv, Inverted
<1>4. TypeOK
  <2>1. 0 \in Index
    BY NAssumption, SMT DEF Index
  <2> QED BY <1>1, <1>2, <2>1 DEF Init, TypeOK, Calls
<1> QED BY <1>3, <1>4 DEF IndInv

\* Giving a grant keeps it, although `read` may have moved since it was loaded.
LEMMA GrantOkKeeps == IndInv /\ GrantOk => IndInv'
<1> SUFFICES ASSUME IndInv, GrantOk PROVE IndInv'
  OBVIOUS
<1>1. /\ Decision.start \in Index /\ Decision.len \in Index
      /\ Decision.start + Decision.len <= N
      /\ \/ Decision.start = write /\ (write < seenRead => write + Decision.len < seenRead)
         \/ Decision.start = 0 /\ seenRead <= write /\ Decision.len < seenRead
  <2>1. write \in Index /\ seenRead \in Index /\ want \in Nat
    BY DEF IndInv, TypeOK
  <2>2. CASE call = "grant_exact"
    BY <2>1, <2>2, ExactGrantBounds DEF Decision, GrantOk
  <2>3. CASE call # "grant_exact"
    BY <2>1, <2>3, MaxRemainingGrantBounds DEF Decision, GrantOk
  <2> QED BY <2>2, <2>3
<1>2. TypeOK'
  BY <1>1, NAssumption, SMT DEF GrantOk, consumerVars, IndInv, TypeOK, Index, Calls
<1>3. ProducerInv'
  <2>1. (Straight \/ Wrapped)'
    BY <1>1, SMT DEF GrantOk, consumerVars, IndInv, TypeOK, ProducerInv, SeenReadInv,
                     Straight, Wrapped, Inverted, Index
  <2> QED BY <1>1, <2>1, SMT DEF GrantOk, consumerVars, IndInv, TypeOK, ProducerInv, Index
<1>4. IndexInv' /\ ConsumerInv'
  BY DEF GrantOk, consumerVars, IndInv, IndexInv, ConsumerInv, SeenWriteInv, HeldInv,
         Inverted
<1> QED BY <1>2, <1>3, <1>4 DEF IndInv

\* Writing through the slice keeps it.
LEMMA WriteByteKeeps ==
  ASSUME IndInv, NEW i \in 0 .. N - 1, NEW b \in Byte, WriteByte(i, b)
  PROVE  IndInv'
<1>1. buf' \in [0 .. N - 1 -> Byte]
  BY DEF WriteByte, IndInv, TypeOK
<1> QED
  BY <1>1
  DEF WriteByte, producerVars, consumerVars, IndInv, TypeOK, IndexInv, ProducerInv,
      SeenReadInv, Straight, Wrapped, ConsumerInv, SeenWriteInv, HeldInv, Inverted

\* The store of `last` in commit_inner keeps it.
LEMMA CommitStoreLastKeeps == IndInv /\ CommitStoreLast => IndInv'
<1> SUFFICES ASSUME IndInv, CommitStoreLast PROVE IndInv'
  OBVIOUS
<1> USE NAssumption DEF CommitStoreLast, consumerVars, IndInv, Inverted, Index,
                        LastAfterCommit
\* Where `last` goes: it stays while the ring is inverted, it never falls
\* below `write`, and after a wrap it marks the end of what was written.
<1>1. /\ last' \in Index
      /\ Inverted(write, read) => last' = last
      /\ ~Inverted(write, read) => write <= last'
      /\ Straight => reserve <= last'
      /\ Wrapped => last' = write
  BY SMT DEF TypeOK, IndexInv, ProducerInv, Straight, Wrapped
<1>2. TypeOK' /\ IndexInv'
  BY <1>1, SMT DEF TypeOK, IndexInv
<1>3. ProducerInv'
  BY <1>1, SMT DEF TypeOK, ProducerInv, Straight, Wrapped
<1>4. ConsumerInv'
  BY <1>1, SMT DEF TypeOK, ConsumerInv, SeenWriteInv, HeldInv
<1> QED BY <1>2, <1>3, <1>4

\* The store of `write` in commit_inner keeps it.
LEMMA CommitStoreWriteKeeps == IndInv /\ CommitStoreWrite => IndInv'
<1> SUFFICES ASSUME IndInv, CommitStoreWrite PROVE IndInv'
  OBVIOUS
<1> USE NAssumption DEF CommitStoreWrite, consumerVars, IndInv, Inverted, Index
<1>1. writeInProgress' \in BOOLEAN
  BY Zenon
<1>2. TypeOK' /\ ProducerInv'
  BY <1>1, SMT DEF TypeOK, ProducerInv, Calls
\* The store of `write` either moves it up, on the same side of `read`, or
\* turns a ring that was not inverted into one whose end is the old `write`.
<1>3. \/ write <= write' /\ Inverted(write, read) /\ write' < read
      \/ write <= write' /\ ~Inverted(write, read) /\ write' <= last
      \/ ~Inverted(write, read) /\ write' < read /\ last = write
  BY SMT DEF TypeOK, ProducerInv, Straight, Wrapped
<1>4. IndexInv' /\ ConsumerInv'
  BY <1>3, SMT DEF TypeOK, IndexInv, ConsumerInv, SeenWriteInv, HeldInv
<1> QED BY <1>2, <1>4

\* What a call of read or split_read finds, and where it leaves `read`: at its
\* old place, or at the start of a ring that is thereby not inverted any more.
LEMMA ResolveBounds ==
  ASSUME IndInv, rpc = "resolve"
  PROVE  /\ \/ Resolved = read /\ ~(seenWrite < read /\ read = last)
            \/ Resolved = 0 /\ Inverted(write, read) /\ read = last
         /\ Found \in Index
         /\ IF write < Resolved THEN Resolved + Found <= last
                                ELSE Resolved + Found <= write
         /\ SecondLen(seenWrite, Resolved) \in Index
         /\ SecondLen(seenWrite, Resolved) > 0 =>
              /\ write < Resolved
              /\ Resolved + Found = last
              /\ SecondLen(seenWrite, Resolved) <= write
BY NAssumption, SMT
   DEF IndInv, TypeOK, IndexInv, ConsumerInv, SeenWriteInv, Inverted, Index, Resolved,
       ResolvedRead, Found, FirstLen, SecondLen

\* The producer keeps what it knows when `read` stays, advances over what the
\* consumer may take, or leaves an inverted ring.
LEMMA ReadStoreKeepsProducer ==
  ASSUME IndInv, read' \in Index,
         \/ read <= read' /\ (Inverted(write, read) => read' <= last)
                          /\ (~Inverted(write, read) => read' <= write)
         \/ Inverted(write, read) /\ read' <= write,
         UNCHANGED <<write, last, producerVars>>
  PROVE  IndexInv' /\ ProducerInv'
BY NAssumption, SMT
   DEF producerVars, IndInv, TypeOK, IndexInv, ProducerInv, SeenReadInv, Straight,
       Wrapped, Inverted, Index

\* Giving a read grant keeps it, although `write` and `last` may have moved.
LEMMA ReadOkKeeps == IndInv /\ ReadOk => IndInv'
<1> SUFFICES ASSUME IndInv, ReadOk PROVE IndInv'
  OBVIOUS
<1>1. rpc = "resolve" /\ read' = Resolved
  BY DEF ReadOk
<1>2. TypeOK'
  BY <1>1, ResolveBounds, NAssumption, SMT
     DEF ReadOk, producerVars, IndInv, TypeOK, Index
<1>3. IndexInv' /\ ProducerInv'
  <2>1. \/ read <= read' /\ (Inverted(write, read) => read' <= last)
                          /\ (~Inverted(write, read) => read' <= write)
        \/ Inverted(write, read) /\ read' <= write
    BY <1>1, ResolveBounds, SMT DEF IndInv, TypeOK, IndexInv, Inverted, Index
  <2> QED BY <2>1, <1>2, ReadStoreKeepsProducer DEF TypeOK, ReadOk
<1>4. ConsumerInv'
  BY <1>1, ResolveBounds, SMT DEF ReadOk, IndInv, TypeOK, ConsumerInv, HeldInv, Inverted, Index
<1> QED BY <1>2, <1>3, <1>4 DEF IndInv

\* Finding nothing to read, with the way back to 0 it may include, keeps it.
LEMMA ReadEmptyKeeps == IndInv /\ ReadEmpty => IndInv'
<1> SUFFICES ASSUME IndInv, ReadEmpty PROVE IndInv'
  OBVIOUS
<1>1. rpc = "resolve" /\ read' = Resolved
  BY DEF ReadEmpty
<1>2. readInProgress' \in BOOLEAN /\ split' \in BOOLEAN
  BY Zenon DEF ReadEmpty
<1>3. TypeOK'
  BY <1>1, <1>2, ResolveBounds, NAssumption, SMT
     DEF ReadEmpty, producerVars, IndInv, TypeOK, Index
<1>4. IndexInv' /\ ProducerInv'
  <2>1. \/ read <= read' /\ (Inverted(write, read) => read' <= last)
                          /\ (~Inverted(write, read) => read' <= write)
        \/ Inverted(write, read) /\ read' <= write
    BY <1>1, ResolveBounds, SMT DEF IndInv, TypeOK, IndexInv, Inverted, Index
  <2> QED BY <2>1, <1>3, ReadStoreKeepsProducer DEF TypeOK, ReadEmpty
<1>5. ConsumerInv'
  BY SMT DEF ReadEmpty, ConsumerInv
<1> QED BY <1>3, <1>4, <1>5 DEF IndInv

\* Releasing a read grant keeps it.
LEMMA ReleaseGrantKeeps ==
  ASSUME IndInv, NEW used \in Index, ReleaseGrant(used)
  PROVE  IndInv'
<1>1. /\ read' \in Index
      /\ \/ read <= read' /\ (Inverted(write, read) => read' <= last)
                          /\ (~Inverted(write, read) => read' <= write)
         \/ Inverted(write, read) /\ read' <= write
  BY NAssumption, SMT
     DEF ReleaseGrant, IndInv, TypeOK, IndexInv, ConsumerInv, HeldInv, Inverted, Index,
         ReadAfterRelease, Smaller
<1>2. readInProgress' \in BOOLEAN /\ split' \in BOOLEAN
  BY Zenon DEF ReleaseGrant
<1>3. TypeOK'
  BY <1>1, <1>2, NAssumption, SMT DEF ReleaseGrant, producerVars, IndInv, TypeOK, Index
<1>4. IndexInv' /\ ProducerInv'
  BY <1>1, ReadStoreKeepsProducer DEF ReleaseGrant
<1>5. ConsumerInv'
  BY SMT DEF ReleaseGrant, ConsumerInv
<1> QED BY <1>3, <1>4, <1>5 DEF IndInv

\* The steps that change one side's own locations keep it, whatever size is asked for
\* and however much is committed.
LEMMA GrantBeginKeeps ==
  ASSUME IndInv, NEW c \in Calls, NEW sz \in Nat, GrantBegin(c, sz)
  PROVE  IndInv'
BY SMT
   DEF GrantBegin, consumerVars, IndInv, TypeOK, IndexInv, ProducerInv, ConsumerInv,
       SeenWriteInv, HeldInv, Inverted, Index, Calls

LEMMA GrantLoadReadKeeps == IndInv /\ GrantLoadRead => IndInv'
BY SMT
   DEF GrantLoadRead, consumerVars, IndInv, TypeOK, IndexInv, ProducerInv, ConsumerInv,
       SeenReadInv, SeenWriteInv, HeldInv, Inverted, Index, Calls

LEMMA GrantRefusedKeeps == IndInv /\ GrantRefused => IndInv'
<1> SUFFICES ASSUME IndInv, GrantRefused PROVE IndInv'
  OBVIOUS
<1>1. writeInProgress' \in BOOLEAN
  BY Zenon DEF GrantRefused
<1> QED
  BY <1>1, NAssumption, SMT
  DEF GrantRefused, consumerVars, IndInv, TypeOK, IndexInv, ProducerInv, ConsumerInv,
      SeenWriteInv, HeldInv, Inverted, Index, Calls

LEMMA CommitBeginKeeps ==
  ASSUME IndInv, NEW used \in Index, CommitBegin(used)
  PROVE  IndInv'
BY NAssumption, SMT
   DEF CommitBegin, consumerVars, IndInv, TypeOK, IndexInv, ProducerInv, Straight, Wrapped,
       ConsumerInv, SeenWriteInv, HeldInv, Inverted, Index, Smaller

LEMMA ReadBeginKeeps ==
  ASSUME IndInv, NEW two \in BOOLEAN, ReadBegin(two)
  PROVE  IndInv'
BY SMT
   DEF ReadBegin, producerVars, IndInv, TypeOK, IndexInv, ProducerInv, SeenReadInv, Straight,
       Wrapped, ConsumerInv, SeenWriteInv, HeldInv, Inverted, Index

LEMMA ReadLoadLastKeeps == IndInv /\ ReadLoadLast => IndInv'
BY SMT
   DEF ReadLoadLast, producerVars, IndInv, TypeOK, IndexInv, ProducerInv, SeenReadInv,
       Straight, Wrapped, ConsumerInv, SeenWriteInv, HeldInv, Inverted, Index

LEMMA StutterKeeps == IndInv /\ UNCHANGED vars => IndInv'
BY DEF vars, producerVars, consumerVars, IndInv, TypeOK, IndexInv, ProducerInv, SeenReadInv,
       Straight, Wrapped, ConsumerInv, SeenWriteInv, HeldInv, Inverted

-----------------------------------------------------------------------------
\* IndInv holds in every reachable state, for every N, Byte and Requests.
THEOREM Inductive == Spec => []IndInv
<1>1. Init => IndInv
  BY InitEstablishes
<1>2. IndInv /\ [Next]_vars => IndInv'
  <2> SUFFICES ASSUME IndInv, [Next]_vars PROVE IndInv'
    OBVIOUS
  <2>1. ASSUME NEW c \in Calls, NEW sz \in Requests, GrantBegin(c, sz) PROVE IndInv'
    BY <2>1, RequestsAssumption, GrantBeginKeeps
  <2>2. ASSUME NEW i \in 0 .. N - 1, NEW b \in Byte, WriteByte(i, b) PROVE IndInv'
    BY <2>2, WriteByteKeeps
  <2>3. ASSUME NEW used \in Index, CommitBegin(used) PROVE IndInv'
    BY <2>3, CommitBeginKeeps
  <2>4. ASSUME NEW two \in BOOLEAN, ReadBegin(two) PROVE IndInv'
    BY <2>4, ReadBeginKeeps
  <2>5. ASSUME NEW used \in Index, ReleaseGrant(used) PROVE IndInv'
    BY <2>5, ReleaseGrantKeeps
  <2> QED
    BY <2>1, <2>2, <2>3, <2>4, <2>5, GrantLoadReadKeeps, GrantOkKeeps, GrantRefusedKeeps,
       CommitStoreLastKeeps, CommitStoreWriteKeeps, ReadLoadLastKeeps, ReadOkKeeps,
       ReadEmptyKeeps, StutterKeeps DEF Next, Producer, Consumer
<1> QED BY <1>1, <1>2, PTL DEF Spec

\* What IndInv says of the two sides' bytes.
LEMMA DisjointGrants == IndInv => GrantsDisjoint
BY NAssumption, SMT
   DEF IndInv, TypeOK, IndexInv, ProducerInv, Straight, Wrapped, GrantsDisjoint,
       WriteGrant, Readable, Inverted, Index

\* The producer's slice lies in the buffer and apart from all the consumer may
\* read, at every moment of a grant and of its commit.
THEOREM WritersAreDisjoint == Spec => []GrantsDisjoint
BY DisjointGrants, Inductive, PTL

\* The consumer's slices hold only bytes that were committed.
THEOREM ReadersSeeCommitted == Spec => []ReadGrantCommitted
<1>1. IndInv => ReadGrantCommitted
  BY NAssumption, SMT
     DEF IndInv, TypeOK, IndexInv, ConsumerInv, HeldInv, ReadGrantCommitted, ReadGrant,
         Readable, Inverted, Index
<1> QED BY <1>1, Inductive, PTL

\* Every index stays in the buffer and every location keeps its type.
THEOREM TypeCorrect == Spec => []TypeOK
BY Inductive, PTL DEF IndInv

-----------------------------------------------------------------------------
\* The index the consumer stores only grows, but for the end of an inverted ring.
THEOREM ReaderMovesForward == Spec => ReadMovesForward
<1> DEFINE Forward ==
      \/ read' >= read
      \/ read' = 0 /\ Inverted(write, read) /\ read = last
      \/ read' <= rlen2 /\ Inverted(write, read) /\ read + rlen1 = last
<1>1. IndInv /\ [Next]_vars => [Forward]_read
  <2> SUFFICES ASSUME IndInv, [Next]_vars, read' # read PROVE Forward
    OBVIOUS
  <2>1. CASE ReadOk \/ ReadEmpty
    <3>1. rpc = "resolve" /\ read' = Resolved
      BY <2>1 DEF ReadOk, ReadEmpty
    <3> QED BY <3>1, ResolveBounds
  <2>2. ASSUME NEW used \in Index, ReleaseGrant(used) PROVE Forward
    BY <2>2, SMT DEF ReleaseGrant, IndInv, TypeOK, IndexInv, ConsumerInv, HeldInv, Inverted,
                     Index, ReadAfterRelease, Smaller
  <2>3. CASE Producer
    BY <2>3 DEF Producer, GrantBegin, GrantLoadRead, GrantOk, GrantRefused, WriteByte,
                CommitBegin, CommitStoreLast, CommitStoreWrite
  <2>4. CASE (\E two \in BOOLEAN : ReadBegin(two)) \/ ReadLoadLast \/ UNCHANGED vars
    BY <2>4 DEF ReadBegin, ReadLoadLast, vars
  <2> QED BY <2>1, <2>2, <2>3, <2>4 DEF Next, Consumer
<1> QED BY <1>1, Inductive, PTL DEF Spec, ReadMovesForward

\* A grant of grant_max_remaining goes on at `write`, or starts at 0 when `write` has
\* reached the end of the buffer.
WrapsAtTheEnd ==
  call = "grant_max_remaining" /\ wpc \in {"granted", "storeLast", "storeWrite"} =>
    gstart = write \/ write = N

\* Whichever step is taken, it stays so.
LEMMA WrapsKept ==
  ASSUME IndInv, WrapsAtTheEnd, [Next]_vars
  PROVE  WrapsAtTheEnd'
<1>1. CASE GrantOk
  <2>1. call = "grant_max_remaining" => Decision.start = write \/ write = N
    BY <1>1, SMT DEF GrantOk, Decision, MaxRemainingGrant, GrantAt, NoGrant, Inverted, IndInv,
                     TypeOK, Index
  <2> QED BY <1>1, <2>1 DEF GrantOk, WrapsAtTheEnd
<1>2. ASSUME NEW c \in Calls, NEW sz \in Requests, GrantBegin(c, sz) PROVE WrapsAtTheEnd'
  BY <1>2 DEF GrantBegin, WrapsAtTheEnd
<1>3. ASSUME NEW i \in 0 .. N - 1, NEW b \in Byte, WriteByte(i, b) PROVE WrapsAtTheEnd'
  BY <1>3 DEF WriteByte, producerVars, WrapsAtTheEnd
<1>4. ASSUME NEW used \in Index, CommitBegin(used) PROVE WrapsAtTheEnd'
  BY <1>4 DEF CommitBegin, WrapsAtTheEnd
<1>5. CASE GrantLoadRead \/ GrantRefused \/ CommitStoreLast \/ CommitStoreWrite
  BY <1>5 DEF GrantLoadRead, GrantRefused, CommitStoreLast, CommitStoreWrite, WrapsAtTheEnd
<1>6. CASE Consumer \/ UNCHANGED vars
  <2>1. UNCHANGED <<write, producerVars>>
    BY <1>6 DEF Consumer, ReadBegin, ReadLoadLast, ReadOk, ReadEmpty, ReleaseGrant, vars
  <2> QED BY <2>1 DEF producerVars, WrapsAtTheEnd
<1> QED BY <1>1, <1>2, <1>3, <1>4, <1>5, <1>6 DEF Next, Producer

\* A commit of grant_max_remaining that wraps leaves no byte unused at the end.
THEOREM NothingIsSkipped == Spec => MaxRemainingSkipsNothing
<1> DEFINE Full == call = "grant_max_remaining" /\ write' < write => last = N
<1>1. Init => WrapsAtTheEnd
  BY DEF Init, WrapsAtTheEnd
<1>2. Spec => []WrapsAtTheEnd
  BY <1>1, WrapsKept, Inductive, PTL DEF Spec
<1>3. IndInv /\ WrapsAtTheEnd /\ [Next]_vars => [Full]_write
  <2> SUFFICES ASSUME IndInv, WrapsAtTheEnd, [Next]_vars, write' # write PROVE Full
    OBVIOUS
  <2>1. CASE CommitStoreWrite
    BY <2>1, SMT DEF CommitStoreWrite, WrapsAtTheEnd, IndInv, TypeOK, IndexInv, ProducerInv,
                     Inverted, Index
  <2>2. CASE Consumer \/ UNCHANGED vars
    BY <2>2 DEF Consumer, ReadBegin, ReadLoadLast, ReadOk, ReadEmpty, ReleaseGrant, vars
  <2> QED
    BY <2>1, <2>2 DEF Next, Producer, GrantBegin, GrantLoadRead, GrantOk, GrantRefused,
                      WriteByte, CommitBegin, CommitStoreLast
<1> QED BY <1>2, <1>3, Inductive, PTL DEF Spec, MaxRemainingSkipsNothing
-----------------------------------------------------------------------------
(* The ring implements the queue of bytes: what is queued, staged and seen. *)

\* A function on 1 .. n is a sequence of length n.
LEMMA FunctionIsSeq ==
  ASSUME NEW S, NEW n \in Nat, NEW f \in [1 .. n -> S]
  PROVE  f \in Seq(S) /\ Len(f) = n
<1>1. f \in Seq(S)
  BY SeqDef
<1>2. DOMAIN f = 1 .. Len(f) /\ Len(f) \in Nat
  BY <1>1, LenProperties
<1>3. DOMAIN f = 1 .. n
  OBVIOUS
<1>4. 1 .. n = 1 .. Len(f)
  BY <1>2, <1>3
<1>5. Len(f) = n
  BY <1>2, <1>4, SMT
<1> QED BY <1>1, <1>5

\* Where the i-th byte of the queue lies.
Place(i) ==
  IF Inverted(write, read) /\ read + i > last THEN i - 1 - (last - read) ELSE read + i - 1

QueueIs ==
  /\ UsedLen \in 0 .. N
  /\ Queue \in Seq(Byte) /\ Len(Queue) = UsedLen
  /\ \A i \in 1 .. UsedLen : Queue[i] = buf[Place(i)]

\* Every byte of the queue lies in the buffer, where the consumer may read it.
LEMMA PlaceIsReadable ==
  ASSUME IndInv, NEW i \in 1 .. UsedLen
  PROVE  Place(i) \in Readable /\ Place(i) \in 0 .. N - 1
<1>1. write \in 0 .. N /\ read \in 0 .. N /\ last \in 0 .. N /\ N \in Nat
  BY NAssumption DEF IndInv, TypeOK, Index
<1>2. CASE write < read
  <2>1. read <= last /\ i \in 1 .. (last - read) + write
    BY <1>2 DEF IndInv, IndexInv, UsedLen, Inverted
  <2>2. Readable = (read .. last - 1) \cup (0 .. write - 1)
    BY <1>2 DEF Readable, Inverted
  <2>3. Place(i) = IF read + i > last THEN i - 1 - (last - read) ELSE read + i - 1
    BY <1>2 DEF Place, Inverted
  <2> QED BY <1>1, <1>2, <2>1, <2>2, <2>3, SMT
<1>3. CASE ~(write < read)
  <2>1. i \in 1 .. write - read
    BY <1>3 DEF UsedLen, Inverted
  <2>2. Readable = read .. write - 1
    BY <1>3 DEF Readable, Inverted
  <2>3. Place(i) = read + i - 1
    BY <1>3 DEF Place, Inverted
  <2> QED BY <1>1, <1>3, <2>1, <2>2, <2>3, SMT
<1> QED BY <1>2, <1>3

\* The queue is a sequence of as many bytes as are committed and not released.
LEMMA QueueFacts == IndInv => QueueIs
<1> SUFFICES ASSUME IndInv PROVE QueueIs
  OBVIOUS
<1>1. UsedLen \in 0 .. N
  BY NAssumption, SMT DEF UsedLen, IndInv, TypeOK, IndexInv, Inverted, Index
<1>2. ASSUME NEW i \in 1 .. UsedLen PROVE buf[Place(i)] \in Byte
  BY PlaceIsReadable DEF IndInv, TypeOK
<1>3. Queue = [i \in 1 .. UsedLen |-> buf[Place(i)]]
  BY DEF Queue, Place
<1>4. Queue \in [1 .. UsedLen -> Byte]
  BY <1>2, <1>3
<1> QED BY <1>1, <1>3, <1>4, FunctionIsSeq, NAssumption DEF QueueIs

\* What the producer holds is as long as its grant, and where the grant is.
Holding == wpc \in {"granted", "storeLast", "storeWrite"}

StagedIs ==
  /\ glen \in 0 .. N
  /\ Staged \in Seq(Byte) /\ Len(Staged) = glen
  /\ \A i \in 1 .. glen : Staged[i] = buf[gstart + i - 1]

\* While the producer holds a grant, what is staged is the slice of the grant.
LEMMA StagedFacts == IndInv /\ Holding => StagedIs
<1> SUFFICES ASSUME IndInv, Holding PROVE StagedIs
  OBVIOUS
<1>1. glen \in Nat /\ gstart \in Nat /\ gstart + glen <= N /\ buf \in [0 .. N - 1 -> Byte]
  BY NAssumption, SMT DEF IndInv, TypeOK, ProducerInv, Holding, Index
<1>2. Staged = [i \in 1 .. glen |-> buf[gstart + i - 1]]
  BY DEF Staged, Holding
<1>3. Staged \in [1 .. glen -> Byte]
  <2>1. ASSUME NEW i \in 1 .. glen PROVE buf[gstart + i - 1] \in Byte
    BY <1>1, NAssumption, SMT
  <2> QED BY <1>2, <2>1
<1>4. glen \in 0 .. N
  BY <1>1, NAssumption, SMT
<1> QED BY <1>1, <1>2, <1>3, <1>4, FunctionIsSeq DEF StagedIs

\* What the consumer holds is a non-empty prefix of the queue.
ViewIs ==
  /\ rlen1 + rlen2 \in 1 .. UsedLen
  /\ View \in Seq(Byte) /\ Len(View) = rlen1 + rlen2
  /\ \A i \in 1 .. rlen1 + rlen2 : View[i] = buf[Place(i)]

\* While the consumer holds a grant, its two slices are the front of the queue.
LEMMA ViewFacts == IndInv /\ rpc = "granted" => ViewIs
<1> SUFFICES ASSUME IndInv, rpc = "granted" PROVE ViewIs
  OBVIOUS
<1> DEFINE B(i) == IF i <= rlen1 THEN buf[read + i - 1] ELSE buf[i - 1 - rlen1]
<1>1. rlen1 + rlen2 \in 1 .. UsedLen
  BY NAssumption, SMT DEF UsedLen, IndInv, TypeOK, IndexInv, ConsumerInv, HeldInv, Inverted, Index
<1>2. ASSUME NEW i \in 1 .. rlen1 + rlen2 PROVE B(i) = buf[Place(i)] /\ i \in 1 .. UsedLen
  BY <1>1, NAssumption, SMT DEF Place, UsedLen, IndInv, TypeOK, IndexInv, ConsumerInv, HeldInv,
                          Inverted, Index
<1>3. View = [i \in 1 .. rlen1 + rlen2 |-> B(i)]
  BY DEF View
<1>4. ASSUME NEW i \in 1 .. rlen1 + rlen2 PROVE B(i) \in Byte
  BY <1>2, QueueFacts, ElementOfSeq DEF QueueIs
<1>5. View \in [1 .. rlen1 + rlen2 -> Byte]
  BY <1>3, <1>4
<1>6. rlen1 + rlen2 \in Nat
  BY <1>1, QueueFacts, NAssumption, SMT DEF QueueIs
<1> QED BY <1>1, <1>2, <1>3, <1>5, <1>6, FunctionIsSeq DEF ViewIs

\* The queue stays when each of its bytes does.
LEMMA QueueStays ==
  ASSUME IndInv, IndInv', UsedLen' = UsedLen,
         \A i \in 1 .. UsedLen : (buf[Place(i)])' = buf[Place(i)]
  PROVE  Queue' = Queue
<1>1. QueueIs /\ QueueIs'
  BY QueueFacts, PTL
<1> QED BY <1>1, SeqEqual DEF QueueIs

\* What the consumer holds stays when the queue does.
LEMMA ViewStays ==
  ASSUME IndInv, IndInv', UNCHANGED <<rpc, rlen1, rlen2>>, Queue' = Queue
  PROVE  View' = View
<1>1. CASE rpc = "granted"
  <2>1. ViewIs /\ QueueIs
    BY <1>1, ViewFacts, QueueFacts
  <2>2. (rpc = "granted")'
    BY <1>1
  <2>3. ViewIs' /\ QueueIs'
    BY <2>2, ViewFacts, QueueFacts, PTL
  <2>4. \A i \in 1 .. rlen1 + rlen2 : i \in 1 .. UsedLen
    BY <2>1, NAssumption, SMT DEF QueueIs, ViewIs
  <2>5. \A i \in 1 .. rlen1 + rlen2 : i \in 1 .. UsedLen'
    BY <2>3, NAssumption, SMT DEF QueueIs, ViewIs
  <2>6. \A i \in 1 .. rlen1 + rlen2 : View[i] = Queue[i]
    BY <2>1, <2>4 DEF QueueIs, ViewIs
  <2>7. \A i \in 1 .. rlen1 + rlen2 : View'[i] = Queue'[i]
    BY <2>3, <2>5 DEF QueueIs, ViewIs
  <2> QED BY <2>1, <2>3, <2>6, <2>7, SeqEqual DEF ViewIs
<1>2. CASE rpc # "granted"
  BY <1>2 DEF View
<1> QED BY <1>1, <1>2

-----------------------------------------------------------------------------
(* The producer's steps.                                                   *)

FifoStep == [Fifo!FifoNext]_(Fifo!fifoVars)

\* Loads and the bookkeeping of the two sides change nothing the queue shows.
LEMMA QuietSteps ==
  ASSUME IndInv,
         \/ \E c \in Calls, sz \in Requests : GrantBegin(c, sz)
         \/ GrantLoadRead \/ GrantRefused
         \/ \E used \in Index : CommitBegin(used)
         \/ \E two \in BOOLEAN : ReadBegin(two)
         \/ ReadLoadLast
         \/ UNCHANGED vars
  PROVE  FifoStep
<1>1. UNCHANGED <<buf, write, read, last, gstart, glen, rlen1, rlen2>>
  BY DEF GrantBegin, GrantLoadRead, GrantRefused, CommitBegin, ReadBegin, ReadLoadLast, vars,
         producerVars, consumerVars
<1>2. Holding' = Holding /\ (rpc' = "granted") = (rpc = "granted")
  BY DEF GrantBegin, GrantLoadRead, GrantRefused, CommitBegin, ReadBegin, ReadLoadLast, vars,
         producerVars, consumerVars, Holding
<1>3. Staged' = Staged
  BY <1>1, <1>2 DEF Staged, Holding
<1>4. Queue' = Queue
  BY <1>1 DEF Queue, UsedLen
<1>5. View' = View
  BY <1>1, <1>2 DEF View
<1> QED BY <1>3, <1>4, <1>5 DEF FifoStep, Fifo!fifoVars

\* Giving a grant stages the bytes that lie in the slice.
LEMMA GrantOkStages == IndInv /\ IndInv' /\ GrantOk => FifoStep
<1> SUFFICES ASSUME IndInv, IndInv', GrantOk PROVE FifoStep
  OBVIOUS
<1>1. Queue' = Queue /\ View' = View
  BY DEF GrantOk, consumerVars, Queue, UsedLen, View
<1>2. StagedIs'
  <2>1. Holding'
    BY DEF GrantOk, Holding
  <2> QED BY <2>1, StagedFacts, PTL
<1>3. Staged' \in Seq(Byte) /\ Len(Staged') <= N
  BY <1>2, NAssumption, SMT DEF StagedIs
<1> QED BY <1>1, <1>3 DEF FifoStep, Fifo!FifoNext, Fifo!Stage

\* Writing through the slice changes what is staged, and no byte of the queue.
LEMMA WriteByteStages ==
  ASSUME IndInv, IndInv', NEW i \in 0 .. N - 1, NEW b \in Byte, WriteByte(i, b)
  PROVE  FifoStep
<1>1. i \in WriteGrant
  BY NAssumption, SMT DEF WriteByte, WriteGrant, IndInv, TypeOK, Index
<1>2. i \notin Readable
  BY <1>1, DisjointGrants DEF GrantsDisjoint
<1>3. \A k \in 0 .. N - 1 : k # i => buf'[k] = buf[k]
  BY DEF WriteByte, IndInv, TypeOK
<1>4. UNCHANGED <<write, read, last, rlen1, rlen2, rpc>>
  BY DEF WriteByte, consumerVars
<1>5. \A j \in 1 .. UsedLen : (buf[Place(j)])' = buf[Place(j)]
  <2> SUFFICES ASSUME NEW j \in 1 .. UsedLen PROVE (buf[Place(j)])' = buf[Place(j)]
    OBVIOUS
  <2>1. Place(j)' = Place(j)
    BY <1>4 DEF Place
  <2> QED BY <1>2, <1>3, <2>1, PlaceIsReadable
<1>6. Queue' = Queue
  <2>1. UsedLen' = UsedLen
    BY <1>4 DEF UsedLen
  <2> QED BY <1>5, <2>1, QueueStays
<1>7. View' = View
  BY <1>4, <1>6, ViewStays
<1>8. StagedIs'
  <2>1. Holding'
    BY DEF WriteByte, producerVars, Holding
  <2> QED BY <2>1, StagedFacts, PTL
<1>9. Staged' \in Seq(Byte) /\ Len(Staged') <= N
  BY <1>8, NAssumption, SMT DEF StagedIs
<1> QED BY <1>6, <1>7, <1>9 DEF FifoStep, Fifo!FifoNext, Fifo!Stage

\* The store of `last` alone shows the consumer's side nothing new.
LEMMA CommitStoreLastKeepsQueue ==
  ASSUME IndInv, IndInv', CommitStoreLast
  PROVE  Queue' = Queue /\ View' = View /\ (Inverted(write, read) => last' = last)
<1>1. UNCHANGED <<buf, write, read, reserve, gstart, glen, rpc, rlen1, rlen2>>
  BY DEF CommitStoreLast, consumerVars
<1>2. Inverted(write, read) => last' = last
  BY NAssumption, SMT DEF CommitStoreLast, LastAfterCommit, IndInv, TypeOK, IndexInv,
                          ProducerInv, Straight, Wrapped, Inverted, Index
<1>3. UsedLen' = UsedLen
  BY <1>1, <1>2 DEF UsedLen, Inverted
<1>4. \A i \in 1 .. UsedLen : (buf[Place(i)])' = buf[Place(i)]
  BY <1>1, <1>2 DEF Place, Inverted
<1>5. Queue' = Queue
  BY <1>3, <1>4, QueueStays
<1>6. View' = View
  BY <1>1, <1>5, ViewStays
<1> QED BY <1>2, <1>5, <1>6

LEMMA CommitStoreLastIsQuiet == IndInv /\ IndInv' /\ CommitStoreLast => FifoStep
<1> SUFFICES ASSUME IndInv, IndInv', CommitStoreLast PROVE FifoStep
  OBVIOUS
<1>1. Staged' = Staged
  BY DEF CommitStoreLast, Staged
<1> QED BY <1>1, CommitStoreLastKeepsQueue DEF FifoStep, Fifo!fifoVars

\* What the commit that is under way will make readable.
Committed == SubSeq(Staged, 1, reserve - gstart)

\* The store of `write` appends the first bytes staged, as many as were committed.
LEMMA CommitAppends ==
  ASSUME IndInv, IndInv', CommitStoreWrite
  PROVE  /\ reserve - gstart \in 0 .. Len(Staged)
         /\ Committed \in Seq(Byte) /\ Len(Committed) = reserve - gstart
         /\ \A j \in 1 .. reserve - gstart : Committed[j] = buf[gstart + j - 1]
         /\ Queue' = Queue \o Committed
<1> DEFINE k == reserve - gstart
           head == Committed
<1>1. UNCHANGED <<buf, read, last, rpc, rlen1, rlen2>> /\ write' = reserve
  BY DEF CommitStoreWrite, consumerVars
<1>2. QueueIs /\ QueueIs' /\ StagedIs
  <2>1. Holding
    BY DEF CommitStoreWrite, Holding
  <2> QED BY <2>1, QueueFacts, StagedFacts, PTL
<1>3. k \in 0 .. glen /\ glen \in Nat /\ UsedLen \in Nat
  BY <1>2, NAssumption, SMT DEF QueueIs, StagedIs, CommitStoreWrite, IndInv, TypeOK, ProducerInv, Index
\* The bytes committed lie where the queue goes on.
<1>4. UsedLen' = UsedLen + k
  BY <1>1, NAssumption, SMT DEF CommitStoreWrite, UsedLen, IndInv, TypeOK, IndexInv, ProducerInv,
                                Straight, Wrapped, Inverted, Index
<1>5. ASSUME NEW i \in 1 .. UsedLen PROVE Place(i)' = Place(i)
  BY <1>1, NAssumption, SMT DEF CommitStoreWrite, Place, UsedLen, IndInv, TypeOK, IndexInv,
                                ProducerInv, Straight, Wrapped, Inverted, Index
<1>6. ASSUME NEW i \in 1 .. UsedLen + k, i > UsedLen PROVE Place(i)' = gstart + (i - UsedLen) - 1
  BY <1>1, <1>6, NAssumption, SMT DEF CommitStoreWrite, Place, UsedLen, IndInv, TypeOK, IndexInv,
                                ProducerInv, Straight, Wrapped, Inverted, Index
<1>7. head \in Seq(Byte) /\ Len(head) = k /\ \A j \in 1 .. k : head[j] = buf[gstart + j - 1]
  <2> DEFINE m == k
  <2>1. m \in 0 .. glen /\ m \in Int /\ 1 \in Int
    BY <1>3, SMT
  <2>2. \A j \in 1 .. m : j \in 1 .. glen
    BY <2>1, <1>3, SMT
  <2>3. \A j \in 1 .. m : Staged[j] \in Byte /\ Staged[j] = buf[gstart + j - 1]
    BY <2>2, <1>2, ElementOfSeq DEF StagedIs
  <2> HIDE DEF m
  <2>4. /\ SubSeq(Staged, 1, m) \in Seq(Byte)
        /\ Len(SubSeq(Staged, 1, m)) = IF 1 <= m THEN m - 1 + 1 ELSE 0
        /\ \A j \in 1 .. m - 1 + 1 : SubSeq(Staged, 1, m)[j] = Staged[1 + j - 1]
    BY <2>1, <2>3, SubSeqProperties
  <2>5. Len(SubSeq(Staged, 1, m)) = m
    BY <2>1, <2>4, <1>3, SMT
  <2>6. ASSUME NEW j \in 1 .. m PROVE SubSeq(Staged, 1, m)[j] = Staged[j]
    <3>1. j \in 1 .. m - 1 + 1 /\ 1 + j - 1 = j
      BY <2>1, SMT
    <3> QED BY <2>4, <3>1
  <2> QED BY <2>3, <2>4, <2>5, <2>6 DEF m, Committed
<1> HIDE DEF k, head
<1>8. Queue' = Queue \o head
  <2>1. /\ Queue \o head \in Seq(Byte)
        /\ Len(Queue \o head) = UsedLen + k
        /\ \A i \in 1 .. UsedLen + k :
             (Queue \o head)[i] = IF i <= UsedLen THEN Queue[i] ELSE head[i - UsedLen]
    BY <1>2, <1>7, ConcatProperties DEF QueueIs
  <2>2. ASSUME NEW i \in 1 .. UsedLen + k PROVE Queue'[i] = (Queue \o head)[i]
    <3>1. Queue'[i] = buf[Place(i)']
      BY <1>1, <1>2, <1>4 DEF QueueIs
    <3>2. CASE i <= UsedLen
      <4>1. i \in 1 .. UsedLen
        BY <3>2, <1>3, SMT
      <4> QED BY <4>1, <3>1, <3>2, <2>1, <1>2, <1>5 DEF QueueIs
    <3>3. CASE i > UsedLen
      <4>1. i - UsedLen \in 1 .. k /\ ~(i <= UsedLen)
        BY <3>3, <1>3, SMT
      <4>2. head[i - UsedLen] = buf[gstart + (i - UsedLen) - 1]
        BY <4>1, <1>7
      <4>3. (Queue \o head)[i] = head[i - UsedLen]
        BY <4>1, <2>1
      <4>4. Place(i)' = gstart + (i - UsedLen) - 1
        BY <3>3, <1>6
      <4> QED BY <4>2, <4>3, <4>4, <3>1
    <3>4. i <= UsedLen \/ i > UsedLen
      BY <1>3, SMT
    <3> QED BY <3>2, <3>3, <3>4
  <2> QED BY <2>1, <2>2, <1>2, <1>4, SeqEqual DEF QueueIs
<1>9. k \in 0 .. Len(Staged)
  BY <1>2, <1>3 DEF StagedIs
<1> QED BY <1>7, <1>8, <1>9 DEF k, head

LEMMA CommitStoreWritePuts == IndInv /\ IndInv' /\ CommitStoreWrite => FifoStep
<1> SUFFICES ASSUME IndInv, IndInv', CommitStoreWrite PROVE FifoStep
  OBVIOUS
<1> DEFINE k == reserve - gstart
<1>1. k \in 0 .. Len(Staged) /\ Queue' = Queue \o SubSeq(Staged, 1, k)
  BY CommitAppends DEF Committed
<1>2. UNCHANGED View
  BY DEF CommitStoreWrite, consumerVars, View
<1>3. Staged' = <<>>
  BY DEF CommitStoreWrite, Staged
<1>4. Len(Queue') <= N
  <2>1. QueueIs'
    BY QueueFacts, PTL
  <2> QED BY <2>1, NAssumption, SMT DEF QueueIs
<1> HIDE DEF k
<1> QED BY <1>1, <1>2, <1>3, <1>4 DEF FifoStep, Fifo!FifoNext, Fifo!Put

-----------------------------------------------------------------------------
(* The consumer's steps.                                                   *)

\* Resolving `read` leaves the queue as it is, back at 0 included.
LEMMA ResolvingKeepsQueue ==
  ASSUME IndInv, IndInv', rpc = "resolve", read' = Resolved, UNCHANGED <<buf, write, last>>
  PROVE  Queue' = Queue
<1>1. \/ read' = read
      \/ read' = 0 /\ Inverted(write, read) /\ read = last
  BY ResolveBounds
<1>2. UsedLen' = UsedLen
  BY <1>1, NAssumption, SMT DEF UsedLen, IndInv, TypeOK, Inverted, Index
<1>3. ASSUME NEW i \in 1 .. UsedLen PROVE Place(i)' = Place(i)
  BY <1>1, NAssumption, SMT DEF Place, UsedLen, IndInv, TypeOK, Inverted, Index
<1>4. \A i \in 1 .. UsedLen : (buf[Place(i)])' = buf[Place(i)]
  BY <1>3
<1> QED BY <1>2, <1>4, QueueStays

\* A read grant shows the front of the queue.
LEMMA ReadOkLooks == IndInv /\ IndInv' /\ ReadOk => FifoStep
<1> SUFFICES ASSUME IndInv, IndInv', ReadOk PROVE FifoStep
  OBVIOUS
<1>1. Queue' = Queue
  BY ResolvingKeepsQueue DEF ReadOk
<1>2. Staged' = Staged /\ View = <<>>
  BY DEF ReadOk, producerVars, Staged, View
<1>3. QueueIs /\ QueueIs' /\ ViewIs'
  <2>1. (rpc = "granted")'
    BY DEF ReadOk
  <2> QED BY <2>1, QueueFacts, ViewFacts, PTL
<1> DEFINE n == (rlen1 + rlen2)'
<1>4. n \in 1 .. UsedLen' /\ UsedLen' \in Nat /\ Len(View') = n /\ Len(Queue') = UsedLen'
  BY <1>3, NAssumption DEF QueueIs, ViewIs
<1>5. \A i \in 1 .. n : View'[i] = (buf[Place(i)])'
  BY <1>3 DEF ViewIs
<1>6. \A i \in 1 .. UsedLen' : Queue'[i] = (buf[Place(i)])'
  BY <1>3 DEF QueueIs
<1> HIDE DEF n
<1>7. Fifo!IsPrefixOf(View', Queue)
  <2>1. n <= UsedLen' /\ \A i \in 1 .. n : i \in 1 .. UsedLen'
    BY <1>4, SMT
  <2>2. \A i \in 1 .. n : View'[i] = Queue'[i]
    BY <1>5, <1>6, <2>1
  <2> QED BY <1>1, <1>4, <2>1, <2>2 DEF Fifo!IsPrefixOf
<1>8. View' # <<>>
  <2>1. Len(View') # 0
    BY <1>4, SMT
  <2> QED BY <2>1, EmptySeq
<1> QED BY <1>1, <1>2, <1>7, <1>8 DEF FifoStep, Fifo!FifoNext, Fifo!Look

\* A read that finds nothing changes nothing, whether or not it goes back to 0.
LEMMA ReadEmptyIsQuiet == IndInv /\ IndInv' /\ ReadEmpty => FifoStep
<1> SUFFICES ASSUME IndInv, IndInv', ReadEmpty PROVE FifoStep
  OBVIOUS
<1>1. Queue' = Queue
  BY ResolvingKeepsQueue DEF ReadEmpty
<1>2. Staged' = Staged /\ View' = View
  BY DEF ReadEmpty, producerVars, Staged, View
<1> QED BY <1>1, <1>2 DEF FifoStep, Fifo!fifoVars

\* A release takes the bytes released from the front of the queue.
LEMMA ReleaseShifts ==
  ASSUME IndInv, IndInv', NEW used \in Index, ReleaseGrant(used)
  PROVE  LET k == Smaller(rlen1 + rlen2, used) IN
         /\ View # <<>> /\ k \in 0 .. Len(View)
         /\ Queue' = [i \in 1 .. Len(Queue) - k |-> Queue[i + k]]
<1> DEFINE k == Smaller(rlen1 + rlen2, used)
<1>1. UNCHANGED <<buf, write, last>> /\ rpc = "granted" /\ rpc' = "idle"
      /\ read' = ReadAfterRelease(read, rlen1, k)
  BY DEF ReleaseGrant
<1>2. QueueIs /\ QueueIs' /\ ViewIs
  BY <1>1, QueueFacts, ViewFacts, PTL
<1>3. k \in 0 .. rlen1 + rlen2 /\ k \in 0 .. UsedLen /\ UsedLen \in Nat
  <2>1. rlen1 + rlen2 \in 0 .. UsedLen /\ UsedLen \in Nat /\ rlen1 \in Nat /\ rlen2 \in Nat
        /\ used \in Nat
    BY <1>2, NAssumption, SMT DEF QueueIs, ViewIs, IndInv, TypeOK, Index
  <2> QED BY <2>1, SMT DEF Smaller
<1>4. UsedLen' = UsedLen - k
  BY <1>1, NAssumption, SMT DEF UsedLen, IndInv, TypeOK, IndexInv, ConsumerInv, HeldInv,
                                Inverted, Index, ReadAfterRelease, Smaller
<1>5. ASSUME NEW i \in 1 .. UsedLen - k PROVE Place(i)' = Place(i + k)
  BY <1>1, NAssumption, SMT DEF Place, UsedLen, IndInv, TypeOK, IndexInv, ConsumerInv, HeldInv,
                                Inverted, Index, ReadAfterRelease, Smaller
<1> HIDE DEF k
<1>6. Queue' = [i \in 1 .. Len(Queue) - k |-> Queue[i + k]]
  <2>1. Len(Queue) = UsedLen /\ Queue' \in [1 .. UsedLen - k -> Byte]
    BY <1>2, <1>4, LenProperties DEF QueueIs
  <2>2. ASSUME NEW i \in 1 .. UsedLen - k PROVE Queue'[i] = Queue[i + k]
    <3>1. Queue'[i] = buf[Place(i)']
      BY <1>1, <1>2, <1>4 DEF QueueIs
    <3>2. i + k \in 1 .. UsedLen
      BY <1>3, SMT
    <3>3. Queue[i + k] = buf[Place(i + k)]
      BY <1>2, <3>2 DEF QueueIs
    <3> QED BY <3>1, <3>3, <1>5
  <2> QED BY <2>1, <2>2
<1>7. View # <<>> /\ k \in 0 .. Len(View)
  <2>1. Len(View) # 0 /\ k \in 0 .. Len(View)
    BY <1>2, <1>3, NAssumption, SMT DEF ViewIs, QueueIs
  <2> QED BY <2>1, EmptySeq
<1> QED BY <1>6, <1>7 DEF k

LEMMA ReleaseGrantReleases ==
  ASSUME IndInv, IndInv', NEW used \in Index, ReleaseGrant(used)
  PROVE  FifoStep
<1> DEFINE k == Smaller(rlen1 + rlen2, used)
<1>1. View # <<>> /\ k \in 0 .. Len(View) /\ Queue' = [i \in 1 .. Len(Queue) - k |-> Queue[i + k]]
  BY ReleaseShifts
<1>2. View' = <<>> /\ Staged' = Staged
  BY DEF ReleaseGrant, producerVars, Staged, View
<1> HIDE DEF k
<1> QED BY <1>1, <1>2 DEF FifoStep, Fifo!FifoNext, Fifo!Release

-----------------------------------------------------------------------------
\* The ring is a first-in first-out queue of bytes: commits append what was written
\* through the grant, readers see a stable prefix, releases take from the front.
THEOREM RingImplementsFifo == Spec => ImplementsFifo
<1>1. Init => Fifo!FifoInit
  <2> SUFFICES ASSUME Init PROVE Fifo!FifoInit
    OBVIOUS
  <2>1. QueueIs
    BY InitEstablishes, QueueFacts
  <2>2. UsedLen = 0
    BY SMT DEF Init, UsedLen, Inverted
  <2>3. Queue = <<>>
    BY <2>1, <2>2, EmptySeq DEF QueueIs
  <2>4. Staged = <<>> /\ View = <<>>
    BY DEF Init, Staged, View
  <2> QED BY <2>3, <2>4 DEF Fifo!FifoInit
<1>2. IndInv /\ IndInv' /\ [Next]_vars => FifoStep
  <2> SUFFICES ASSUME IndInv, IndInv', [Next]_vars PROVE FifoStep
    OBVIOUS
  <2>1. ASSUME NEW i \in 0 .. N - 1, NEW b \in Byte, WriteByte(i, b) PROVE FifoStep
    BY <2>1, WriteByteStages
  <2>2. ASSUME NEW used \in Index, ReleaseGrant(used) PROVE FifoStep
    BY <2>2, ReleaseGrantReleases
  <2>3. CASE GrantOk \/ CommitStoreLast \/ CommitStoreWrite \/ ReadOk \/ ReadEmpty
    BY <2>3, GrantOkStages, CommitStoreLastIsQuiet, CommitStoreWritePuts, ReadOkLooks,
       ReadEmptyIsQuiet
  <2>4. CASE \/ \E c \in Calls, sz \in Requests : GrantBegin(c, sz)
             \/ GrantLoadRead \/ GrantRefused
             \/ \E used \in Index : CommitBegin(used)
             \/ \E two \in BOOLEAN : ReadBegin(two)
             \/ ReadLoadLast
             \/ UNCHANGED vars
    BY <2>4, QuietSteps
  <2> QED BY <2>1, <2>2, <2>3, <2>4 DEF Next, Producer, Consumer
<1> QED BY <1>1, <1>2, Inductive, PTL DEF Spec, ImplementsFifo, Fifo!FifoSpec, FifoStep
=============================================================================
