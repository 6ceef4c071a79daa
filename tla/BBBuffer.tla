------------------------------ MODULE BBBuffer ------------------------------
(***************************************************************************)
(* crates/bbqueue-spicy/src/bbbuffer.rs: the lock-free single-producer      *)
(* single-consumer ring.  One producer and one consumer run concurrently;   *)
(* a step is one access to a location the other side may access too         *)
(* (`read` for the producer, `write` and `last` for the consumer, and each  *)
(* of their stores), together with the accesses to the locations that only  *)
(* the acting side uses (`reserve`, `write_in_progress`,                    *)
(* `read_in_progress`, its own index).  Every location is sequentially      *)
(* consistent, as it is on the single-core part the firmware is built for.  *)
(***************************************************************************)
EXTENDS BBQueueOps, Sequences

CONSTANTS Byte,      \* values of a byte
          Zero,      \* the byte BBBuffer::init fills the buffer with
          Requests   \* the sizes the user asks grants for

ASSUME BytesAssumption    == Zero \in Byte
ASSUME RequestsAssumption == Requests \subseteq Nat

VARIABLES
  \* struct BBBuffer
  buf, write, read, last, reserve, readInProgress, writeInProgress,
  \* the producer: control point, the call it is in, the `read` it loaded,
  \* and the slice of its grant
  wpc, call, want, seenRead, gstart, glen,
  \* the consumer: control point, the call it is in, the `write` and `last`
  \* it loaded, and the lengths of the slices of its grant
  rpc, split, seenWrite, seenLast, rlen1, rlen2

producerVars == <<reserve, writeInProgress, wpc, call, want, seenRead, gstart, glen>>
consumerVars == <<readInProgress, rpc, split, seenWrite, seenLast, rlen1, rlen2>>
vars == <<buf, write, read, last, producerVars, consumerVars>>

Calls == {"grant_exact", "grant_max_remaining"}

TypeOK ==
  /\ buf \in [0 .. N - 1 -> Byte]
  /\ write \in Index /\ read \in Index /\ last \in Index /\ reserve \in Index
  /\ readInProgress \in BOOLEAN /\ writeInProgress \in BOOLEAN
  /\ wpc \in {"idle", "loadRead", "decide", "granted", "storeLast", "storeWrite"}
  /\ call \in Calls /\ want \in Nat /\ seenRead \in Index
  /\ gstart \in Index /\ glen \in Index
  /\ rpc \in {"idle", "loadLast", "resolve", "granted"}
  /\ split \in BOOLEAN /\ seenWrite \in Index /\ seenLast \in Index
  /\ rlen1 \in Index /\ rlen2 \in Index

-----------------------------------------------------------------------------
\* BBBuffer::new and init: every index, `last` included, starts at zero.
Init ==
  /\ buf = [i \in 0 .. N - 1 |-> Zero]
  /\ write = 0 /\ read = 0 /\ last = 0 /\ reserve = 0
  /\ readInProgress = FALSE /\ writeInProgress = FALSE
  /\ wpc = "idle" /\ call = "grant_exact" /\ want = 0 /\ seenRead = 0
  /\ gstart = 0 /\ glen = 0
  /\ rpc = "idle" /\ split = FALSE /\ seenWrite = 0 /\ seenLast = 0
  /\ rlen1 = 0 /\ rlen2 = 0

-----------------------------------------------------------------------------
(* The producer.                                                           *)

\* Enter grant_exact or grant_max_remaining; a grant already out is refused
\* (Error::GrantInProgress) and changes nothing.
GrantBegin(c, sz) ==
  /\ wpc = "idle"
  /\ ~writeInProgress
  /\ writeInProgress' = TRUE
  /\ call' = c /\ want' = sz
  /\ wpc' = "loadRead"
  /\ UNCHANGED <<buf, write, read, last, reserve, seenRead, gstart, glen, consumerVars>>

GrantLoadRead ==
  /\ wpc = "loadRead"
  /\ seenRead' = read
  /\ wpc' = "decide"
  /\ UNCHANGED <<buf, write, read, last, reserve, writeInProgress, call, want,
                 gstart, glen, consumerVars>>

\* The grant the loaded indices allow.
Decision ==
  IF call = "grant_exact" THEN ExactGrant(write, seenRead, want)
                          ELSE MaxRemainingGrant(write, seenRead, want)

GrantOk ==
  /\ wpc = "decide"
  /\ Decision.ok
  /\ gstart' = Decision.start /\ glen' = Decision.len
  /\ reserve' = Decision.start + Decision.len
  /\ wpc' = "granted"
  /\ UNCHANGED <<buf, write, read, last, writeInProgress, call, want, seenRead,
                 consumerVars>>

GrantRefused ==
  /\ wpc = "decide"
  /\ ~Decision.ok
  /\ writeInProgress' = FALSE
  /\ wpc' = "idle" /\ want' = 0 /\ seenRead' = 0 /\ call' = "grant_exact"
  /\ UNCHANGED <<buf, write, read, last, reserve, gstart, glen, consumerVars>>

\* The holder of the grant stores a byte through the slice.
WriteByte(i, b) ==
  /\ wpc = "granted"
  /\ gstart <= i /\ i < gstart + glen
  /\ buf' = [buf EXCEPT ![i] = b]
  /\ UNCHANGED <<write, read, last, producerVars, consumerVars>>

\* commit(used), or the drop of the grant with to_commit set to `used` (zero
\* unless the user set it): the grant is cut to what is used.
CommitBegin(used) ==
  /\ wpc = "granted"
  /\ writeInProgress
  /\ reserve' = reserve - (glen - Smaller(glen, used))
  /\ wpc' = "storeLast"
  /\ UNCHANGED <<buf, write, read, last, writeInProgress, call, want, seenRead,
                 gstart, glen, consumerVars>>

CommitStoreLast ==
  /\ wpc = "storeLast"
  /\ last' = LastAfterCommit(write, last, reserve)
  /\ wpc' = "storeWrite"
  /\ UNCHANGED <<buf, write, read, reserve, writeInProgress, call, want,
                 seenRead, gstart, glen, consumerVars>>

\* The store that makes the bytes readable, then the end of the grant.
CommitStoreWrite ==
  /\ wpc = "storeWrite"
  /\ write' = reserve
  /\ writeInProgress' = FALSE
  /\ wpc' = "idle" /\ want' = 0 /\ seenRead' = 0 /\ call' = "grant_exact"
  /\ gstart' = 0 /\ glen' = 0
  /\ UNCHANGED <<buf, read, last, reserve, consumerVars>>

-----------------------------------------------------------------------------
(* The consumer.                                                           *)

\* Enter read (one slice) or split_read (two); a grant already out is refused.
ReadBegin(two) ==
  /\ rpc = "idle"
  /\ ~readInProgress
  /\ readInProgress' = TRUE
  /\ split' = two
  /\ seenWrite' = write
  /\ rpc' = "loadLast"
  /\ UNCHANGED <<buf, write, read, last, seenLast, rlen1, rlen2, producerVars>>

ReadLoadLast ==
  /\ rpc = "loadLast"
  /\ seenLast' = last
  /\ rpc' = "resolve"
  /\ UNCHANGED <<buf, write, read, last, readInProgress, split, seenWrite,
                 rlen1, rlen2, producerVars>>

\* `read` as the call continues with it, and the bytes it finds from there.
Resolved == ResolvedRead(seenWrite, seenLast, read)
Found    == FirstLen(seenWrite, seenLast, Resolved)

ReadOk ==
  /\ rpc = "resolve"
  /\ Found # 0
  /\ read' = Resolved
  /\ rlen1' = Found
  /\ rlen2' = IF split THEN SecondLen(seenWrite, Resolved) ELSE 0
  /\ rpc' = "granted"
  /\ UNCHANGED <<buf, write, last, readInProgress, split, seenWrite, seenLast,
                 producerVars>>

ReadEmpty ==
  /\ rpc = "resolve"
  /\ Found = 0
  /\ read' = Resolved
  /\ readInProgress' = FALSE
  /\ rpc' = "idle" /\ split' = FALSE /\ seenWrite' = 0 /\ seenLast' = 0
  /\ UNCHANGED <<buf, write, last, rlen1, rlen2, producerVars>>

\* release(used), or the drop of the grant with to_release set to `used`.
ReleaseGrant(used) ==
  /\ rpc = "granted"
  /\ readInProgress
  /\ read' = ReadAfterRelease(read, rlen1, Smaller(rlen1 + rlen2, used))
  /\ readInProgress' = FALSE
  /\ rpc' = "idle" /\ split' = FALSE /\ seenWrite' = 0 /\ seenLast' = 0
  /\ rlen1' = 0 /\ rlen2' = 0
  /\ UNCHANGED <<buf, write, last, producerVars>>

-----------------------------------------------------------------------------
Producer ==
  \/ \E c \in Calls, sz \in Requests : GrantBegin(c, sz)
  \/ GrantLoadRead
  \/ GrantOk
  \/ GrantRefused
  \/ \E i \in 0 .. N - 1, b \in Byte : WriteByte(i, b)
  \/ \E used \in Index : CommitBegin(used)
  \/ CommitStoreLast
  \/ CommitStoreWrite

Consumer ==
  \/ \E two \in BOOLEAN : ReadBegin(two)
  \/ ReadLoadLast
  \/ ReadOk
  \/ ReadEmpty
  \/ \E used \in Index : ReleaseGrant(used)

Next == Producer \/ Consumer

Spec == Init /\ [][Next]_vars

\* A user that polls (the firmware's idle loop does) keeps calling read until
\* it gets a grant, and finishes every call it has begun.
Polling ==
  /\ WF_vars(\E two \in BOOLEAN : ReadBegin(two))
  /\ WF_vars(ReadLoadLast)
  /\ WF_vars(ReadOk \/ ReadEmpty)

PollingSpec == Spec /\ Polling

-----------------------------------------------------------------------------
(* Properties.                                                             *)

\* The bytes committed and not yet released, in the order they were committed.
UsedLen == IF Inverted(write, read) THEN (last - read) + write ELSE write - read

Queue ==
  [i \in 1 .. UsedLen |->
     IF Inverted(write, read) /\ read + i > last
       THEN buf[i - 1 - (last - read)]
       ELSE buf[read + i - 1]]

\* The bytes of the slices the consumer holds.
View ==
  IF rpc = "granted"
    THEN [i \in 1 .. rlen1 + rlen2 |->
            IF i <= rlen1 THEN buf[read + i - 1] ELSE buf[i - 1 - rlen1]]
    ELSE <<>>

\* The bytes of the slice the producer holds, until its commit ends.
Staged ==
  IF wpc \in {"granted", "storeLast", "storeWrite"}
    THEN [i \in 1 .. glen |-> buf[gstart + i - 1]]
    ELSE <<>>

Readable ==
  IF Inverted(write, read) THEN (read .. last - 1) \cup (0 .. write - 1)
                           ELSE read .. write - 1

WriteGrant == IF wpc \in {"granted", "storeLast", "storeWrite"}
                THEN gstart .. gstart + glen - 1 ELSE {}
ReadGrant  == IF rpc = "granted"
                THEN (read .. read + rlen1 - 1) \cup (0 .. rlen2 - 1) ELSE {}

\* The two sides never hold the same byte: from the moment the producer is
\* given a slice until its commit ends, the slice lies in the buffer and apart
\* from every byte the consumer may read, although `read` has moved (back to 0
\* included) since the producer looked at it.
GrantsDisjoint ==
  /\ WriteGrant \subseteq 0 .. N - 1
  /\ WriteGrant \cap Readable = {}

\* What the consumer holds is committed data, although `write` and `last` have
\* moved since it loaded them.
ReadGrantCommitted == ReadGrant \subseteq Readable

\* The ring implements the queue: a commit appends the bytes written through
\* the grant and no others, nothing is lost, repeated or torn, a reader's view
\* is a prefix of the queue and is stable.
Fifo == INSTANCE ByteFifo WITH
          Capacity <- N, staged <- Staged, queue <- Queue, view <- View
ImplementsFifo == Fifo!FifoSpec

\* Committed bytes never hide: a consumer that keeps polling is given them,
\* also when it stands at the end of an inverted ring.
DataIsFound == (UsedLen > 0) ~> (rpc = "granted")

\* The reader moves back only from the end of an inverted ring, to its start,
\* and never past bytes it has not been given.
ReadMovesForward ==
  [][ \/ read' >= read
      \/ read' = 0 /\ Inverted(write, read) /\ read = last
      \/ read' <= rlen2 /\ Inverted(write, read) /\ read + rlen1 = last ]_read

\* "Maximum possible waste due to skipping: 0 bytes": a grant_max_remaining
\* that wraps leaves no byte at the end of the ring unused.
MaxRemainingSkipsNothing ==
  [][ call = "grant_max_remaining" /\ write' < write => last = N ]_write

-----------------------------------------------------------------------------
(***************************************************************************)
(* The inductive invariant behind GrantsDisjoint and ReadGrantCommitted.    *)
(* Each side acts on indices the other has moved since; the conjuncts say   *)
(* in which way they can have moved.                                        *)
(***************************************************************************)
IndexInv ==
  IF Inverted(write, read) THEN read <= last ELSE write <= last

\* The `read` the producer loaded: the reader has only advanced since, or has
\* left an inverted ring, and a ring seen not inverted still is not.
SeenReadInv ==
  IF write < seenRead
    THEN seenRead <= last /\ (Inverted(write, read) => seenRead <= read)
    ELSE seenRead <= read /\ read <= write

\* The grant continues at `write`, or starts the ring again at 0.
Straight == gstart = write /\ (Inverted(write, read) => write + glen < read)
Wrapped  == gstart = 0 /\ ~Inverted(write, read) /\ glen < read

ProducerInv ==
  /\ writeInProgress <=> wpc # "idle"
  /\ wpc = "decide" => SeenReadInv
  /\ wpc \in {"granted", "storeLast", "storeWrite"} =>
       /\ gstart <= reserve /\ reserve <= gstart + glen /\ gstart + glen <= N
       /\ Straight \/ Wrapped
  /\ wpc = "granted" => reserve = gstart + glen
  /\ wpc = "storeWrite" =>
       /\ Straight => reserve <= last
       /\ Wrapped => last = write

\* The `write` and `last` the consumer loaded: seen inverted, the ring still
\* is and `last` has not moved; otherwise the bytes up to the `write` seen are
\* still there, at worst before a wrap the producer has made since.
SeenWriteInv ==
  IF seenWrite < read
    THEN Inverted(write, read) /\ seenWrite <= write
    ELSE seenWrite <= IF Inverted(write, read) THEN last ELSE write

HeldInv ==
  /\ rlen1 > 0
  /\ IF Inverted(write, read) THEN read + rlen1 <= last
                              ELSE read + rlen1 <= write /\ rlen2 = 0
  /\ rlen2 > 0 => read + rlen1 = last /\ rlen2 <= write

ConsumerInv ==
  /\ readInProgress <=> rpc # "idle"
  /\ rpc \in {"loadLast", "resolve"} => SeenWriteInv
  /\ rpc = "resolve" /\ seenWrite < read => seenLast = last
  /\ rpc = "granted" => HeldInv

IndInv == TypeOK /\ IndexInv /\ ProducerInv /\ ConsumerInv
=============================================================================
