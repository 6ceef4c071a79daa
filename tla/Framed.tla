------------------------------- MODULE Framed -------------------------------
(***************************************************************************)
(* crates/bbqueue-spicy/src/framed.rs: frames over the byte ring.  Every    *)
(* write grant starts with a two-byte little-endian header that commit      *)
(* fills in; a read takes all contiguous bytes and cuts the grant to the    *)
(* first frame.  The steps of the ring below are BBBuffer's own.            *)
(***************************************************************************)
EXTENDS BBBuffer

CONSTANTS Radix,         \* values of a header byte (256 in the code)
          Asked          \* the values of max_sz the user asks for

ASSUME FramedAssumption ==
  /\ Radix \in Nat \ {0}
  /\ Asked \subseteq 0 .. Radix * Radix - 1
  /\ Byte = 0 .. Radix - 1

HDR_LEN == 2

Frame == UNION {[1 .. n -> Byte] : n \in UNION {0 .. m : m \in Asked}}

\* Mutation: the header is written big-endian.
HeaderByteSwapped(len, k) == IF k = 0 THEN len \div Radix ELSE len % Radix

\* The length in the header that starts at index i, and the bytes that make it.
FrameLen(lo, hi) == lo + Radix * hi
HeaderByte(len, k) == IF k = 0 THEN len % Radix ELSE len \div Radix

-----------------------------------------------------------------------------
\* FrameProducer::grant(max_sz): room for the header too.
FrameGrant(maxSz) == GrantBegin("grant_exact", maxSz + HDR_LEN)

\* Mutation: what is committed does not count the header.
TotalNoHeader(frameLen) == frameLen

\* What set_header returns.
TotalLen(frameLen) == frameLen + HDR_LEN

\* FrameGrantW::commit(used) of a grant whose holder has written `payload`,
\* Smaller(used, room) bytes of it: the header is set, then header and frame
\* are committed.
FrameCommit(used, payload) ==
  LET frameLen == Smaller(used, glen - HDR_LEN)
      total    == TotalLen(frameLen)
  IN /\ wpc = "granted"
     /\ Len(payload) = frameLen
     /\ buf' = [i \in 0 .. N - 1 |->
                  CASE i \in gstart .. gstart + HDR_LEN - 1 -> HeaderByte(frameLen, i - gstart)
                    [] i - gstart - HDR_LEN \in 0 .. frameLen - 1
                                            -> payload[i - gstart - HDR_LEN + 1]
                    [] OTHER                -> buf[i]]
     /\ reserve' = reserve - (glen - Smaller(glen, total))
     /\ wpc' = "storeLast"
     /\ UNCHANGED <<write, read, last, writeInProgress, call, want, seenRead,
                    gstart, glen, consumerVars>>

\* The grant is dropped with nothing set to be committed.
FrameGrantDrop == CommitBegin(0)

\* FrameGrantW::shrink(len): the slice is cut, the reservation is not.
FrameShrink(len) ==
  /\ wpc = "granted"
  /\ len + HDR_LEN < glen
  /\ glen' = len + HDR_LEN
  /\ UNCHANGED <<buf, write, read, last, reserve, writeInProgress, call, want,
                 seenRead, gstart, wpc, consumerVars>>

\* The header at the reader's (resolved) position, once bytes are found there.
HeaderLen == FrameLen(buf[Resolved], buf[Resolved + 1])

\* FrameConsumer::read, once the ring has answered: the header is copied out of
\* the grant and the grant is cut to the frame.  Both panic when the grant is
\* too short, which FramesAreWhole excludes.
FrameReadOk ==
  /\ rpc = "resolve"
  /\ Found >= HDR_LEN
  /\ Found >= HDR_LEN + HeaderLen
  /\ read' = Resolved
  /\ rlen1' = HDR_LEN + HeaderLen
  /\ rpc' = "granted"
  /\ UNCHANGED <<buf, write, last, readInProgress, split, seenWrite, seenLast, rlen2,
                 producerVars>>

\* FrameGrantR::release, or a drop with auto_release set: the whole frame.
FrameRelease == ReleaseGrant(rlen1)

\* A drop with auto_release not set: nothing is released.
FrameReadDrop == ReleaseGrant(0)

-----------------------------------------------------------------------------
FrameProducer ==
  \/ \E maxSz \in Asked : FrameGrant(maxSz)
  \/ GrantLoadRead
  \/ GrantOk
  \/ GrantRefused
  \/ \E used \in Index, payload \in Frame : FrameCommit(used, payload)
  \/ FrameGrantDrop
  \/ CommitStoreLast
  \/ CommitStoreWrite

FrameConsumer ==
  \/ ReadBegin(FALSE)
  \/ ReadLoadLast
  \/ FrameReadOk
  \/ ReadEmpty
  \/ FrameRelease
  \/ FrameReadDrop

FramedNext == FrameProducer \/ FrameConsumer

FramedSpec == Init /\ [][FramedNext]_vars

\* A user that also shrinks its write grants, which the firmware does not.
ShrinkingSpec == Init /\ [][FramedNext \/ \E len \in Index : FrameShrink(len)]_vars

\* The firmware's idle loop polls both sides of its pipes, every call ends,
\* every grant is completed or aborted, and a frame that is read over and over
\* is not given back every time.
FramedFairness ==
  /\ WF_vars(\E maxSz \in Asked : FrameGrant(maxSz))
  /\ WF_vars(GrantLoadRead \/ GrantOk \/ GrantRefused)
  /\ WF_vars(FrameGrantDrop \/ \E used \in Index, p \in Frame : FrameCommit(used, p))
  /\ WF_vars(CommitStoreLast \/ CommitStoreWrite)
  /\ WF_vars(ReadBegin(FALSE) \/ ReadLoadLast \/ FrameReadOk \/ ReadEmpty)
  /\ SF_vars(FrameRelease)

FramedFairSpec == FramedSpec /\ FramedFairness

-----------------------------------------------------------------------------
(* Properties.                                                             *)

\* "We never wrap a frame around, so if a header is available, the whole frame
\* will be": the bytes a read finds hold a whole header and the whole frame.
FramesAreWhole ==
  rpc = "resolve" /\ Found # 0 => Found >= HDR_LEN /\ Found >= HDR_LEN + HeaderLen

\* What stands for a frame that is not whole.
Torn == <<-1>>

\* The frame whose header starts at index i of the committed bytes q: the index of
\* the next one, whether all of it is there, and what it carries.
NextFrame(q, i) == i + HDR_LEN + FrameLen(q[i], q[i + 1])
IsWhole(q, i)   == i < Len(q) /\ NextFrame(q, i) <= Len(q) + 1
Payload(q, i)   == [j \in 1 .. FrameLen(q[i], q[i + 1]) |-> q[i + 1 + j]]

\* The frames in the committed bytes, and those from index i on.
FramesFrom(q, i) ==
  LET from[k \in 1 .. Len(q) + 1] ==
        IF k > Len(q) THEN <<>>
        ELSE IF ~IsWhole(q, k) THEN <<Torn>>
        ELSE <<Payload(q, k)>> \o from[NextFrame(q, k)]
  IN from[i]
FramesIn(q) == FramesFrom(q, 1)

\* The payload that is being committed, behind its header.
StagedFrame ==
  IF wpc \in {"storeLast", "storeWrite"} /\ reserve > gstart
    THEN <<[j \in 1 .. reserve - gstart - HDR_LEN |-> buf[gstart + 1 + j]]>>
    ELSE <<>>

HeldFrame ==
  IF rpc = "granted" THEN <<[j \in 1 .. rlen1 - HDR_LEN |-> buf[read + 1 + j]]>>
                     ELSE <<>>

\* The framed ring implements the queue of frames: each frame committed is read
\* whole, in order and once, with the length and the bytes it was given.
Abstract == INSTANCE FrameFifo WITH
              staged <- StagedFrame, frames <- FramesIn(Queue), held <- HeldFrame
ImplementsFrames == Abstract!FrameSpec

\* A producer whose every request, header included, is at most half the ring
\* never starves, wherever the indices stand when the ring runs empty: what it
\* asks for again and again it is given.
AskedIsGranted == (wpc = "loadRead") ~> (wpc = "granted")
=============================================================================
