-------------------------------- MODULE Pipe --------------------------------
(***************************************************************************)
(* struct Pipe of firmware/src/modem/pipes.rs on the ring below it: the two *)
(* grant slots, the main loop that fills them and the interrupt handlers    *)
(* that use and empty them.  The main loop is preempted between any two     *)
(* accesses of its calls; a handler's calls are single steps, because main  *)
(* does not run during a handler and handlers do not preempt each other.    *)
(* A frame is abstracted to its length (Framed shows that the bytes of a    *)
(* frame come through), and the memory to the header at each index.         *)
(***************************************************************************)
EXTENDS BBQueueOps, Sequences

CONSTANT MaxLen          \* the frame size pipes.rs asks grants for (256)

ASSUME PipeAssumption == MaxLen \in Nat

HDR == 2                 \* HDR_LEN of framed.rs
FrameLengths == 0 .. MaxLen

VARIABLES
  write, read, last, reserve, wip, rip,    \* the ring (wip, rip: *_in_progress)
  header,          \* index -> the frame length last written there
  wrState, rdState,                        \* the slots' states
  wrLen, rdLen,                            \* total size of the grant in the slot
  mainPc, seenRead, seenWrite, seenLast    \* the main loop in one of its calls

ringVars == <<write, read, last, reserve, wip, rip, header>>
wrVars   == <<wrState, wrLen>>
rdVars   == <<rdState, rdLen>>
mainVars == <<mainPc, seenRead, seenWrite, seenLast>>
vars     == <<ringVars, wrVars, rdVars, mainVars>>

States == {"IDLE", "READY", "BUSY"}

TypeOK ==
  /\ {write, read, last, reserve} \subseteq Index
  /\ wip \in BOOLEAN /\ rip \in BOOLEAN
  /\ header \in [0 .. N - 1 -> FrameLengths]
  /\ wrState \in States /\ rdState \in States
  /\ wrLen \in 0 .. HDR + MaxLen /\ rdLen \in 0 .. HDR + MaxLen
  /\ mainPc \in {"idle", "wrLoad", "wrDecide", "rdLoad", "rdDecide"}
  /\ {seenRead, seenWrite, seenLast} \subseteq Index

\* Pipe::init after BBBuffer::new.
Init ==
  /\ write = 0 /\ read = 0 /\ last = 0 /\ reserve = 0 /\ wip = FALSE /\ rip = FALSE
  /\ header = [i \in 0 .. N - 1 |-> 0]
  /\ wrState = "IDLE" /\ rdState = "IDLE" /\ wrLen = 0 /\ rdLen = 0
  /\ mainPc = "idle" /\ seenRead = 0 /\ seenWrite = 0 /\ seenLast = 0

-----------------------------------------------------------------------------
(* The main loop: service_lowprio_wr.                                      *)

\* Only an IDLE slot is serviced; then grant_exact(HDR + MaxLen) is entered,
\* which gives up at once if a grant is out.
ServiceWrBegin ==
  /\ mainPc = "idle" /\ wrState = "IDLE" /\ ~wip
  /\ wip' = TRUE
  /\ mainPc' = "wrLoad"
  /\ UNCHANGED <<write, read, last, reserve, rip, header, wrVars, rdVars,
                 seenRead, seenWrite, seenLast>>

ServiceWrLoad ==
  /\ mainPc = "wrLoad"
  /\ seenRead' = read
  /\ mainPc' = "wrDecide"
  /\ UNCHANGED <<ringVars, wrVars, rdVars, seenWrite, seenLast>>

WrGrant == ExactGrant(write, seenRead, HDR + MaxLen)

\* The grant is put in the slot, then the slot is published.
ServiceWrPublish ==
  /\ mainPc = "wrDecide"
  /\ WrGrant.ok
  /\ reserve' = WrGrant.start + WrGrant.len
  /\ wrState' = "READY" /\ wrLen' = WrGrant.len
  /\ mainPc' = "idle" /\ seenRead' = 0
  /\ UNCHANGED <<write, read, last, wip, rip, header, rdVars, seenWrite, seenLast>>

ServiceWrRefused ==
  /\ mainPc = "wrDecide"
  /\ ~WrGrant.ok
  /\ wip' = FALSE
  /\ mainPc' = "idle" /\ seenRead' = 0
  /\ UNCHANGED <<write, read, last, reserve, rip, header, wrVars, rdVars,
                 seenWrite, seenLast>>

-----------------------------------------------------------------------------
(* The main loop: service_lowprio_rd.                                      *)

ServiceRdBegin ==
  /\ mainPc = "idle" /\ rdState = "IDLE" /\ ~rip
  /\ rip' = TRUE
  /\ seenWrite' = write
  /\ mainPc' = "rdLoad"
  /\ UNCHANGED <<write, read, last, reserve, wip, header, wrVars, rdVars,
                 seenRead, seenLast>>

ServiceRdLoad ==
  /\ mainPc = "rdLoad"
  /\ seenLast' = last
  /\ mainPc' = "rdDecide"
  /\ UNCHANGED <<ringVars, wrVars, rdVars, seenRead, seenWrite>>

Resolved == ResolvedRead(seenWrite, seenLast, read)
Found    == FirstLen(seenWrite, seenLast, Resolved)

\* The grant is cut to the frame whose header it starts with.
ServiceRdPublish ==
  /\ mainPc = "rdDecide"
  /\ Found # 0
  /\ read' = Resolved
  /\ rdState' = "READY" /\ rdLen' = HDR + header[Resolved]
  /\ mainPc' = "idle" /\ seenWrite' = 0 /\ seenLast' = 0
  /\ UNCHANGED <<write, last, reserve, wip, rip, header, wrVars, seenRead>>

ServiceRdNone ==
  /\ mainPc = "rdDecide"
  /\ Found = 0
  /\ read' = Resolved
  /\ rip' = FALSE
  /\ mainPc' = "idle" /\ seenWrite' = 0 /\ seenLast' = 0
  /\ UNCHANGED <<write, last, reserve, wip, header, wrVars, rdVars, seenRead>>

-----------------------------------------------------------------------------
(* The interrupt handlers.  Each call on a slot in another state returns    *)
(* without effect.                                                          *)

GetPrepWrDma ==
  /\ wrState = "READY"
  /\ wrState' = "BUSY"
  /\ UNCHANGED <<ringVars, wrLen, rdVars, mainVars>>

GetPrepRdDma ==
  /\ rdState = "READY"
  /\ rdState' = "BUSY"
  /\ UNCHANGED <<ringVars, rdLen, wrVars, mainVars>>

\* Mutation: the whole grant is committed, whatever is asked.
CommitAll(total) ==
  /\ last' = LastAfterCommit(write, last, reserve)
  /\ write' = reserve
  /\ wip' = FALSE
  /\ UNCHANGED reserve

\* commit_inner of `total` bytes of the grant, as one step.
CommitInner(total) ==
  LET newWrite == reserve - (wrLen - Smaller(wrLen, total))
  IN /\ reserve' = newWrite
     /\ last' = LastAfterCommit(write, last, newWrite)
     /\ write' = newWrite
     /\ wip' = FALSE

\* The cut of set_header.
CutToGrant(used) == Smaller(used, wrLen - HDR)

\* complete_wr_dma: `used` bytes, at most what the grant holds, with a header.
CompleteWrDma(used) ==
  LET frameLen == CutToGrant(used)
  IN /\ wrState = "BUSY"
     /\ header' = [header EXCEPT ![reserve - wrLen] = frameLen]
     /\ CommitInner(HDR + frameLen)
     /\ wrState' = "IDLE" /\ wrLen' = 0
     /\ UNCHANGED <<read, rip, rdVars, mainVars>>

\* abort_wr_dma: the grant is dropped, committing nothing.
AbortWrDma ==
  /\ wrState = "BUSY"
  /\ CommitInner(0)
  /\ wrState' = "IDLE" /\ wrLen' = 0
  /\ UNCHANGED <<read, rip, header, rdVars, mainVars>>

CompleteRdDma ==
  /\ rdState = "BUSY"
  /\ read' = ReadAfterRelease(read, rdLen, rdLen)
  /\ rip' = FALSE
  /\ rdState' = "IDLE" /\ rdLen' = 0
  /\ UNCHANGED <<write, last, reserve, wip, header, wrVars, mainVars>>

\* Mutation: an aborted read grant is forgotten instead of dropped.
AbortRdForgets ==
  /\ rdState = "BUSY"
  /\ rdState' = "IDLE" /\ rdLen' = 0
  /\ UNCHANGED <<ringVars, wrVars, mainVars>>

AbortRdDma ==
  /\ rdState = "BUSY"
  /\ rip' = FALSE
  /\ rdState' = "IDLE" /\ rdLen' = 0
  /\ UNCHANGED <<write, read, last, reserve, wip, header, wrVars, mainVars>>

-----------------------------------------------------------------------------
Main ==
  \/ ServiceWrBegin \/ ServiceWrLoad \/ ServiceWrPublish \/ ServiceWrRefused
  \/ ServiceRdBegin \/ ServiceRdLoad \/ ServiceRdPublish \/ ServiceRdNone

Handlers ==
  \/ GetPrepWrDma \/ GetPrepRdDma
  \/ \E used \in 0 .. MaxLen + 1 : CompleteWrDma(used)
  \/ AbortWrDma
  \/ CompleteRdDma \/ AbortRdDma

Next == Main \/ Handlers

Spec == Init /\ [][Next]_vars

\* The main loop runs for ever and serves both slots in each pass.
FairSpec ==
  /\ Spec
  /\ WF_vars(ServiceWrLoad \/ ServiceWrPublish \/ ServiceWrRefused)
  /\ WF_vars(ServiceRdLoad \/ ServiceRdPublish \/ ServiceRdNone)
  /\ SF_vars(ServiceWrBegin)
  /\ SF_vars(ServiceRdBegin)

-----------------------------------------------------------------------------
(* Properties.                                                             *)

\* The frames whose headers lie between two indices, in order.
FramesBetween(h, a, b) ==
  LET from[i \in 0 .. b + HDR + MaxLen] ==
        IF i >= b THEN <<>> ELSE <<h[i]>> \o from[i + HDR + h[i]]
  IN from[a]

Frames ==
  IF Inverted(write, read)
    THEN FramesBetween(header, read, last) \o FramesBetween(header, 0, write)
    ELSE FramesBetween(header, read, write)

\* The ring, the slots and the preempted main loop together are the pipe the
\* ports rely on: frames come out in order, whole, once; an aborted frame stays
\* first; a grant is refused only while frames or a dropped wrap are there.
Abstract == INSTANCE FramePipeSpec WITH
              PipeFrame <- FrameLengths, MaxFrames <- N,
              pipe <- [frames |-> Frames, wr |-> wrState, rd |-> rdState,
                       unresolved |-> Inverted(write, read) /\ write = 0]
ImplementsPipe == Abstract!PipeSpec

\* The refusals FramePipe allows: when main has just loaded `read` and is about
\* to be refused, the pipe holds a frame or a dropped wrap is unresolved.
RefusedOnlyWhenInUse ==
  [][ ServiceWrLoad /\ ~ExactGrant(write, read, HDR + MaxLen).ok =>
        Frames # <<>> \/ (Inverted(write, read) /\ write = 0) ]_vars

\* A slot has a grant in it exactly when the ring has one out and main is not
\* between taking and publishing it: no grant is leaked (the side would never
\* be served again) and none is used after it went back.
SlotsHoldTheGrants ==
  /\ wip <=> wrState # "IDLE" \/ mainPc \in {"wrLoad", "wrDecide"}
  /\ rip <=> rdState # "IDLE" \/ mainPc \in {"rdLoad", "rdDecide"}

\* A frame in the pipe is offered to the reading side, whatever that side
\* aborted before.
FrameIsOffered == (Frames # <<>>) ~> (rdState # "IDLE")
=============================================================================
