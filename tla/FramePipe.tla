------------------------------ MODULE FramePipe ------------------------------
(***************************************************************************)
(* A pipe of firmware/src/modem/pipes.rs as the rest of the firmware uses   *)
(* it: a queue of frames and the state of its two grant slots.  Each        *)
(* function of Pipe is an operator from pipe to pipe, so that a handler     *)
(* that makes several calls composes them.  Pipe shows that the code, which *)
(* keeps a ring of bytes below the slots and lets interrupts into the       *)
(* middle of its main-loop functions, takes only these steps.               *)
(***************************************************************************)
EXTENDS Integers, Sequences

CONSTANTS PipeFrame,     \* the frames a pipe may carry
          MaxFrames      \* bound: frames a pipe holds at once

IDLE  == "IDLE"          \* Pipe::STATE_IDLE: no grant in the slot
READY == "READY"         \* Pipe::STATE_GRANT_READY: a grant waits in the slot
BUSY  == "BUSY"          \* Pipe::STATE_GRANT_BUSY: an interrupt handler has it
SlotState == {IDLE, READY, BUSY}

\* `unresolved`: a write grant that had wrapped was dropped, and the reader has
\* not been back to the start of the ring since; until it has, even an empty
\* ring may have no room.
PipeState ==
  [frames : UNION {[1 .. n -> PipeFrame] : n \in 0 .. MaxFrames},
   wr : SlotState, rd : SlotState, unresolved : BOOLEAN]

EmptyPipe == [frames |-> <<>>, wr |-> IDLE, rd |-> IDLE, unresolved |-> FALSE]

-----------------------------------------------------------------------------
(* Called by the main loop.                                                *)

\* service_lowprio_wr: the ring may refuse a grant only while it holds frames
\* or its wrap is unresolved.
CanGrantWr(p)  == p.wr = IDLE /\ Len(p.frames) < MaxFrames
MayRefuseWr(p) == p.wr = IDLE /\ (p.frames # <<>> \/ p.unresolved)
ServiceWr(p)   == [p EXCEPT !.wr = READY]

\* service_lowprio_rd: there is a grant as soon as there is a frame; finding
\* none, the reader goes back to the start of the ring.
CanGrantRd(p)    == p.rd = IDLE /\ p.frames # <<>>
ServiceRd(p)     == [p EXCEPT !.rd = READY]
FindsNone(p)     == p.rd = IDLE /\ p.frames = <<>>
ServiceRdNone(p) == [p EXCEPT !.unresolved = FALSE]

-----------------------------------------------------------------------------
(* Called by interrupt handlers.                                           *)

PrepWr(p) == IF p.wr = READY THEN [p EXCEPT !.wr = BUSY] ELSE p
PrepRd(p) == IF p.rd = READY THEN [p EXCEPT !.rd = BUSY] ELSE p

\* abort_wr_dma drops the grant: nothing is committed, but a wrap is done.
AbortWr(p) == IF p.wr = BUSY
                THEN {[p EXCEPT !.wr = IDLE, !.unresolved = u] : u \in {p.unresolved, TRUE}}
                ELSE {p}
\* Mutation: the grant stays in the slot.
AbortRdKeeps(p) == p

AbortRd(p) == IF p.rd = BUSY THEN [p EXCEPT !.rd = IDLE] ELSE p

CompleteWr(p, f) == IF p.wr = BUSY
                      THEN [p EXCEPT !.wr = IDLE, !.frames = Append(@, f),
                                     !.unresolved = FALSE]
                      ELSE p
\* Mutations: the grant stays in the slot; it is given back with its frame.
CompleteRdKeeps(p) == p
CompleteRdGivesBack(p) == IF p.rd = BUSY THEN [p EXCEPT !.rd = IDLE] ELSE p

CompleteRd(p) == IF p.rd = BUSY THEN [p EXCEPT !.rd = IDLE, !.frames = Tail(@)] ELSE p
=============================================================================
