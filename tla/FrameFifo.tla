------------------------------ MODULE FrameFifo ------------------------------
(***************************************************************************)
(* What the framed flavour of the buffer promises: a queue of frames, each  *)
(* handed out whole, in order and once.  The reader holds the first frame   *)
(* until it releases it or gives it back.                                   *)
(***************************************************************************)
EXTENDS Sequences

CONSTANT Frame           \* the payloads, the empty one included

VARIABLES staged,        \* <<>> or <<the payload the writer is committing>>
          frames,        \* committed and not released
          held           \* <<>> or <<the frame the reader holds>>

frameVars == <<staged, frames, held>>

FrameInit == staged = <<>> /\ frames = <<>> /\ held = <<>>

\* The commit begins with a payload; it may also turn out to commit none.
Stage ==
  /\ staged' \in {<<>>} \cup {<<f>> : f \in Frame}
  /\ UNCHANGED <<frames, held>>

Put ==
  /\ staged # <<>>
  /\ frames' = frames \o staged
  /\ staged' = <<>>
  /\ UNCHANGED held

Look ==
  /\ held = <<>>
  /\ frames # <<>>
  /\ held' = <<Head(frames)>>
  /\ UNCHANGED <<staged, frames>>

Release ==
  /\ held # <<>>
  /\ frames' = Tail(frames)
  /\ held' = <<>>
  /\ UNCHANGED staged

GiveBack ==
  /\ held # <<>>
  /\ held' = <<>>
  /\ UNCHANGED <<staged, frames>>

FrameNext == Stage \/ Put \/ Look \/ Release \/ GiveBack

FrameSpec == FrameInit /\ [][FrameNext]_frameVars
=============================================================================
