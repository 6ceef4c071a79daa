--------------------------- MODULE FramePipeSpec ---------------------------
(***************************************************************************)
(* The behaviours of one pipe whose callers may do anything: what Pipe is   *)
(* shown to implement, and what the modules of the ports build on.          *)
(***************************************************************************)
EXTENDS FramePipe

VARIABLE pipe

PipeInit == pipe = EmptyPipe

PipeNext ==
  \/ CanGrantWr(pipe) /\ pipe' = ServiceWr(pipe)
  \/ CanGrantRd(pipe) /\ pipe' = ServiceRd(pipe)
  \/ FindsNone(pipe) /\ pipe' = ServiceRdNone(pipe)
  \/ pipe' = PrepWr(pipe)
  \/ pipe' = PrepRd(pipe)
  \/ pipe' \in AbortWr(pipe)
  \/ pipe' = AbortRd(pipe)
  \/ \E f \in PipeFrame : pipe' = CompleteWr(pipe, f)
  \/ pipe' = CompleteRd(pipe)

PipeSpec == PipeInit /\ [][PipeNext]_pipe
=============================================================================
