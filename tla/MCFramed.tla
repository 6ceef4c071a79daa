------------------------------ MODULE MCFramed ------------------------------
(***************************************************************************)
(* Framed for TLC.                                                          *)
(***************************************************************************)
EXTENDS Framed

MCRequests == {sz + HDR_LEN : sz \in Asked}
=============================================================================
