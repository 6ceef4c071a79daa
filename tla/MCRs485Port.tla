---------------------------- MODULE MCRs485Port ----------------------------
(***************************************************************************)
(* Rs485Port for TLC.                                                       *)
(***************************************************************************)
EXTENDS Rs485Port

MCFrame == [len : 0 .. MaxLen, tag : {"a", "b", "mixed"}]
=============================================================================
