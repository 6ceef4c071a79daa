---------------------------- MODULE MCSpiAnswers ----------------------------
(***************************************************************************)
(* SpiAnswers for TLC.                                                      *)
(***************************************************************************)
EXTENDS SpiAnswers

MCFrame == [len : 0 .. MaxLen, tag : Tags \cup {"none", "mixed"}]
=============================================================================
