----------------------------- MODULE MCSpiPort -----------------------------
(***************************************************************************)
(* SpiPort for TLC.                                                         *)
(***************************************************************************)
EXTENDS SpiPort

MCFrame == [len : 0 .. MaxLen, tag : Tags \cup {"none", "mixed"}]
=============================================================================
