------------------------------ MODULE MCModem ------------------------------
(***************************************************************************)
(* Modem for TLC.                                                           *)
(***************************************************************************)
EXTENDS Modem

MCFrame == [len : 0 .. MaxLen, tag : Tags \cup {"none", "mixed"}]
=============================================================================
