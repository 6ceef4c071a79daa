----------------------------- MODULE MCBBBuffer -----------------------------
(***************************************************************************)
(* BBBuffer for TLC.                                                        *)
(***************************************************************************)
EXTENDS BBBuffer

MCRequests == 0 .. N + 1      \* up to one more than can ever be granted
=============================================================================
