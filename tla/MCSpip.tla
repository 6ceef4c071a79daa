------------------------------- MODULE MCSpip -------------------------------
(***************************************************************************)
(* Spip for TLC: of a master that waits every kind of transaction, of one   *)
(* that does not the long ones, which use the channel.                      *)
(***************************************************************************)
EXTENDS Spip

MCWaiting == AllKinds \X {1, 2, 3, 5, 6}
MCHasty   == {"LONG_READ", "LONG_WRITE"} \X {0, 2}
=============================================================================
