------------------------------ MODULE MCSendto ------------------------------
(***************************************************************************)
(* An instance of Sendto for TLC: the files to send.                       *)
(***************************************************************************)
EXTENDS Sendto

TwoFiles == <<"first", "second">>
=============================================================================
