---------------------------- MODULE MCTransfer ----------------------------
(* Transfer for TLC.                                                       *)
EXTENDS Transfer
=============================================================================
