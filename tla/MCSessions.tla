----------------------------- MODULE MCSessions -----------------------------
(* Sessions of both servers, for TLC.                                      *)
EXTENDS Sessions
=============================================================================
