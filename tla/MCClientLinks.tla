--------------------------- MODULE MCClientLinks ---------------------------
(* ClientLinks for TLC.                                                    *)
EXTENDS ClientLinks
=============================================================================
