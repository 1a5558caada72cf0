------------------------- MODULE MCResourceUpload -------------------------
(* Two messages with one content; the source of the second changed.        *)
EXTENDS ResourceUpload

CONSTANTS m1, m2, x

MCSha == [m \in Messages |-> x]

(* The collector is the same code on both platforms.                       *)
MCFaults ==
  [p \in Platforms |-> {"db", "disk", "corrupt", "idle", "crash"}
                       \cup (IF p = "posix" THEN {"week"} ELSE {})]
=============================================================================
