------------------------------ MODULE MCOutbox ------------------------------
(***************************************************************************)
(* Instances of Outbox for TLC: a text t and a file f.                     *)
(***************************************************************************)
EXTENDS Outbox

CONSTANTS t, f

MCMixed == <<t, f>>

(* Two faults of any kind but the engine's; two crashes or lost            *)
(* connections while a request has two copies under way; three faults,     *)
(* with a text that the server refuses.                                    *)
MCMixes ==
  {[refused |-> {}, copies |-> 1, faults |-> 2,
    kinds |-> AllFaults \ {"upload"}],
   [refused |-> {}, copies |-> 2, faults |-> 2,
    kinds |-> {"cut", "crash", "resourceCut"}],
   [refused |-> {t}, copies |-> 1, faults |-> 3,
    kinds |-> {"cut", "crash", "load", "server", "source", "upload",
               "resourceCut", "resourceLogin"}]}
=============================================================================
