------------------------------ MODULE EventLog ------------------------------
(***************************************************************************)
(* What the servers promise about the events of users: a log per user that *)
(* only grows at its end, and in which no event stands twice.  ChatSync    *)
(* and Outbox rely on it.                                                  *)
(***************************************************************************)
EXTENDS Naturals, Sequences

CONSTANTS Users, Texts, Files, Requests

VARIABLE log

Events == ({"message"} \X (Texts \cup Files))
            \cup ({"apply", "accept", "reject"} \X Requests)

Init == log = [u \in Users |-> <<>>]

Commit(u, e) ==
  /\ log' = [log EXCEPT ![u] = Append(@, e)]
  /\ \A v \in Users : \A i \in DOMAIN log[v] : log[v][i] # e

Next == \E u \in Users, e \in Events : Commit(u, e)

Spec == Init /\ [][Next]_log
=============================================================================
