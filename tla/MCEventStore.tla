---------------------------- MODULE MCEventStore ----------------------------
(* Users a and b: text t and file f from a to b, requests p and q from a   *)
(* to b and r from b to a.                                                 *)
EXTENDS EventStore

CONSTANTS a, b, t, f, p, q, r, w1, w2

MCFrom == [x \in Messages \cup Requests |-> IF x = r THEN b ELSE a]
MCTo == [x \in Messages \cup Requests |-> IF x = r THEN a ELSE b]
=============================================================================
