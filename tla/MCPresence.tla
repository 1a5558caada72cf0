----------------------------- MODULE MCPresence -----------------------------
(* Two servers; a user's sessions a and c on the first, b on the second.   *)
EXTENDS Presence

CONSTANTS a, b, c, s1, s2

MCHome == [s \in Sessions |-> IF s = b THEN s2 ELSE s1]

(* Three sessions, one of which may log in twice, and one fault that       *)
(* leaves the lock alone; two sessions and two faults of nearly any kind.  *)
MCMixes ==
  {[sessions |-> {a, b, c}, logins |-> 3, faults |-> 1,
    kinds |-> {"kickLost", "kickLate", "lockWait", "crash"}],
   [sessions |-> {a, b}, logins |-> 2, faults |-> 2,
    kinds |-> {"kickLate", "lockWait", "lockExpires", "redis", "crash"}]}
=============================================================================
