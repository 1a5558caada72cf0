--------------------------- MODULE EventDelivery ---------------------------
(***************************************************************************)
(* What the chat system promises the holder of one client database: the    *)
(* events committed for the user are applied in order, each with the       *)
(* cursor that records it, whatever threads, connections, notifications,   *)
(* pages and restarts it takes.  ChatSync implements this specification.   *)
(***************************************************************************)
EXTENDS Naturals, Sequences

CONSTANT Kinds   \* kinds of user events

VARIABLES
  log,           \* events committed for the user, in commit order
  cursor,        \* number of the last event the database has taken in
  bootstrapped,  \* the database has been initialised from a snapshot
  base,          \* the cursor that snapshot gave it
  applied        \* events whose effect the database holds

vars == <<log, cursor, bootstrapped, base, applied>>

Messages(events) == {i \in events \cap 1 .. Len(log) : log[i] = "message"}

\* The database holds the friend requests and contacts of the first n events.
HoldsFriends(events, n) ==
  \A i \in 1 .. n : log[i] \in {"apply", "accept"} => i \in events

Init ==
  /\ log = <<>>
  /\ cursor = 0
  /\ bootstrapped = FALSE
  /\ base = 0
  /\ applied = {}

Commit ==
  /\ \E kind \in Kinds : log' = Append(log, kind)
  /\ UNCHANGED <<cursor, bootstrapped, base, applied>>

(* The next events, all of them, and the cursor.                           *)
Deliver ==
  /\ cursor' \in cursor + 1 .. Len(log)
  /\ applied' = applied \cup (cursor + 1 .. cursor')
  /\ UNCHANGED <<log, bootstrapped, base>>

(* Friend state is restored from a snapshot: no message is touched, and    *)
(* nothing the cursor stands for is lost.                                  *)
Restore ==
  /\ applied' \subseteq 1 .. Len(log)
  /\ Messages(applied') = Messages(applied)
  /\ HoldsFriends(applied', cursor)
  /\ UNCHANGED <<log, cursor, bootstrapped, base>>

(* Once in the life of the database the cursor jumps to the checkpoint of  *)
(* a snapshot, whose friend state is already there.                        *)
Bootstrap ==
  /\ ~bootstrapped
  /\ bootstrapped' = TRUE
  /\ cursor' \in cursor .. Len(log)
  /\ base' = cursor'
  /\ HoldsFriends(applied, cursor')
  /\ UNCHANGED <<log, applied>>

Next == Commit \/ Deliver \/ Restore \/ Bootstrap

Spec == Init /\ [][Next]_vars
=============================================================================
