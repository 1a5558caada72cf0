----------------------------- MODULE EventStore -----------------------------
(***************************************************************************)
(* The transactions of the chat and resource servers on the MySQL tables   *)
(* of messages, friendships and user events.                               *)
(*                                                                         *)
(* A worker (a thread of any server) runs one operation at a time.  It     *)
(* takes the row locks of its statements one statement after another,      *)
(* keeps them until it commits or rolls back, and its writes show with the *)
(* commit.  An insert also takes shared locks on the rows that its foreign *)
(* keys name.  Locks on gaps are left out, which only adds interleavings,  *)
(* and so are the unique keys of user_events: what is shown rests on the   *)
(* locks alone, and no transaction is ever refused by such a key.          *)
(* Workers that wait for each other are a deadlock; InnoDB rolls one back. *)
(***************************************************************************)
EXTENDS Naturals, FiniteSets

CONSTANTS
  Users,
  Texts, Files,         \* messages, named by sender and client_message_id
  Requests,             \* requests, named by requester and client_request_id
  From, To,             \* the users of a message or of a request
  Workers,
  None,
  MaxOperations,        \* bound: operations in a behaviour
  MaxFaults,            \* bound: statements and commits that fail
  Faults,               \* which do: a subset of AllFaults
  DeadlockRetries,      \* deadlock_retries_ of the chat server
  PublishAttempts       \* kPublishDeadlockMaxRetries of the resource server

Messages == Texts \cup Files

AllFaults == {"statement", "gap", "commit"}

ASSUME TablesAssumption ==
  /\ Texts \cap Files = {}
  /\ Messages \cap Requests = {}
  /\ From \in [Messages \cup Requests -> Users]
  /\ To \in [Messages \cup Requests -> Users]
  /\ \A x \in Messages \cup Requests : From[x] # To[x]
  /\ None \notin Messages \cup Requests

ASSUME BoundsAssumption ==
  /\ MaxOperations \in Nat
  /\ MaxFaults \in Nat
  /\ Faults \subseteq AllFaults
  /\ DeadlockRetries \in Nat
  /\ PublishAttempts \in Nat \ {0}

VARIABLES
  chats, friends,       \* private_chats, friendships: sets of pairs of users
  message,              \* chat_messages.status
  request,              \* friend_requests.status
  lastSeq,              \* users.last_event_seq
  events,               \* user_events
  op, pc, attempt,      \* per worker: operation, next statement, attempt
  seq,                  \* per worker: the event_seq it has allocated
  xlocks, slocks,       \* per worker: rows it has locked
  answer,               \* per worker: result of the operation
  started, faults

tables == <<chats, friends, message, request, lastSeq, events>>
vars == <<tables, op, pc, attempt, seq, xlocks, slocks, answer, started,
          faults>>

Pair(x) == {From[x], To[x]}

Operations ==
  [kind : {"send"}, ref : Messages]
    \cup [kind : {"publish", "fail"}, ref : Files]
    \cup [kind : {"apply", "accept", "reject"}, ref : Requests]
    \cup [kind : {"chat"}, ref : Messages]

NoOperation == [kind |-> "none", ref |-> None]

Init ==
  /\ chats = {}
  /\ friends = {}
  /\ message = [m \in Messages |-> "none"]
  /\ request = [r \in Requests |-> "none"]
  /\ lastSeq = [u \in Users |-> 0]
  /\ events = {}
  /\ op = [w \in Workers |-> NoOperation]
  /\ pc = [w \in Workers |-> "done"]
  /\ attempt = [w \in Workers |-> 0]
  /\ seq = [w \in Workers |-> 0]
  /\ xlocks = [w \in Workers |-> {}]
  /\ slocks = [w \in Workers |-> {}]
  /\ answer = [w \in Workers |-> "none"]
  /\ started = 0
  /\ faults = 0

-----------------------------------------------------------------------------
(* Row locks.                                                              *)

User(u) == <<"user", u>>
Chat(x) == <<"chat", Pair(x)>>
Friendship(x) == <<"friendship", Pair(x)>>
Row(x) == <<"row", x>>

\* Requests of the same direction, and of either, that a scan for pending
\* rows meets: pending ones, and ones that may be being inserted.
Scanned(r) == {q \in Requests : request[q] \in {"none", "pending"}
                                  /\ From[q] = From[r] /\ To[q] = To[r]}
ScannedBoth(r) == {q \in Requests : request[q] \in {"none", "pending"}
                                      /\ Pair(q) = Pair(r)}

Rows(set) == {Row(q) : q \in set}

\* The rows that exist: a locking read locks these.
Stored ==
  {User(u) : u \in Users}
    \cup {<<"chat", p>> : p \in chats}
    \cup Rows({m \in Messages : message[m] # "none"})
    \cup Rows({r \in Requests : request[r] # "none"})

\* What the next statement of worker w locks exclusively.
XWants(w) ==
  LET x == op[w].ref
  IN  CASE pc[w] \in {"chat", "chatRow", "newChat", "create"} -> {Chat(x)}
        [] pc[w] \in {"key", "insert", "message", "mark", "request",
                      "insertRequest", "handle"} -> {Row(x)}
        [] pc[w] = "target" -> {User(To[x])}
        [] pc[w] = "pending" -> Rows(Scanned(x))
        [] pc[w] = "newFriend" -> {Friendship(x)}
        [] pc[w] = "both" -> Rows(ScannedBoth(x))
        [] pc[w] = "seq" -> {User(IF op[w].kind \in {"accept", "reject"}
                                  THEN From[x] ELSE To[x])}
        [] OTHER -> {}

\* What the foreign keys of the rows that it inserts make it share.
SWants(w) ==
  LET x == op[w].ref
  IN  CASE pc[w] \in {"insert", "insertRequest"} -> {User(From[x])}
        [] pc[w] \in {"newChat", "create"} /\ Pair(x) \notin chats ->
             {User(u) : u \in Pair(x)}
        [] pc[w] = "newFriend" /\ Pair(x) \notin friends ->
             {User(u) : u \in Pair(x)}
        [] OTHER -> {}

Blockers(w) ==
  {v \in Workers \ {w} : \/ XWants(w) \cap (xlocks[v] \cup slocks[v]) # {}
                         \/ SWants(w) \cap xlocks[v] # {}}

\* The statement at label takes its locks: an insert all, a locking read
\* those on rows that exist.
Inserts(w) == /\ Blockers(w) = {}
              /\ xlocks' = [xlocks EXCEPT ![w] = @ \cup XWants(w)]
              /\ slocks' = [slocks EXCEPT ![w] = @ \cup SWants(w)]

Locks(w) == /\ Blockers(w) = {}
            /\ xlocks' = [xlocks EXCEPT ![w] = @ \cup (XWants(w) \cap Stored)]
            /\ UNCHANGED slocks

-----------------------------------------------------------------------------
(* Ends of an operation.                                                   *)

At(w, label) == pc[w] = label

Goto(w, label) ==
  /\ pc' = [pc EXCEPT ![w] = label]
  /\ UNCHANGED <<tables, op, attempt, seq, answer, started, faults>>

\* The transaction is over, with the tables as the caller leaves them.
Finish(w, result) ==
  /\ pc' = [pc EXCEPT ![w] = "done"]
  /\ xlocks' = [xlocks EXCEPT ![w] = {}]
  /\ slocks' = [slocks EXCEPT ![w] = {}]
  /\ seq' = [seq EXCEPT ![w] = 0]
  /\ attempt' = [attempt EXCEPT ![w] = 0]
  /\ answer' = [answer EXCEPT ![w] = result]
  /\ UNCHANGED <<op, started>>

\* Mutant: an early return does not end the transaction.
LeaveOpen(w, result) ==
  /\ pc' = [pc EXCEPT ![w] = "done"]
  /\ answer' = [answer EXCEPT ![w] = result]
  /\ UNCHANGED <<tables, op, attempt, seq, xlocks, slocks, started, faults>>

\* Rolled back, or committed without a write.
Leave(w, result) == Finish(w, result) /\ UNCHANGED <<tables, faults>>

FirstStep(kind) ==
  CASE kind = "send" -> "members"
    [] kind = "publish" -> "message"
    [] kind = "fail" -> "mark"
    [] kind = "apply" -> "target"
    [] kind \in {"accept", "reject"} -> "handle"
    [] kind = "chat" -> "create"

(* A server takes up a request.                                            *)
Start(w, o) ==
  /\ At(w, "done")
  /\ started < MaxOperations
  /\ started' = started + 1
  /\ op' = [op EXCEPT ![w] = o]
  /\ pc' = [pc EXCEPT ![w] = FirstStep(o.kind)]
  /\ answer' = [answer EXCEPT ![w] = "none"]
  /\ UNCHANGED <<tables, attempt, seq, xlocks, slocks, faults>>

-----------------------------------------------------------------------------
(* AddChatMsg, for DealChatTextMsg and DealCreateResourceMsg.              *)

(* The handler reads the members of the chat before the transaction.       *)
GetPrivateChatMembers(w) ==
  /\ At(w, "members")
  /\ IF Pair(op[w].ref) \in chats
     THEN Goto(w, "chat") /\ UNCHANGED <<xlocks, slocks>>
     ELSE Leave(w, "refused")

(* The chat is locked.  Chats are never deleted, so it is still there.     *)
ReadPrivateChatMembers(w) ==
  /\ At(w, "chat")
  /\ Locks(w)
  /\ Goto(w, "key")

(* The message with this key: a repeated request is answered from it.      *)
FindMessage(w) ==
  /\ At(w, "key")
  /\ Blockers(w) = {}
  /\ IF message[op[w].ref] = "none" THEN Goto(w, "insert") /\ Locks(w)
                                    ELSE Leave(w, "ok")

InsertMessage(w) ==
  /\ At(w, "insert")
  /\ Inserts(w)
  /\ Goto(w, IF op[w].ref \in Files THEN "commit" ELSE "seq")

-----------------------------------------------------------------------------
(* CompleteResourceUpload and MarkResourceFailed of the resource server.   *)

\* Mutant: the rows are read without FOR UPDATE.
LockMessageUnlocked(w) ==
  /\ At(w, "message")
  /\ IF message[op[w].ref] = "pending"
     THEN Goto(w, "seq") /\ UNCHANGED <<xlocks, slocks>>
     ELSE Leave(w, "refused")

(* One statement joins the message, its chat and its resource.             *)
LockMessage(w) ==
  /\ At(w, "message")
  /\ Blockers(w) = {}
  /\ IF message[op[w].ref] = "none" THEN Leave(w, "refused")
                                    ELSE Goto(w, "chatRow") /\ Locks(w)

LockChat(w) ==
  /\ At(w, "chatRow")
  /\ Blockers(w) = {}
  /\ CASE message[op[w].ref] = "published" -> Leave(w, "ok")
       [] message[op[w].ref] = "failed" -> Leave(w, "refused")
       [] message[op[w].ref] = "pending" -> Goto(w, "seq") /\ Locks(w)

\* Mutant: the status is not part of the condition.
MarkResourceFailedAny(w) ==
  /\ At(w, "mark")
  /\ Blockers(w) = {}
  /\ message' = [message EXCEPT ![op[w].ref] = "failed"]
  /\ Finish(w, "ok")
  /\ UNCHANGED <<chats, friends, request, lastSeq, events, faults>>

(* A statement of its own: a pending message is given up.                  *)
MarkResourceFailed(w) ==
  /\ At(w, "mark")
  /\ Blockers(w) = {}
  /\ IF message[op[w].ref] = "pending"
     THEN /\ message' = [message EXCEPT ![op[w].ref] = "failed"]
          /\ Finish(w, "ok")
          /\ UNCHANGED <<chats, friends, request, lastSeq, events, faults>>
     ELSE Leave(w, "refused")

-----------------------------------------------------------------------------
(* AddFriendApply.                                                         *)

\* Mutant: the row of the target is read without FOR UPDATE.
LockTargetUnlocked(w) ==
  /\ At(w, "target")
  /\ Goto(w, "friendship")
  /\ UNCHANGED <<xlocks, slocks>>

LockTarget(w) ==
  /\ At(w, "target")
  /\ Locks(w)
  /\ Goto(w, "friendship")

(* Plain reads, from the view of the transaction that they open.           *)
CheckFriendship(w) ==
  /\ At(w, "friendship")
  /\ IF Pair(op[w].ref) \in friends
     THEN Leave(w, "refused")
     ELSE Goto(w, "request") /\ UNCHANGED <<xlocks, slocks>>

(* The request with this key: a repeated request is answered from it.      *)
FindRequest(w) ==
  /\ At(w, "request")
  /\ Blockers(w) = {}
  /\ IF request[op[w].ref] = "none" THEN Goto(w, "pending") /\ Locks(w)
                                    ELSE Leave(w, "ok")

(* An earlier request that is still pending stands for the new one.        *)
FindPending(w) ==
  /\ At(w, "pending")
  /\ Blockers(w) = {}
  /\ IF \E q \in Scanned(op[w].ref) : request[q] = "pending"
     THEN Leave(w, "ok")
     ELSE Goto(w, "insertRequest") /\ Locks(w)

InsertRequest(w) ==
  /\ At(w, "insertRequest")
  /\ Inserts(w)
  /\ Goto(w, "seq")

-----------------------------------------------------------------------------
(* HandleFriendApply and CreatePrivateChat.                                *)

(* A request that was handled the same way before counts as done.          *)
ReadRequest(w) ==
  LET status == request[op[w].ref]
      desired == IF op[w].kind = "accept" THEN "accepted" ELSE "rejected"
  IN  /\ At(w, "handle")
      /\ Blockers(w) = {}
      /\ IF status = "pending"
         THEN /\ Goto(w, IF op[w].kind = "accept" THEN "newChat" ELSE "seq")
              /\ Locks(w)
         ELSE Leave(w, IF status = desired THEN "ok" ELSE "refused")

(* The chat is created, or found by its key.                               *)
InsertChat(w) ==
  /\ At(w, "newChat")
  /\ Inserts(w)
  /\ Goto(w, "newFriend")

InsertFriendship(w) ==
  /\ At(w, "newFriend")
  /\ Inserts(w)
  /\ Goto(w, "both")

(* All pending requests between the two are accepted with this one.        *)
UpdateRequests(w) ==
  /\ At(w, "both")
  /\ Locks(w)
  /\ Goto(w, "seq")

CreatePrivateChat(w) ==
  /\ At(w, "create")
  /\ Blockers(w) = {}
  /\ chats' = chats \cup {Pair(op[w].ref)}
  /\ Finish(w, "ok")
  /\ UNCHANGED <<friends, message, request, lastSeq, events, faults>>

-----------------------------------------------------------------------------
(* Event and commit.                                                       *)

Recipient(o) == IF o.kind \in {"accept", "reject"} THEN From[o.ref]
                                                  ELSE To[o.ref]

\* Mutant: the counter is read without FOR UPDATE.
AllocateEventSeqUnlocked(w) ==
  /\ At(w, "seq")
  /\ pc' = [pc EXCEPT ![w] = "commit"]
  /\ seq' = [seq EXCEPT ![w] = lastSeq[Recipient(op[w])] + 1]
  /\ UNCHANGED <<tables, op, attempt, xlocks, slocks, answer, started, faults>>

(* The row of the recipient is locked from here to the commit, which makes *)
(* numbers appear in order and without gaps.                               *)
AllocateEventSeq(w) ==
  /\ At(w, "seq")
  /\ Inserts(w)
  /\ pc' = [pc EXCEPT ![w] = "commit"]
  /\ seq' = [seq EXCEPT ![w] = lastSeq[Recipient(op[w])] + 1]
  /\ UNCHANGED <<tables, op, attempt, answer, started, faults>>

EventKind(kind) == IF kind \in {"send", "publish"} THEN "message" ELSE kind

(* Everything the transaction wrote appears at once.                       *)
Writes(w) ==
  LET o == op[w]
      u == Recipient(o)
      n == seq[w]
      handled == {r \in Requests : Row(r) \in xlocks[w]}
  IN  /\ message' = IF o.kind \in {"send", "publish"}
                    THEN [message EXCEPT ![o.ref] =
                            IF n = 0 THEN "pending" ELSE "published"]
                    ELSE message
      /\ request' = CASE o.kind = "apply" ->
                           [request EXCEPT ![o.ref] = "pending"]
                      [] o.kind = "accept" ->
                           [r \in Requests |-> IF r \in handled THEN "accepted"
                                                            ELSE request[r]]
                      [] o.kind = "reject" ->
                           [request EXCEPT ![o.ref] = "rejected"]
                      [] OTHER -> request
      /\ chats' = chats \cup {p \in {Pair(o.ref)} : Chat(o.ref) \in xlocks[w]}
      /\ friends' = IF o.kind = "accept" THEN friends \cup {Pair(o.ref)}
                                         ELSE friends
      /\ lastSeq' = IF n = 0 THEN lastSeq ELSE [lastSeq EXCEPT ![u] = n]
      /\ events' = IF n = 0 THEN events
                   ELSE events \cup {[user |-> u, seq |-> n, ref |-> o.ref,
                                      type |-> EventKind(o.kind)]}

Commit(w) ==
  /\ At(w, "commit")
  /\ Writes(w)
  /\ Finish(w, "ok")
  /\ UNCHANGED faults

-----------------------------------------------------------------------------
(* Failures.                                                               *)

Fault(kind) ==
  /\ kind \in Faults
  /\ faults < MaxFaults
  /\ faults' = faults + 1

\* Only AddChatMsg and CompleteResourceUpload try again, a bounded number of
\* times, and only after a deadlock.
CanRetry(w) ==
  \/ op[w].kind = "send" /\ attempt[w] < DeadlockRetries
  \/ op[w].kind = "publish" /\ attempt[w] + 1 < PublishAttempts

Retry(w) ==
  /\ CanRetry(w)
  /\ pc' = [pc EXCEPT ![w] = IF op[w].kind = "send" THEN "chat" ELSE "message"]
  /\ attempt' = [attempt EXCEPT ![w] = @ + 1]
  /\ xlocks' = [xlocks EXCEPT ![w] = {}]
  /\ slocks' = [slocks EXCEPT ![w] = {}]
  /\ seq' = [seq EXCEPT ![w] = 0]
  /\ UNCHANGED <<op, answer, started>>

\* The catch clauses after error 1213, which has rolled back everything.
DeadlockError(w) ==
  /\ IF CanRetry(w) THEN Retry(w) ELSE Finish(w, "failed")
  /\ UNCHANGED tables

\* Workers that each wait for one of them, and no fewer do.
Stuck(set) == set # {} /\ \A w \in set : Blockers(w) \cap set # {}

Cycle(set) == Stuck(set) /\ \A part \in SUBSET set : Stuck(part) => part = set

(* InnoDB finds a deadlock and rolls back one of its workers.              *)
Deadlock(w) ==
  /\ \E set \in SUBSET Workers : w \in set /\ Cycle(set)
  /\ DeadlockError(w)
  /\ UNCHANGED faults

(* A deadlock over locks on gaps.                                          *)
GapDeadlock(w) ==
  /\ xlocks[w] # {}
  /\ Fault("gap")
  /\ DeadlockError(w)

(* A statement fails, or the connection, and the transaction with it.      *)
StatementFails(w) ==
  /\ ~At(w, "done")
  /\ Fault("statement")
  /\ Finish(w, "failed")
  /\ UNCHANGED tables

(* The commit is done but is reported as failed.                           *)
CommitFails(w) ==
  /\ At(w, "commit")
  /\ Fault("commit")
  /\ Writes(w)
  /\ Finish(w, "failed")

-----------------------------------------------------------------------------

Step(w) ==
  \/ GetPrivateChatMembers(w)
  \/ ReadPrivateChatMembers(w)
  \/ FindMessage(w)
  \/ InsertMessage(w)
  \/ LockMessage(w)
  \/ LockChat(w)
  \/ MarkResourceFailed(w)
  \/ LockTarget(w)
  \/ CheckFriendship(w)
  \/ FindRequest(w)
  \/ FindPending(w)
  \/ InsertRequest(w)
  \/ ReadRequest(w)
  \/ InsertChat(w)
  \/ InsertFriendship(w)
  \/ UpdateRequests(w)
  \/ CreatePrivateChat(w)
  \/ AllocateEventSeq(w)
  \/ Commit(w)

Next ==
  \E w \in Workers :
    \/ \E o \in Operations : Start(w, o)
    \/ Step(w)
    \/ Deadlock(w)
    \/ GapDeadlock(w)
    \/ StatementFails(w)
    \/ CommitFails(w)

Spec == Init /\ [][Next]_vars

(* Threads run on, MySQL executes statements and finds deadlocks.          *)
FairSpec == Spec /\ \A w \in Workers : WF_vars(Step(w) \/ Deadlock(w))

-----------------------------------------------------------------------------
(* Reads of the event log.                                                 *)

\* The rows that GetEventsAfterSeq reads, whose numbers continue "after".
GetEventsAfterSeq(u, after) == {e \in events : e.user = u /\ e.seq > after}

\* The row an event refers to is found and is in the state the event says.
Resolves(e) ==
  CASE e.type = "message" -> message[e.ref] = "published" /\ e.user = To[e.ref]
    [] e.type = "apply" -> request[e.ref] # "none" /\ e.user = To[e.ref]
    [] e.type = "accept" -> request[e.ref] = "accepted" /\ e.user = From[e.ref]
    [] e.type = "reject" -> request[e.ref] = "rejected" /\ e.user = From[e.ref]

-----------------------------------------------------------------------------
(* Properties.                                                             *)

Labels == {"done", "members", "chat", "key", "insert", "message", "chatRow",
           "mark", "target", "friendship", "request", "pending",
           "insertRequest", "handle", "newChat", "newFriend", "both",
           "create", "seq", "commit"}

Pairs == {Pair(x) : x \in Messages \cup Requests}

TypeOK ==
  /\ chats \subseteq Pairs
  /\ friends \subseteq chats
  /\ message \in [Messages -> {"none", "pending", "published", "failed"}]
  /\ \A m \in Texts : message[m] \in {"none", "published"}
  /\ request \in [Requests -> {"none", "pending", "accepted", "rejected"}]
  /\ lastSeq \in [Users -> Nat]
  /\ op \in [Workers -> Operations \cup {NoOperation}]
  /\ pc \in [Workers -> Labels]
  /\ attempt \in [Workers -> 0 .. DeadlockRetries + PublishAttempts]
  /\ seq \in [Workers -> Nat]
  /\ answer \in [Workers -> {"none", "ok", "refused", "failed"}]
  /\ started \in 0 .. MaxOperations
  /\ faults \in 0 .. MaxFaults

(* Events and tables match. GetEventsAfterSeq never fails on a row that is *)
(* missing or not published, whatever commits in between; a published      *)
(* message and a request have one event for their recipient; and users are *)
(* friends only when a request of one of them was accepted, and its        *)
(* requester has the event.  Stated together with the types.               *)
EventsMatchTables ==
  /\ TypeOK
  /\ \A u \in Users : \A e \in GetEventsAfterSeq(u, 0) : Resolves(e)
  /\ \A m \in Messages : message[m] = "published" =>
       Cardinality({e \in events : e.ref = m}) = 1
  /\ \A r \in Requests : request[r] # "none" =>
       Cardinality({e \in events : e.ref = r /\ e.type = "apply"}) = 1
  /\ \A p \in friends : \E e \in events : e.type = "accept" /\ Pair(e.ref) = p

(* The check for a friendship, a plain read, is not outrun by an accept:   *)
(* friends have no pending request between them, and nobody has two        *)
(* pending requests to the same user.                                      *)
NoSuperfluousRequest ==
  \A r \in Requests : request[r] = "pending" =>
    /\ Pair(r) \notin friends
    /\ \A q \in Scanned(r) : request[q] = "pending" => q = r

(* An operation that is answered with success has happened and stays so,   *)
(* also when another copy of the request, or the opposite one, ran at the  *)
(* same time.                                                              *)
Holds(o) ==
  CASE o.kind = "send" -> message[o.ref] \in {"published", "pending", "failed"}
    [] o.kind = "publish" -> message[o.ref] = "published"
    [] o.kind = "fail" -> message[o.ref] = "failed"
    [] o.kind = "apply" -> \E q \in Requests : /\ request[q] # "none"
                                               /\ From[q] = From[o.ref]
                                               /\ To[q] = To[o.ref]
    [] o.kind = "accept" -> Pair(o.ref) \in friends
    [] o.kind = "reject" -> request[o.ref] = "rejected"
    [] o.kind = "chat" -> Pair(o.ref) \in chats

AnswersHold == \A w \in Workers : answer[w] = "ok" => Holds(op[w])

(* For its clients the store is one log per user, to which transactions    *)
(* append events one at a time, each once.                                 *)
Log == INSTANCE EventLog WITH
  log <- [u \in Users |-> [i \in 1 .. lastSeq[u] |->
            LET e == CHOOSE e \in events : e.user = u /\ e.seq = i
            IN  <<e.type, e.ref>>]]

ImplementsEventLog == Log!Spec

(* Transactions that wait for each other do not wait for ever: every       *)
(* operation is answered.                                                  *)
OperationsEnd == \A w \in Workers : ~At(w, "done") ~> At(w, "done")
=============================================================================
