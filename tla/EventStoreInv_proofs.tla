------------------------- MODULE EventStoreInv_proofs -------------------------
(***************************************************************************)
(* The inductive invariant of EventStore, for every number of users,       *)
(* messages, requests, workers, operations, faults and repetitions, and    *)
(* that each of its steps keeps it: first those that write nothing, then   *)
(* the commits and the other writes.                                       *)
(***************************************************************************)
EXTENDS EventStore, TLAPS

\* The time a prover has for a step.
USE ZenonT(3), SMTT(30)

-----------------------------------------------------------------------------
(* The inductive invariant.  Each worker's part speaks of the tables and   *)
(* of what that worker has locked, so a step that writes nothing can only  *)
(* disturb the part of its own worker.                                     *)

AllRows ==
  {User(u) : u \in Users}
    \cup {<<"chat", p>> : p \in Pairs}
    \cup {<<"friendship", p>> : p \in Pairs}
    \cup Rows(Messages \cup Requests)

LocksTypeOK ==
  /\ xlocks \in [Workers -> SUBSET AllRows]
  /\ slocks \in [Workers -> SUBSET AllRows]

\* A row that one worker has locked exclusively is locked by no other.
Exclusive ==
  \A v, w \in Workers : v # w => xlocks[v] \cap (xlocks[w] \cup slocks[w]) = {}

\* The labels before the first lock of a transaction.
Unlocked == {"done", "members", "chat", "message", "mark", "target", "handle", "create"}

\* The operation that has come to a label, and what it has locked and
\* allocated there.
LabelInv(w) ==
  LET o == op[w]
  IN  /\ pc[w] # "done" => o \in Operations /\ answer[w] = "none"
      /\ o = NoOperation => answer[w] = "none"
      /\ pc[w] \in Unlocked => xlocks[w] = {} /\ slocks[w] = {}
      /\ pc[w] \in {"members", "chat", "key", "insert"} => o.kind = "send"
      /\ pc[w] \in {"message", "chatRow"} => o.kind = "publish"
      /\ pc[w] = "mark" => o.kind = "fail"
      /\ pc[w] = "create" => o.kind = "chat"
      /\ pc[w] \in {"target", "friendship", "request", "pending", "insertRequest"}
           => o.kind = "apply"
      /\ pc[w] = "handle" => o.kind \in {"accept", "reject"}
      /\ pc[w] \in {"newChat", "newFriend", "both"} => o.kind = "accept"
      /\ pc[w] \in {"seq", "commit"} =>
           o.kind \in {"send", "publish", "apply", "accept", "reject"}
      /\ pc[w] = "seq" /\ o.kind = "send" => o.ref \in Texts

\* A number is allocated at the commit, and the counter it continues is
\* locked until then.
SeqInv(w) ==
  LET o == op[w]
  IN  /\ pc[w] # "commit" => seq[w] = 0
      /\ pc[w] = "commit" =>
           IF o.kind = "send" /\ o.ref \in Files THEN seq[w] = 0
           ELSE /\ seq[w] = lastSeq[Recipient(o)] + 1
                /\ User(Recipient(o)) \in xlocks[w]

\* A send holds its chat, and nobody else inserts its message.
SendInv(w) ==
  LET x == op[w].ref
  IN  op[w].kind = "send" =>
        /\ pc[w] \in {"chat", "key", "insert", "seq", "commit"} => Pair(x) \in chats
        /\ pc[w] \in {"key", "insert", "seq", "commit"} => Chat(x) \in xlocks[w]
        /\ pc[w] \in {"insert", "seq", "commit"} => message[x] = "none"

\* A publication holds its message, and nobody else decides about it.
PublishInv(w) ==
  LET x == op[w].ref
  IN  op[w].kind = "publish" =>
        /\ pc[w] \in {"chatRow", "seq", "commit"} =>
             Row(x) \in xlocks[w] /\ message[x] # "none"
        /\ pc[w] \in {"seq", "commit"} => message[x] = "pending"

\* A request holds the row of its target: what it has read stays true.
ApplyInv(w) ==
  LET x == op[w].ref
  IN  op[w].kind = "apply" =>
        /\ pc[w] \in {"friendship", "request", "pending", "insertRequest", "seq", "commit"}
             => User(To[x]) \in xlocks[w]
        /\ pc[w] \in {"request", "pending", "insertRequest", "seq", "commit"}
             => Pair(x) \notin friends
        /\ pc[w] \in {"pending", "insertRequest", "seq", "commit"} => request[x] = "none"
        /\ pc[w] \in {"insertRequest", "seq", "commit"} =>
             \A q \in Requests : From[q] = From[x] /\ To[q] = To[x] => request[q] # "pending"

\* An answer holds its request.  An acceptance shares both users from the
\* friendship on, so no request comes in, and in the end holds all pending
\* requests between them.
AnswerInv(w) ==
  LET x == op[w].ref
  IN  /\ op[w].kind \in {"accept", "reject"}
           /\ pc[w] \in {"newChat", "newFriend", "both", "seq", "commit"} =>
             Row(x) \in xlocks[w] /\ request[x] = "pending"
      /\ op[w].kind = "accept" =>
           /\ \A r \in Requests : Row(r) \in xlocks[w] =>
                request[r] = "pending" /\ Pair(r) = Pair(x)
           /\ pc[w] \in {"newFriend", "both", "seq", "commit"} => Chat(x) \in xlocks[w]
           /\ pc[w] \in {"both", "seq", "commit"} => \A u \in Pair(x) : User(u) \in slocks[w]
           /\ pc[w] \in {"seq", "commit"} =>
                \A q \in Requests : request[q] = "pending" /\ Pair(q) = Pair(x) =>
                  Row(q) \in xlocks[w]

\* What was answered with success has happened.
HoldsInv(w) == answer[w] = "ok" => Holds(op[w])

WorkerInv(w) ==
  /\ LabelInv(w) /\ SeqInv(w) /\ SendInv(w) /\ PublishInv(w)
  /\ ApplyInv(w) /\ AnswerInv(w) /\ HoldsInv(w)

EventTypes == {"message", "apply", "accept", "reject"}

\* The numbers of a user's events are 1 to last_event_seq, each once.
NumbersInv ==
  /\ events \subseteq [user : Users, seq : Nat \ {0}, ref : Messages \cup Requests,
                       type : EventTypes]
  /\ \A e \in events : e.seq <= lastSeq[e.user]
  /\ \A d, e \in events : d.user = e.user /\ d.seq = e.seq => d = e
  /\ \A u \in Users : \A i \in 1 .. lastSeq[u] : \E e \in events : e.user = u /\ e.seq = i

\* Events and rows refer to each other, one to one.
RowsInv ==
  /\ \A e \in events : /\ e.type = "message" <=> e.ref \in Messages
                       /\ Resolves(e)
  /\ \A d, e \in events : d.type = e.type /\ d.ref = e.ref => d = e
  /\ \A m \in Messages : message[m] = "published" => \E e \in events : e.ref = m
  /\ \A r \in Requests : request[r] # "none" =>
       \E e \in events : e.ref = r /\ e.type = "apply"

\* Friends have an accepted request and no pending one.
FriendsInv ==
  /\ \A p \in friends : \E e \in events : e.type = "accept" /\ Pair(e.ref) = p
  /\ \A r \in Requests : request[r] = "accepted" => Pair(r) \in friends
  /\ NoSuperfluousRequest

IInv ==
  /\ TypeOK
  /\ LocksTypeOK
  /\ Exclusive
  /\ \A w \in Workers : WorkerInv(w)
  /\ NumbersInv
  /\ RowsInv
  /\ FriendsInv

-----------------------------------------------------------------------------
(* Operations, rows and locks.                                             *)

LEMMA OperationFields ==
  ASSUME NEW o \in Operations
  PROVE  /\ o.kind \in {"send", "publish", "fail", "apply", "accept", "reject", "chat"}
         /\ o.kind \in {"send", "chat"} => o.ref \in Messages
         /\ o.kind \in {"publish", "fail"} => o.ref \in Files
         /\ o.kind \in {"apply", "accept", "reject"} => o.ref \in Requests
         /\ o.ref \in Messages \cup Requests
         /\ o # NoOperation
  BY TablesAssumption DEF Operations, NoOperation, Messages

LEMMA PairType ==
  ASSUME NEW x \in Messages \cup Requests
  PROVE  /\ From[x] \in Users /\ To[x] \in Users /\ From[x] # To[x]
         /\ From[x] \in Pair(x) /\ To[x] \in Pair(x)
         /\ Pair(x) \in SUBSET Users
         /\ Pair(x) \in Pairs
  BY TablesAssumption DEF Pair, Pairs

LEMMA RowsType ==
  ASSUME NEW x \in Messages \cup Requests, NEW u \in Users
  PROVE  /\ Row(x) \in AllRows /\ Chat(x) \in AllRows /\ Friendship(x) \in AllRows
         /\ User(u) \in AllRows
  BY PairType DEF Row, Chat, Friendship, User, AllRows, Rows

LEMMA RowsDiffer ==
  /\ \A x, y : Row(x) = Row(y) => x = y
  /\ \A x, y : User(x) = User(y) => x = y
  /\ \A x, y : Row(x) # User(y) /\ Row(x) # Chat(y) /\ Row(x) # Friendship(y)
  /\ \A x, y : Chat(x) = Chat(y) => Pair(x) = Pair(y)
  /\ \A x, y : Chat(x) # User(y) /\ Chat(x) # Friendship(y)
  /\ \A x, y : Friendship(x) # User(y)
  BY DEF Row, User, Chat, Friendship

\* A statement wants locks on rows only.
LEMMA WantsType ==
  ASSUME IInv, NEW w \in Workers
  PROVE  XWants(w) \subseteq AllRows /\ SWants(w) \subseteq AllRows
  <1>1. CASE pc[w] = "done"
    BY <1>1 DEF XWants, SWants
  <1>2. CASE pc[w] # "done"
    <2>1. op[w] \in Operations
      BY <1>2 DEF IInv, WorkerInv, LabelInv
    <2> DEFINE x == op[w].ref
    <2>2. x \in Messages \cup Requests
      BY <2>1, OperationFields
    <2>3. /\ Row(x) \in AllRows /\ Chat(x) \in AllRows /\ Friendship(x) \in AllRows
          /\ User(From[x]) \in AllRows /\ User(To[x]) \in AllRows
          /\ \A u \in Pair(x) : User(u) \in AllRows
      BY <2>2, PairType, RowsType
    <2>4. Rows(Scanned(x)) \subseteq AllRows /\ Rows(ScannedBoth(x)) \subseteq AllRows
      BY DEF Rows, Scanned, ScannedBoth, AllRows
    <2> QED
      BY <2>3, <2>4 DEF XWants, SWants
  <1> QED
    BY <1>1, <1>2

\* A worker that is not blocked takes its locks without sharing them.
LEMMA LocksTaken ==
  ASSUME IInv, NEW w \in Workers, Inserts(w) \/ Locks(w)
  PROVE  /\ LocksTypeOK' /\ Exclusive'
         /\ xlocks[w] \subseteq xlocks'[w] /\ slocks[w] \subseteq slocks'[w]
         /\ xlocks'[w] \subseteq xlocks[w] \cup XWants(w)
         /\ XWants(w) \cap Stored \subseteq xlocks'[w]
         /\ Locks(w) => xlocks'[w] = xlocks[w] \cup (XWants(w) \cap Stored)
         /\ Inserts(w) => XWants(w) \subseteq xlocks'[w] /\ SWants(w) \subseteq slocks'[w]
         /\ \A v \in Workers \ {w} : xlocks'[v] = xlocks[v] /\ slocks'[v] = slocks[v]
  <1>1. /\ LocksTypeOK
        /\ Blockers(w) = {}
    BY DEF IInv, Inserts, Locks
  <1>2. PICK X \in SUBSET XWants(w), S \in SUBSET SWants(w) :
          /\ xlocks' = [xlocks EXCEPT ![w] = @ \cup X]
          /\ slocks' = [slocks EXCEPT ![w] = @ \cup S]
          /\ XWants(w) \cap Stored \subseteq X
          /\ Inserts(w) => X = XWants(w) /\ S = SWants(w)
    <2>1. CASE Inserts(w)
      <3>1. XWants(w) \in SUBSET XWants(w) /\ SWants(w) \in SUBSET SWants(w)
        OBVIOUS
      <3> QED
        BY <2>1, <3>1, Zenon DEF Inserts
    <2>2. CASE Locks(w) /\ ~Inserts(w)
      <3>1. slocks' = [slocks EXCEPT ![w] = @ \cup {}]
        BY <1>1, <2>2 DEF Locks, LocksTypeOK
      <3>2. xlocks' = [xlocks EXCEPT ![w] = @ \cup (XWants(w) \cap Stored)]
        BY <2>2 DEF Locks
      <3>3. {} \in SUBSET SWants(w) /\ XWants(w) \cap Stored \in SUBSET XWants(w)
        OBVIOUS
      <3> QED
        BY <3>1, <3>2, <3>3, <2>2, Zenon
    <2> QED
      BY <2>1, <2>2
  <1>3. LocksTypeOK'
    BY <1>1, <1>2, WantsType DEF LocksTypeOK
  <1>4. \A v \in Workers \ {w} :
          /\ X \cap (xlocks[v] \cup slocks[v]) = {}
          /\ S \cap xlocks[v] = {}
    BY <1>1, <1>2 DEF Blockers
  <1>5. Exclusive'
    BY <1>1, <1>2, <1>4 DEF IInv, Exclusive, LocksTypeOK
  <1>6. Locks(w) => xlocks'[w] = xlocks[w] \cup (XWants(w) \cap Stored)
    BY <1>1 DEF Locks, LocksTypeOK
  <1> QED
    BY <1>1, <1>2, <1>3, <1>5, <1>6 DEF LocksTypeOK

LEMMA LocksKept ==
  ASSUME IInv, UNCHANGED <<xlocks, slocks>>
  PROVE  LocksTypeOK' /\ Exclusive'
  BY DEF IInv, LocksTypeOK, Exclusive

LEMMA LocksDropped ==
  ASSUME IInv, NEW w \in Workers,
         xlocks' = [xlocks EXCEPT ![w] = {}],
         slocks' = [slocks EXCEPT ![w] = {}]
  PROVE  LocksTypeOK' /\ Exclusive'
  BY DEF IInv, LocksTypeOK, Exclusive

-----------------------------------------------------------------------------
(* Steps that write nothing: only the part of their own worker is at       *)
(* stake.                                                                  *)

SameLocals(w) ==
  /\ op'[w] = op[w] /\ pc'[w] = pc[w] /\ seq'[w] = seq[w]
  /\ xlocks'[w] = xlocks[w] /\ slocks'[w] = slocks[w] /\ answer'[w] = answer[w]

LEMMA HoldsKept ==
  ASSUME NEW w, UNCHANGED tables, op'[w] = op[w], Holds(op[w])
  PROVE  Holds(op[w])'
  <1>1. /\ message' = message /\ request' = request /\ friends' = friends /\ chats' = chats
    BY DEF tables
  <1> QED
    BY <1>1, Zenon DEF Holds

LEMMA WorkerKept ==
  ASSUME NEW w \in Workers, WorkerInv(w), UNCHANGED tables, SameLocals(w)
  PROVE  WorkerInv(w)'
  <1> USE DEF tables, SameLocals
  <1>1. LabelInv(w)'
    BY DEF WorkerInv, LabelInv
  <1>2. SeqInv(w)'
    BY DEF WorkerInv, SeqInv
  <1>3. SendInv(w)'
    BY DEF WorkerInv, SendInv
  <1>4. PublishInv(w)'
    BY DEF WorkerInv, PublishInv
  <1>5. ApplyInv(w)'
    BY DEF WorkerInv, ApplyInv
  <1>6. AnswerInv(w)'
    BY DEF WorkerInv, AnswerInv
  <1>7. HoldsInv(w)'
    BY HoldsKept DEF WorkerInv, HoldsInv
  <1> QED
    BY <1>1, <1>2, <1>3, <1>4, <1>5, <1>6, <1>7 DEF WorkerInv

LEMMA QuietStep ==
  ASSUME IInv, NEW w \in Workers, UNCHANGED tables, TypeOK', LocksTypeOK', Exclusive',
         \A v \in Workers \ {w} : SameLocals(v), WorkerInv(w)'
  PROVE  IInv'
  <1>1. \A v \in Workers : WorkerInv(v)'
    BY WorkerKept DEF IInv
  <1>2. NumbersInv'
    BY DEF IInv, NumbersInv, tables
  <1>3. RowsInv'
    <2>1. /\ message' = message /\ request' = request /\ friends' = friends
          /\ events' = events
      BY DEF tables
    <2>2. RowsInv
      BY DEF IInv
    <2> QED
      BY <2>1, <2>2, Zenon DEF RowsInv, Resolves
  <1>4. FriendsInv'
    BY DEF IInv, FriendsInv, NoSuperfluousRequest, Scanned, tables
  <1> QED
    BY <1>1, <1>2, <1>3, <1>4 DEF IInv

\* What a worker brings to its next statement.
LEMMA Running ==
  ASSUME IInv, NEW w \in Workers, pc[w] # "done"
  PROVE  /\ op[w] \in Operations /\ op[w] # NoOperation /\ answer[w] = "none"
         /\ op[w].ref \in Messages \cup Requests
         /\ WorkerInv(w)
  <1>1. WorkerInv(w)
    BY DEF IInv
  <1>2. op[w] \in Operations /\ answer[w] = "none"
    BY <1>1 DEF WorkerInv, LabelInv
  <1> QED
    BY <1>1, <1>2, OperationFields

LEMMA AtSend ==
  ASSUME IInv, NEW w \in Workers, pc[w] \in {"members", "chat", "key", "insert"}
  PROVE  op[w].kind = "send" /\ op[w].ref \in Messages /\ SendInv(w)
  <1>1. WorkerInv(w) /\ op[w] \in Operations
    BY Running
  <1>2. op[w].kind = "send"
    BY <1>1 DEF WorkerInv, LabelInv
  <1> QED
    BY <1>1, <1>2, OperationFields DEF WorkerInv

LEMMA AtPublish ==
  ASSUME IInv, NEW w \in Workers, pc[w] \in {"message", "chatRow"}
  PROVE  op[w].kind = "publish" /\ op[w].ref \in Files /\ PublishInv(w)
  <1>1. WorkerInv(w) /\ op[w] \in Operations
    BY Running
  <1>2. op[w].kind = "publish"
    BY <1>1 DEF WorkerInv, LabelInv
  <1> QED
    BY <1>1, <1>2, OperationFields DEF WorkerInv

LEMMA AtApply ==
  ASSUME IInv, NEW w \in Workers,
         pc[w] \in {"target", "friendship", "request", "pending", "insertRequest"}
  PROVE  op[w].kind = "apply" /\ op[w].ref \in Requests /\ ApplyInv(w)
  <1>1. WorkerInv(w) /\ op[w] \in Operations
    BY Running
  <1>2. op[w].kind = "apply"
    BY <1>1 DEF WorkerInv, LabelInv
  <1> QED
    BY <1>1, <1>2, OperationFields DEF WorkerInv

LEMMA AtAnswer ==
  ASSUME IInv, NEW w \in Workers, pc[w] \in {"handle", "newChat", "newFriend", "both"}
  PROVE  /\ IF pc[w] = "handle" THEN op[w].kind \in {"accept", "reject"} /\ xlocks[w] = {}
                                ELSE op[w].kind = "accept"
         /\ op[w].ref \in Requests /\ AnswerInv(w)
  <1>1. WorkerInv(w) /\ op[w] \in Operations
    BY Running
  <1>2. IF pc[w] = "handle" THEN op[w].kind \in {"accept", "reject"} /\ xlocks[w] = {}
                            ELSE op[w].kind = "accept"
    BY <1>1 DEF WorkerInv, LabelInv, Unlocked
  <1> QED
    BY <1>1, <1>2, OperationFields DEF WorkerInv

\* The order of the statements of an operation.
Follows(w, label) ==
  \/ op[w].kind = "send" /\ pc[w] = "members" /\ label = "chat" /\ UNCHANGED <<xlocks, slocks>>
  \/ op[w].kind = "send" /\ label \in {"key", "insert"}
  \/ op[w].kind = "send" /\ label = "seq" /\ op[w].ref \in Texts
  \/ op[w].kind = "send" /\ label = "commit" /\ op[w].ref \in Files
  \/ op[w].kind = "publish" /\ label \in {"chatRow", "seq"}
  \/ op[w].kind = "apply" /\ label \in {"friendship", "request", "pending", "insertRequest", "seq"}
  \/ op[w].kind = "accept" /\ label \in {"newChat", "newFriend", "both", "seq"}
  \/ op[w].kind = "reject" /\ label = "seq"

LEMMA GotoLocals ==
  ASSUME IInv, NEW w \in Workers, NEW label, Goto(w, label)
  PROVE  /\ pc'[w] = label /\ op'[w] = op[w] /\ answer'[w] = answer[w]
         /\ seq'[w] = seq[w] /\ UNCHANGED tables
  BY DEF IInv, TypeOK, Goto, tables

\* The next statement, with the locks it takes: what has to be shown is the
\* part of the invariant about this kind of operation.
LEMMA GotoStep ==
  ASSUME IInv, NEW w \in Workers, NEW label, Goto(w, label), Follows(w, label),
         pc[w] \notin {"done", "commit"},
         \/ Inserts(w) \/ Locks(w) \/ UNCHANGED <<xlocks, slocks>>,
         op[w].kind = "send" => SendInv(w)',
         op[w].kind = "publish" => PublishInv(w)',
         op[w].kind = "apply" => ApplyInv(w)',
         op[w].kind \in {"accept", "reject"} => AnswerInv(w)'
  PROVE  IInv'
  <1>1. /\ op[w] \in Operations /\ op[w] # NoOperation /\ answer[w] = "none"
        /\ LabelInv(w) /\ SeqInv(w)
    BY Running DEF WorkerInv
  <1>2. /\ pc'[w] = label /\ op'[w] = op[w] /\ answer'[w] = answer[w]
        /\ seq'[w] = seq[w] /\ UNCHANGED tables
    BY GotoLocals
  <1>3. LocksTypeOK' /\ Exclusive'
    BY LocksTaken, LocksKept
  <1>4. \A v \in Workers \ {w} : SameLocals(v)
    <2>1. \A v \in Workers \ {w} : xlocks'[v] = xlocks[v] /\ slocks'[v] = slocks[v]
      BY LocksTaken
    <2>2. DOMAIN pc = Workers
      BY DEF IInv, TypeOK
    <2> QED
      BY <2>1, <2>2 DEF Goto, SameLocals
  <1>5. TypeOK'
    <2>1. label \in Labels
      BY DEF Follows, Labels
    <2>2. TypeOK
      BY DEF IInv
    <2> QED
      BY <2>1, <2>2 DEF Goto, tables, TypeOK
  <1>6. LabelInv(w)'
    <2>1. label = "chat" => xlocks[w] = {} /\ slocks[w] = {} /\ UNCHANGED <<xlocks, slocks>>
      BY <1>1 DEF Follows, LabelInv, Unlocked
    <2> QED
      BY <1>1, <1>2, <2>1 DEF Follows, LabelInv, Unlocked
  <1>7. SeqInv(w)'
    BY <1>1, <1>2 DEF Follows, SeqInv
  <1>8. SendInv(w)'
    BY <1>2 DEF SendInv
  <1>9. PublishInv(w)'
    BY <1>2 DEF PublishInv
  <1>10. ApplyInv(w)'
    BY <1>2 DEF ApplyInv
  <1>11. AnswerInv(w)'
    BY <1>2 DEF AnswerInv
  <1>12. HoldsInv(w)'
    BY <1>1, <1>2 DEF HoldsInv
  <1>13. WorkerInv(w)'
    BY <1>6, <1>7, <1>8, <1>9, <1>10, <1>11, <1>12 DEF WorkerInv
  <1> QED
    BY <1>2, <1>3, <1>4, <1>5, <1>13, QuietStep

\* The end of an operation drops its locks.
LEMMA Finished ==
  ASSUME IInv, NEW w \in Workers, NEW result \in {"ok", "refused", "failed"},
         Finish(w, result), op[w] # NoOperation
  PROVE  /\ LocksTypeOK' /\ Exclusive'
         /\ \A v \in Workers \ {w} : SameLocals(v)
         /\ op'[w] = op[w] /\ answer'[w] = result
         /\ LabelInv(w)' /\ SeqInv(w)' /\ SendInv(w)' /\ PublishInv(w)'
         /\ ApplyInv(w)' /\ AnswerInv(w)'
  <1>1. LocksTypeOK' /\ Exclusive'
    <2>1. xlocks' = [xlocks EXCEPT ![w] = {}] /\ slocks' = [slocks EXCEPT ![w] = {}]
      BY DEF Finish
    <2> QED
      BY <2>1, LocksDropped
  <1>2. TypeOK /\ LocksTypeOK
    BY DEF IInv
  <1>3. \A v \in Workers \ {w} : SameLocals(v)
    BY <1>2 DEF Finish, TypeOK, LocksTypeOK, SameLocals
  <1>4. /\ op'[w] = op[w] /\ pc'[w] = "done" /\ seq'[w] = 0 /\ answer'[w] = result
        /\ xlocks'[w] = {} /\ slocks'[w] = {}
    BY <1>2 DEF Finish, TypeOK, LocksTypeOK
  <1>5. LabelInv(w)' /\ SeqInv(w)'
    BY <1>4 DEF LabelInv, SeqInv, Unlocked
  <1>6. SendInv(w)' /\ PublishInv(w)'
    BY <1>4 DEF SendInv, PublishInv
  <1>7. ApplyInv(w)' /\ AnswerInv(w)'
    BY <1>4 DEF ApplyInv, AnswerInv
  <1> QED
    BY <1>1, <1>3, <1>4, <1>5, <1>6, <1>7

\* The end of an operation that wrote nothing or was rolled back.
LEMMA FinishQuietly ==
  ASSUME IInv, NEW w \in Workers, NEW result \in {"ok", "refused", "failed"},
         Finish(w, result), UNCHANGED tables, faults' \in 0 .. MaxFaults,
         result = "ok" => Holds(op[w]), op[w] # NoOperation
  PROVE  IInv'
  <1>1. /\ LocksTypeOK' /\ Exclusive'
        /\ \A v \in Workers \ {w} : SameLocals(v)
        /\ op'[w] = op[w] /\ answer'[w] = result
        /\ LabelInv(w)' /\ SeqInv(w)' /\ SendInv(w)' /\ PublishInv(w)'
        /\ ApplyInv(w)' /\ AnswerInv(w)'
    BY Finished
  <1>2. TypeOK'
    BY BoundsAssumption DEF Finish, IInv, TypeOK, tables, Labels
  <1>3. WorkerInv(w)'
    BY <1>1, HoldsKept DEF HoldsInv, WorkerInv
  <1> QED
    BY <1>1, <1>2, <1>3, QuietStep

LEMMA LeaveStep ==
  ASSUME IInv, NEW w \in Workers, NEW result \in {"ok", "refused"}, Leave(w, result),
         result = "ok" => Holds(op[w]), pc[w] # "done"
  PROVE  IInv'
  <1>1. op[w] # NoOperation
    BY Running
  <1>2. faults' \in 0 .. MaxFaults
    BY DEF Leave, IInv, TypeOK
  <1> QED
    BY <1>1, <1>2, FinishQuietly DEF Leave

-----------------------------------------------------------------------------
(* Start, the allocation of a number, and failures.                        *)

LEMMA StartStep ==
  ASSUME IInv, NEW w \in Workers, NEW o \in Operations, Start(w, o)
  PROVE  IInv'
  <1>1. /\ FirstStep(o.kind) \in Unlocked \cap Labels
        /\ FirstStep(o.kind) = "members" => o.kind = "send"
        /\ FirstStep(o.kind) = "message" => o.kind = "publish"
        /\ FirstStep(o.kind) = "mark" => o.kind = "fail"
        /\ FirstStep(o.kind) = "target" => o.kind = "apply"
        /\ FirstStep(o.kind) = "handle" => o.kind \in {"accept", "reject"}
        /\ FirstStep(o.kind) = "create" => o.kind = "chat"
        /\ FirstStep(o.kind) \notin {"done", "chat"}
    BY OperationFields DEF FirstStep, Unlocked, Labels
  <1>2. /\ op'[w] = o /\ pc'[w] = FirstStep(o.kind) /\ answer'[w] = "none"
        /\ seq'[w] = seq[w] /\ xlocks'[w] = xlocks[w] /\ slocks'[w] = slocks[w]
    BY DEF Start, IInv, TypeOK
  <1>3. seq[w] = 0 /\ xlocks[w] = {} /\ slocks[w] = {}
    <2>1. pc[w] = "done" /\ LabelInv(w) /\ SeqInv(w)
      BY DEF Start, At, IInv, WorkerInv
    <2> QED
      BY <2>1 DEF LabelInv, SeqInv, Unlocked
  <1>4. \A v \in Workers \ {w} : SameLocals(v)
    BY DEF Start, SameLocals, IInv, TypeOK
  <1>5. UNCHANGED tables /\ UNCHANGED <<xlocks, slocks>>
    BY DEF Start
  <1>6. TypeOK'
    BY <1>1, <1>5, BoundsAssumption DEF Start, IInv, TypeOK, tables
  <1>7. LabelInv(w)'
    BY <1>1, <1>2, <1>3, OperationFields DEF LabelInv, Unlocked
  <1>8. pc'[w] \in {"members", "message", "mark", "target", "handle", "create"}
    BY <1>1, <1>2 DEF Unlocked
  <1>9. SeqInv(w)' /\ SendInv(w)' /\ PublishInv(w)'
    BY <1>2, <1>3, <1>8 DEF SeqInv, SendInv, PublishInv
  <1>10. ApplyInv(w)'
    BY <1>8 DEF ApplyInv
  <1>11. AnswerInv(w)' /\ HoldsInv(w)'
    BY <1>2, <1>3, <1>8 DEF AnswerInv, HoldsInv
  <1>12. WorkerInv(w)'
    BY <1>7, <1>9, <1>10, <1>11 DEF WorkerInv
  <1> QED
    BY <1>4, <1>5, <1>6, <1>12, LocksKept, QuietStep

LEMMA AllocateEventSeqStep ==
  ASSUME IInv, NEW w \in Workers, AllocateEventSeq(w)
  PROVE  IInv'
  <1> DEFINE o == op[w]
             u == Recipient(o)
  <1>1. pc[w] = "seq" /\ Inserts(w) /\ o \in Operations /\ answer[w] = "none"
    BY Running DEF AllocateEventSeq, At
  <1>2. u \in Users
    BY <1>1, OperationFields, PairType DEF Recipient
  <1>3. /\ op'[w] = o /\ pc'[w] = "commit" /\ answer'[w] = answer[w]
        /\ seq'[w] = lastSeq[u] + 1 /\ UNCHANGED tables
    BY DEF AllocateEventSeq, IInv, TypeOK, tables
  <1>4. /\ LocksTypeOK' /\ Exclusive'
        /\ xlocks[w] \subseteq xlocks'[w] /\ slocks[w] \subseteq slocks'[w]
        /\ XWants(w) \subseteq xlocks'[w]
        /\ xlocks'[w] \subseteq xlocks[w] \cup XWants(w)
        /\ \A v \in Workers \ {w} : xlocks'[v] = xlocks[v] /\ slocks'[v] = slocks[v]
    BY <1>1, LocksTaken
  <1>5. XWants(w) = {User(u)}
    BY <1>1 DEF XWants, Recipient
  <1>6. TypeOK'
    <2>1. lastSeq[u] + 1 \in Nat
      BY <1>2 DEF IInv, TypeOK
    <2> QED
      BY <1>3, <2>1 DEF AllocateEventSeq, IInv, TypeOK, tables, Labels
  <1>7. \A v \in Workers \ {w} : SameLocals(v)
    BY <1>4 DEF AllocateEventSeq, SameLocals, IInv, TypeOK
  <1>0. /\ LabelInv(w) /\ SendInv(w) /\ PublishInv(w) /\ ApplyInv(w) /\ AnswerInv(w)
    BY DEF IInv, WorkerInv
  <1>8. LabelInv(w)'
    BY <1>0, <1>1, <1>3 DEF LabelInv, Unlocked
  <1>9. SeqInv(w)'
    <2>1. o.kind = "send" => o.ref \notin Files
      BY <1>0, <1>1, TablesAssumption DEF LabelInv
    <2>2. u' = u /\ lastSeq' = lastSeq
      BY <1>3 DEF Recipient, tables
    <2> QED
      BY <1>3, <1>4, <1>5, <2>1, <2>2 DEF SeqInv
  <1>10. SendInv(w)'
    BY <1>0, <1>1, <1>3, <1>4 DEF SendInv, tables
  <1>11. PublishInv(w)'
    BY <1>0, <1>1, <1>3, <1>4 DEF PublishInv, tables
  <1>12. ApplyInv(w)'
    BY <1>0, <1>1, <1>3, <1>4 DEF ApplyInv, tables
  <1>13. AnswerInv(w)'
    <2>1. \A r : Row(r) \in xlocks'[w] <=> Row(r) \in xlocks[w]
      BY <1>4, <1>5, RowsDiffer
    <2> QED
      BY <1>0, <1>1, <1>3, <1>4, <2>1 DEF AnswerInv, tables
  <1>14. WorkerInv(w)'
    BY <1>1, <1>3, <1>8, <1>9, <1>10, <1>11, <1>12, <1>13 DEF HoldsInv, WorkerInv
  <1> QED
    BY <1>3, <1>4, <1>6, <1>7, <1>14, QuietStep

\* The handler of a message read the members of its chat before.
LEMMA SendHasChat ==
  ASSUME IInv, NEW w \in Workers, pc[w] \notin {"done", "members"}, op[w].kind = "send"
  PROVE  Pair(op[w].ref) \in chats
  <1>1. LabelInv(w) /\ SendInv(w) /\ pc[w] \in Labels
    BY DEF IInv, WorkerInv, TypeOK
  <1>2. pc[w] \in {"chat", "key", "insert", "seq", "commit"}
    BY <1>1 DEF LabelInv, Labels
  <1> QED
    BY <1>1, <1>2 DEF SendInv

\* A transaction that is rolled back is run again from its first lock, or
\* ends.
LEMMA DeadlockErrorStep ==
  ASSUME IInv, NEW w \in Workers, DeadlockError(w), pc[w] \notin {"done", "members"},
         faults' \in 0 .. MaxFaults
  PROVE  IInv'
  <1>1. op[w] \in Operations /\ op[w] # NoOperation /\ answer[w] = "none"
    BY Running, OperationFields
  <1>2. CASE CanRetry(w)
    <2> DEFINE label == IF op[w].kind = "send" THEN "chat" ELSE "message"
    <2>1. Retry(w) /\ UNCHANGED tables
      BY <1>2 DEF DeadlockError
    <2>2. /\ op'[w] = op[w] /\ pc'[w] = label /\ answer'[w] = answer[w] /\ seq'[w] = 0
          /\ xlocks'[w] = {} /\ slocks'[w] = {}
      BY <2>1 DEF Retry, IInv, TypeOK, LocksTypeOK
    <2>3. LocksTypeOK' /\ Exclusive'
      <3>1. xlocks' = [xlocks EXCEPT ![w] = {}] /\ slocks' = [slocks EXCEPT ![w] = {}]
        BY <2>1 DEF Retry
      <3> QED
        BY <3>1, LocksDropped
    <2>4. \A v \in Workers \ {w} : SameLocals(v)
      BY <2>1 DEF Retry, SameLocals, IInv, TypeOK, LocksTypeOK
    <2>5. op[w].kind \in {"send", "publish"}
      BY <1>2 DEF CanRetry
    <2>6. TypeOK'
      <3>1. attempt[w] + 1 \in 0 .. DeadlockRetries + PublishAttempts
        BY <1>2, BoundsAssumption DEF CanRetry, IInv, TypeOK
      <3> QED
        BY <2>1, <3>1 DEF Retry, IInv, TypeOK, tables, Labels
    <2>7. LabelInv(w)'
      BY <1>1, <2>2, <2>5 DEF LabelInv, Unlocked
    <2>8. SendInv(w)'
      <3>1. op[w].kind = "send" => Pair(op[w].ref) \in chats
        BY SendHasChat
      <3>2. chats' = chats
        BY <2>1 DEF tables
      <3> QED
        BY <2>2, <3>1, <3>2 DEF SendInv
    <2>9. SeqInv(w)' /\ PublishInv(w)'
      BY <2>2 DEF SeqInv, PublishInv
    <2>10. ApplyInv(w)' /\ AnswerInv(w)'
      BY <2>2, <2>5 DEF ApplyInv, AnswerInv
    <2>11. WorkerInv(w)'
      BY <1>1, <2>2, <2>7, <2>8, <2>9, <2>10 DEF HoldsInv, WorkerInv
    <2> QED
      BY <2>1, <2>3, <2>4, <2>6, <2>11, QuietStep
  <1>3. CASE ~CanRetry(w)
    BY <1>1, <1>3, FinishQuietly DEF DeadlockError
  <1> QED
    BY <1>2, <1>3

LEMMA DeadlockStep ==
  ASSUME IInv, NEW w \in Workers, Deadlock(w)
  PROVE  IInv'
  <1>1. Blockers(w) # {}
    BY DEF Deadlock, Cycle, Stuck
  <1>2. pc[w] \notin {"done", "members"}
    BY <1>1 DEF Blockers, XWants, SWants
  <1>3. faults' \in 0 .. MaxFaults
    BY DEF Deadlock, IInv, TypeOK
  <1> QED
    BY <1>2, <1>3, DeadlockErrorStep DEF Deadlock

LEMMA FaultCounted ==
  ASSUME IInv, NEW kind, Fault(kind)
  PROVE  faults' \in 0 .. MaxFaults
  BY BoundsAssumption DEF Fault, IInv, TypeOK

LEMMA GapDeadlockStep ==
  ASSUME IInv, NEW w \in Workers, GapDeadlock(w)
  PROVE  IInv'
  <1>1. pc[w] \notin {"done", "members"}
    <2>1. LabelInv(w)
      BY DEF IInv, WorkerInv
    <2> QED
      BY <2>1 DEF GapDeadlock, LabelInv, Unlocked
  <1> QED
    BY <1>1, FaultCounted, DeadlockErrorStep DEF GapDeadlock

LEMMA StatementFailsStep ==
  ASSUME IInv, NEW w \in Workers, StatementFails(w)
  PROVE  IInv'
  <1>1. op[w] # NoOperation
    BY Running, OperationFields DEF StatementFails, At
  <1> QED
    BY <1>1, FaultCounted, FinishQuietly DEF StatementFails

-----------------------------------------------------------------------------
(* The statements of AddChatMsg.                                           *)

LEMMA GetPrivateChatMembersStep ==
  ASSUME IInv, NEW w \in Workers, GetPrivateChatMembers(w)
  PROVE  IInv'
  <1>1. pc[w] = "members" /\ op[w].kind = "send" /\ SendInv(w)
    BY AtSend DEF GetPrivateChatMembers, At
  <1>2. CASE Pair(op[w].ref) \in chats
    <2>1. Goto(w, "chat") /\ UNCHANGED <<xlocks, slocks>>
      BY <1>2 DEF GetPrivateChatMembers
    <2>2. SendInv(w)'
      BY <1>2, <2>1, GotoLocals DEF SendInv, tables
    <2> QED
      BY <1>1, <2>1, <2>2, GotoStep DEF Follows
  <1>3. CASE Pair(op[w].ref) \notin chats
    BY <1>1, <1>3, LeaveStep DEF GetPrivateChatMembers
  <1> QED
    BY <1>2, <1>3

LEMMA ReadPrivateChatMembersStep ==
  ASSUME IInv, NEW w \in Workers, ReadPrivateChatMembers(w)
  PROVE  IInv'
  <1>1. /\ pc[w] = "chat" /\ op[w].kind = "send" /\ SendInv(w)
        /\ Goto(w, "key") /\ Locks(w)
    BY AtSend DEF ReadPrivateChatMembers, At
  <1>2. Chat(op[w].ref) \in xlocks'[w]
    <2>1. Chat(op[w].ref) \in XWants(w)
      BY <1>1 DEF XWants
    <2>2. Chat(op[w].ref) \in Stored
      BY <1>1 DEF SendInv, Stored, Chat
    <2> QED
      BY <1>1, <2>1, <2>2, LocksTaken
  <1>3. SendInv(w)'
    BY <1>1, <1>2, GotoLocals DEF SendInv, tables
  <1> QED
    BY <1>1, <1>3, GotoStep DEF Follows

LEMMA FindMessageStep ==
  ASSUME IInv, NEW w \in Workers, FindMessage(w)
  PROVE  IInv'
  <1>1. pc[w] = "key" /\ op[w].kind = "send" /\ op[w].ref \in Messages /\ SendInv(w)
    BY AtSend DEF FindMessage, At
  <1>2. CASE message[op[w].ref] = "none"
    <2>1. Goto(w, "insert") /\ Locks(w)
      BY <1>2 DEF FindMessage
    <2>2. xlocks[w] \subseteq xlocks'[w]
      BY <2>1, LocksTaken
    <2>3. SendInv(w)'
      BY <1>1, <1>2, <2>1, <2>2, GotoLocals DEF SendInv, tables
    <2> QED
      BY <1>1, <2>1, <2>3, GotoStep DEF Follows
  <1>3. CASE message[op[w].ref] # "none"
    <2>1. message[op[w].ref] \in {"pending", "published", "failed"}
      BY <1>1, <1>3 DEF IInv, TypeOK
    <2>2. Holds(op[w])
      BY <1>1, <2>1 DEF Holds
    <2> QED
      BY <1>1, <1>3, <2>2, LeaveStep DEF FindMessage
  <1> QED
    BY <1>2, <1>3

LEMMA InsertMessageStep ==
  ASSUME IInv, NEW w \in Workers, InsertMessage(w)
  PROVE  IInv'
  <1>1. /\ pc[w] = "insert" /\ op[w].kind = "send" /\ op[w].ref \in Messages /\ SendInv(w)
        /\ Inserts(w)
    BY AtSend DEF InsertMessage, At
  <1>2. PICK label : /\ label = IF op[w].ref \in Files THEN "commit" ELSE "seq"
                     /\ Goto(w, label)
    BY DEF InsertMessage
  <1>3. xlocks[w] \subseteq xlocks'[w]
    BY <1>1, LocksTaken
  <1>4. SendInv(w)'
    BY <1>1, <1>2, <1>3, GotoLocals DEF SendInv, tables
  <1>5. Follows(w, label)
    BY <1>1, <1>2 DEF Follows, Messages
  <1> QED
    BY <1>1, <1>2, <1>4, <1>5, GotoStep

-----------------------------------------------------------------------------
(* The statements of CompleteResourceUpload.                               *)

LEMMA LockMessageStep ==
  ASSUME IInv, NEW w \in Workers, LockMessage(w)
  PROVE  IInv'
  <1>1. pc[w] = "message" /\ op[w].kind = "publish" /\ op[w].ref \in Messages
    BY AtPublish DEF LockMessage, At, Messages
  <1>2. CASE message[op[w].ref] # "none"
    <2>1. Goto(w, "chatRow") /\ Locks(w)
      BY <1>2 DEF LockMessage
    <2>2. Row(op[w].ref) \in xlocks'[w]
      <3>1. Row(op[w].ref) \in XWants(w)
        BY <1>1 DEF XWants
      <3>2. Row(op[w].ref) \in Stored
        BY <1>1, <1>2 DEF Stored, Rows
      <3> QED
        BY <2>1, <3>1, <3>2, LocksTaken
    <2>3. PublishInv(w)'
      BY <1>2, <2>1, <2>2, GotoLocals DEF PublishInv, tables
    <2> QED
      BY <1>1, <2>1, <2>3, GotoStep DEF Follows
  <1>3. CASE message[op[w].ref] = "none"
    BY <1>1, <1>3, LeaveStep DEF LockMessage
  <1> QED
    BY <1>2, <1>3

\* The row is locked, so its message is in one of three states.
LEMMA LockedMessage ==
  ASSUME IInv, NEW w \in Workers, pc[w] = "chatRow"
  PROVE  message[op[w].ref] \in {"pending", "published", "failed"}
  <1>1. op[w].ref \in Messages /\ message[op[w].ref] # "none"
    BY AtPublish DEF PublishInv, Messages
  <1> QED
    BY <1>1 DEF IInv, TypeOK

LEMMA LockChatStep ==
  ASSUME IInv, NEW w \in Workers, LockChat(w)
  PROVE  IInv'
  <1>1. pc[w] = "chatRow" /\ op[w].kind = "publish" /\ PublishInv(w)
    BY AtPublish DEF LockChat, At
  <1>2. message[op[w].ref] \in {"pending", "published", "failed"}
    BY <1>1, LockedMessage
  <1>3. CASE message[op[w].ref] = "pending"
    <2>1. Goto(w, "seq") /\ Locks(w)
      BY <1>3 DEF LockChat
    <2>2. xlocks[w] \subseteq xlocks'[w]
      BY <2>1, LocksTaken
    <2>3. PublishInv(w)'
      BY <1>1, <1>3, <2>1, <2>2, GotoLocals DEF PublishInv, tables
    <2> QED
      BY <1>1, <2>1, <2>3, GotoStep DEF Follows
  <1>4. CASE message[op[w].ref] = "published"
    <2>1. Leave(w, "ok")
      BY <1>4 DEF LockChat
    <2>2. Holds(op[w])
      BY <1>1, <1>4 DEF Holds
    <2> QED
      BY <1>1, <2>1, <2>2, LeaveStep
  <1>5. CASE message[op[w].ref] = "failed"
    <2>1. Leave(w, "refused")
      BY <1>5 DEF LockChat
    <2> QED
      BY <1>1, <2>1, LeaveStep
  <1> QED
    BY <1>2, <1>3, <1>4, <1>5

-----------------------------------------------------------------------------
(* The statements of AddFriendApply.                                       *)

LEMMA LockTargetStep ==
  ASSUME IInv, NEW w \in Workers, LockTarget(w)
  PROVE  IInv'
  <1>1. /\ pc[w] = "target" /\ op[w].kind = "apply" /\ op[w].ref \in Requests
        /\ Goto(w, "friendship") /\ Locks(w)
    BY AtApply DEF LockTarget, At
  <1>2. User(To[op[w].ref]) \in xlocks'[w]
    <2>1. User(To[op[w].ref]) \in XWants(w)
      BY <1>1 DEF XWants
    <2>2. User(To[op[w].ref]) \in Stored
      BY <1>1, PairType DEF Stored
    <2> QED
      BY <1>1, <2>1, <2>2, LocksTaken
  <1>3. ApplyInv(w)'
    BY <1>2, <1>1, GotoLocals DEF ApplyInv, tables
  <1> QED
    BY <1>1, <1>3, GotoStep DEF Follows

LEMMA CheckFriendshipStep ==
  ASSUME IInv, NEW w \in Workers, CheckFriendship(w)
  PROVE  IInv'
  <1>1. pc[w] = "friendship" /\ op[w].kind = "apply" /\ ApplyInv(w)
    BY AtApply DEF CheckFriendship, At
  <1>2. CASE Pair(op[w].ref) \notin friends
    <2>1. Goto(w, "request") /\ UNCHANGED <<xlocks, slocks>>
      BY <1>2 DEF CheckFriendship
    <2>2. ApplyInv(w)'
      BY <1>1, <1>2, <2>1, GotoLocals DEF ApplyInv, tables
    <2> QED
      BY <1>1, <2>1, <2>2, GotoStep DEF Follows
  <1>3. CASE Pair(op[w].ref) \in friends
    BY <1>1, <1>3, LeaveStep DEF CheckFriendship
  <1> QED
    BY <1>2, <1>3

LEMMA FindRequestStep ==
  ASSUME IInv, NEW w \in Workers, FindRequest(w)
  PROVE  IInv'
  <1>1. pc[w] = "request" /\ op[w].kind = "apply" /\ op[w].ref \in Requests /\ ApplyInv(w)
    BY AtApply DEF FindRequest, At
  <1>2. CASE request[op[w].ref] = "none"
    <2>1. Goto(w, "pending") /\ Locks(w)
      BY <1>2 DEF FindRequest
    <2>2. xlocks[w] \subseteq xlocks'[w]
      BY <2>1, LocksTaken
    <2>3. ApplyInv(w)'
      BY <1>1, <1>2, <2>1, <2>2, GotoLocals DEF ApplyInv, tables
    <2> QED
      BY <1>1, <2>1, <2>3, GotoStep DEF Follows
  <1>3. CASE request[op[w].ref] # "none"
    <2>1. Holds(op[w])
      BY <1>1, <1>3 DEF Holds
    <2> QED
      BY <1>1, <1>3, <2>1, LeaveStep DEF FindRequest
  <1> QED
    BY <1>2, <1>3

LEMMA FindPendingStep ==
  ASSUME IInv, NEW w \in Workers, FindPending(w)
  PROVE  IInv'
  <1> DEFINE x == op[w].ref
  <1>1. pc[w] = "pending" /\ op[w].kind = "apply" /\ ApplyInv(w)
    BY AtApply DEF FindPending, At
  <1>2. CASE ~\E q \in Scanned(x) : request[q] = "pending"
    <2>1. Goto(w, "insertRequest") /\ Locks(w)
      BY <1>2 DEF FindPending
    <2>2. \A q \in Requests : From[q] = From[x] /\ To[q] = To[x] => request[q] # "pending"
      BY <1>2 DEF Scanned
    <2>3. xlocks[w] \subseteq xlocks'[w]
      BY <2>1, LocksTaken
    <2>4. ApplyInv(w)'
      BY <1>1, <2>1, <2>2, <2>3, GotoLocals DEF ApplyInv, tables
    <2> QED
      BY <1>1, <2>1, <2>4, GotoStep DEF Follows
  <1>3. CASE \E q \in Scanned(x) : request[q] = "pending"
    <2>1. Holds(op[w])
      BY <1>1, <1>3 DEF Holds, Scanned
    <2> QED
      BY <1>1, <1>3, <2>1, LeaveStep DEF FindPending
  <1> QED
    BY <1>2, <1>3

LEMMA InsertRequestStep ==
  ASSUME IInv, NEW w \in Workers, InsertRequest(w)
  PROVE  IInv'
  <1>1. /\ pc[w] = "insertRequest" /\ op[w].kind = "apply" /\ ApplyInv(w)
        /\ Goto(w, "seq") /\ Inserts(w)
    BY AtApply DEF InsertRequest, At
  <1>2. xlocks[w] \subseteq xlocks'[w]
    BY <1>1, LocksTaken
  <1>3. ApplyInv(w)'
    BY <1>1, <1>2, GotoLocals DEF ApplyInv, tables
  <1> QED
    BY <1>1, <1>3, GotoStep DEF Follows

-----------------------------------------------------------------------------
(* Steps that write.  Rows are never deleted and decisions are final; and  *)
(* what another worker relies on is locked by it.                          *)

Forward ==
  /\ chats \subseteq chats' /\ friends \subseteq friends'
  /\ \A m \in Messages :
       /\ message[m] # "none" => message'[m] # "none"
       /\ message[m] \in {"published", "failed"} => message'[m] = message[m]
  /\ \A r \in Requests :
       /\ request[r] # "none" => request'[r] # "none"
       /\ request[r] \in {"accepted", "rejected"} => request'[r] = request[r]

Respects(v) ==
  /\ \A u \in Users : User(u) \in xlocks[v] => lastSeq'[u] = lastSeq[u]
  /\ \A m \in Messages :
       /\ Chat(m) \in xlocks[v] /\ message[m] = "none" => message'[m] = "none"
       /\ Row(m) \in xlocks[v] /\ message[m] = "pending" => message'[m] = "pending"
  /\ \A r \in Requests :
       /\ Row(r) \in xlocks[v] /\ request[r] = "pending" => request'[r] = "pending"
       /\ User(To[r]) \in xlocks[v] =>
            /\ Pair(r) \notin friends => Pair(r) \notin friends'
            /\ request[r] = "none" => request'[r] = "none"
            /\ request'[r] = "pending" => request[r] = "pending"
       /\ (\A u \in Pair(r) : User(u) \in slocks[v]) =>
            (request'[r] = "pending" => request[r] = "pending")

LEMMA HoldsForward ==
  ASSUME IInv, Forward, NEW o \in Operations, Holds(o),
         message' \in [Messages -> {"none", "pending", "published", "failed"}]
  PROVE  Holds(o)'
  <1>1. CASE o.kind \in {"send", "publish", "fail"}
    <2>1. o.ref \in Messages
      BY <1>1, OperationFields DEF Messages
    <2>2. /\ message[o.ref] # "none" => message'[o.ref] # "none"
          /\ message[o.ref] \in {"published", "failed"} => message'[o.ref] = message[o.ref]
          /\ message'[o.ref] \in {"none", "pending", "published", "failed"}
      BY <2>1 DEF Forward
    <2>3. CASE o.kind = "send"
      BY <2>2, <2>3 DEF Holds
    <2>4. CASE o.kind = "publish"
      BY <2>2, <2>4 DEF Holds
    <2>5. CASE o.kind = "fail"
      BY <2>2, <2>5 DEF Holds
    <2> QED
      BY <1>1, <2>3, <2>4, <2>5
  <1>2. CASE o.kind = "apply"
    BY <1>2 DEF Holds, Forward
  <1>3. CASE o.kind \in {"accept", "reject", "chat"}
    BY <1>3, OperationFields DEF Holds, Forward
  <1> QED
    BY <1>1, <1>2, <1>3, OperationFields

LEMMA OtherWorker ==
  ASSUME IInv, NEW v \in Workers, SameLocals(v), Forward, Respects(v),
         message' \in [Messages -> {"none", "pending", "published", "failed"}]
  PROVE  WorkerInv(v)'
  <1> DEFINE x == op[v].ref
  <1> USE DEF SameLocals
  <1>1. /\ LabelInv(v) /\ SeqInv(v) /\ SendInv(v) /\ PublishInv(v)
        /\ ApplyInv(v) /\ AnswerInv(v) /\ HoldsInv(v)
    BY DEF IInv, WorkerInv
  <1>2. LabelInv(v)'
    BY <1>1 DEF LabelInv
  <1>3. CASE pc[v] = "done"
    <2>1. xlocks[v] = {}
      BY <1>1, <1>3 DEF LabelInv, Unlocked
    <2>2. SeqInv(v)' /\ SendInv(v)' /\ PublishInv(v)'
      BY <1>1, <1>3 DEF SeqInv, SendInv, PublishInv
    <2>3. ApplyInv(v)' /\ AnswerInv(v)'
      BY <1>3, <2>1 DEF ApplyInv, AnswerInv
    <2>4. HoldsInv(v)'
      <3> SUFFICES ASSUME answer[v] = "ok"
                   PROVE  Holds(op[v])'
        BY DEF HoldsInv
      <3>1. op[v] \in Operations /\ Holds(op[v])
        BY <1>1 DEF IInv, TypeOK, LabelInv, HoldsInv
      <3> QED
        BY <3>1, HoldsForward
    <2> QED
      BY <1>2, <2>2, <2>3, <2>4 DEF WorkerInv
  <1>4. CASE pc[v] # "done"
    <2>1. op[v] \in Operations /\ x \in Messages \cup Requests /\ answer[v] = "none"
      BY <1>4, Running
    <2>2. SeqInv(v)'
      <3>1. Recipient(op[v]) \in Users
        BY <2>1, PairType DEF Recipient
      <3>2. User(Recipient(op[v])) \in xlocks[v] =>
              lastSeq'[Recipient(op[v])] = lastSeq[Recipient(op[v])]
        BY <3>1 DEF Respects
      <3> QED
        BY <1>1, <3>2 DEF SeqInv, Recipient
    <2>3. SendInv(v)'
      <3>1. op[v].kind = "send" => x \in Messages
        BY <2>1, OperationFields
      <3> QED
        BY <1>1, <3>1 DEF SendInv, Forward, Respects
    <2>4. PublishInv(v)'
      <3>1. op[v].kind = "publish" => x \in Messages
        BY <2>1, OperationFields DEF Messages
      <3> QED
        BY <1>1, <3>1 DEF PublishInv, Forward, Respects
    <2>5. ApplyInv(v)'
      <3> SUFFICES ASSUME op[v].kind = "apply"
                   PROVE  ApplyInv(v)'
        BY DEF ApplyInv
      <3>1. x \in Requests
        BY <2>1, OperationFields
      <3>2. User(To[x]) \in xlocks[v] =>
              /\ Pair(x) \notin friends => Pair(x) \notin friends'
              /\ request[x] = "none" => request'[x] = "none"
              /\ \A q \in Requests : To[q] = To[x] =>
                   (request'[q] = "pending" => request[q] = "pending")
        BY <3>1 DEF Respects
      <3> QED
        BY <1>1, <3>2 DEF ApplyInv
    <2>6. AnswerInv(v)'
      <3> SUFFICES ASSUME op[v].kind \in {"accept", "reject"}
                   PROVE  AnswerInv(v)'
        BY DEF AnswerInv
      <3>1. x \in Requests
        BY <2>1, OperationFields
      <3>2. \A r \in Requests : Row(r) \in xlocks[v] /\ request[r] = "pending" =>
              request'[r] = "pending"
        BY DEF Respects
      <3>3. \A q \in Requests : (\A u \in Pair(x) : User(u) \in slocks[v]) /\ Pair(q) = Pair(x)
              => (request'[q] = "pending" => request[q] = "pending")
        BY DEF Respects
      <3> QED
        BY <1>1, <3>1, <3>2, <3>3 DEF AnswerInv
    <2> QED
      BY <1>2, <2>1, <2>2, <2>3, <2>4, <2>5, <2>6 DEF HoldsInv, WorkerInv
  <1> QED
    BY <1>3, <1>4

\* The part of the type invariant about the tables.
TablesOK ==
  /\ chats \subseteq Pairs
  /\ friends \subseteq chats
  /\ message \in [Messages -> {"none", "pending", "published", "failed"}]
  /\ \A m \in Texts : message[m] \in {"none", "published"}
  /\ request \in [Requests -> {"none", "pending", "accepted", "rejected"}]
  /\ lastSeq \in [Users -> Nat]

LEMMA TablesTyped ==
  IInv => TablesOK
  BY DEF IInv, TypeOK, TablesOK

Happened(w) == Holds(op[w])

\* The end of an operation that wrote.
LEMMA WriteStep ==
  ASSUME IInv, NEW w \in Workers, NEW result \in {"ok", "failed"}, Finish(w, result),
         op[w] # NoOperation, result = "ok" => Happened(w)', faults' \in 0 .. MaxFaults,
         Forward, \A v \in Workers \ {w} : Respects(v),
         TablesOK', NumbersInv', RowsInv', FriendsInv'
  PROVE  IInv'
  <1>1. /\ LocksTypeOK' /\ Exclusive'
        /\ \A v \in Workers \ {w} : SameLocals(v)
        /\ answer'[w] = result
        /\ LabelInv(w)' /\ SeqInv(w)' /\ SendInv(w)' /\ PublishInv(w)'
        /\ ApplyInv(w)' /\ AnswerInv(w)'
    BY Finished
  <1>2. TypeOK'
    BY BoundsAssumption DEF Finish, IInv, TypeOK, TablesOK, Labels
  <1>3. WorkerInv(w)'
    BY <1>1 DEF HoldsInv, Happened, WorkerInv
  <1>4. message' \in [Messages -> {"none", "pending", "published", "failed"}]
    BY DEF TablesOK
  <1>5. \A v \in Workers \ {w} : WorkerInv(v)'
    BY <1>1, <1>4, OtherWorker
  <1> QED
    BY <1>1, <1>2, <1>3, <1>5 DEF IInv

-----------------------------------------------------------------------------
(* Events.                                                                 *)

\* The next number of a user goes to a new event.
LEMMA EventAppended ==
  ASSUME NumbersInv, lastSeq \in [Users -> Nat],
         NEW u \in Users, NEW x \in Messages \cup Requests, NEW t \in EventTypes, NEW e,
         e = [user |-> u, seq |-> lastSeq[u] + 1, ref |-> x, type |-> t],
         lastSeq' = [lastSeq EXCEPT ![u] = lastSeq[u] + 1],
         events' = events \cup {e}
  PROVE  NumbersInv'
  <1>1. lastSeq[u] + 1 \in Nat \ {0} /\ lastSeq'[u] = lastSeq[u] + 1
    OBVIOUS
  <1>2. events' \subseteq [user : Users, seq : Nat \ {0}, ref : Messages \cup Requests,
                           type : EventTypes]
    BY <1>1 DEF NumbersInv
  <1>3. \A d \in events' : d.seq <= lastSeq'[d.user]
    BY DEF NumbersInv
  <1>4. \A d \in events : ~(d.user = u /\ d.seq = lastSeq[u] + 1)
    BY DEF NumbersInv
  <1>5. \A c, d \in events' : c.user = d.user /\ c.seq = d.seq => c = d
    BY <1>4 DEF NumbersInv
  <1>6. \A v \in Users : \A i \in 1 .. lastSeq'[v] : \E d \in events' : d.user = v /\ d.seq = i
    <2> SUFFICES ASSUME NEW v \in Users, NEW i \in 1 .. lastSeq'[v]
                 PROVE  \E d \in events' : d.user = v /\ d.seq = i
      OBVIOUS
    <2>1. CASE i \in 1 .. lastSeq[v]
      BY <2>1 DEF NumbersInv
    <2>2. CASE i \notin 1 .. lastSeq[v]
      <3>1. v = u /\ i = lastSeq[u] + 1
        BY <2>2
      <3> QED
        BY <3>1
    <2> QED
      BY <2>1, <2>2
  <1> QED
    BY <1>2, <1>3, <1>5, <1>6 DEF NumbersInv

LEMMA ResolvesForward ==
  ASSUME RowsInv, NumbersInv, Forward, NEW e \in events
  PROVE  Resolves(e)'
  <1>1. e.type \in EventTypes /\ e.ref \in Messages \cup Requests
    BY DEF NumbersInv
  <1>2. Resolves(e) /\ (e.type = "message" <=> e.ref \in Messages)
    BY DEF RowsInv
  <1> QED
    BY <1>1, <1>2 DEF Resolves, Forward, EventTypes

\* An event that is committed together with the row it tells of.
LEMMA RowWithEvent ==
  ASSUME RowsInv, NumbersInv, Forward, NEW e, events' = events \cup {e},
         e.type = "message" <=> e.ref \in Messages,
         Resolves(e)',
         \A d \in events : d.type = e.type => d.ref # e.ref,
         \A m \in Messages : message'[m] = "published" => message[m] = "published" \/ m = e.ref,
         \A r \in Requests : request'[r] # "none" =>
           request[r] # "none" \/ (r = e.ref /\ e.type = "apply")
  PROVE  RowsInv'
  <1>1. \A d \in events' : (d.type = "message" <=> d.ref \in Messages) /\ Resolves(d)'
    BY ResolvesForward DEF RowsInv
  <1>2. \A c, d \in events' : c.type = d.type /\ c.ref = d.ref => c = d
    BY DEF RowsInv
  <1>3. \A m \in Messages : message'[m] = "published" => \E d \in events' : d.ref = m
    BY DEF RowsInv
  <1>4. \A r \in Requests : request'[r] # "none" =>
          \E d \in events' : d.ref = r /\ d.type = "apply"
    BY DEF RowsInv
  <1> QED
    BY <1>1, <1>2, <1>3, <1>4 DEF RowsInv

\* A row that no event tells of.
LEMMA RowWithoutEvent ==
  ASSUME RowsInv, NumbersInv, Forward, events' = events, request' = request,
         \A m \in Messages : message'[m] = "published" => message[m] = "published"
  PROVE  RowsInv'
  BY ResolvesForward DEF RowsInv

\* A message is decided once, and a request is made and answered once.
LEMMA EventIsNew ==
  ASSUME RowsInv, NEW x \in Messages \cup Requests, NEW t \in EventTypes,
         t = "message" => message[x] # "published",
         t = "apply" => request[x] = "none",
         t = "accept" => request[x] # "accepted",
         t = "reject" => request[x] # "rejected"
  PROVE  \A d \in events : d.type = t => d.ref # x
  <1>1. \A d \in events : Resolves(d)
    BY DEF RowsInv
  <1> QED
    BY <1>1 DEF Resolves, EventTypes

-----------------------------------------------------------------------------
(* The writing statements and the commit.                                  *)

LEMMA AtCommit ==
  ASSUME IInv, NEW w \in Workers, pc[w] = "commit"
  PROVE  /\ op[w] \in Operations /\ op[w] # NoOperation
         /\ op[w].ref \in Messages \cup Requests
         /\ op[w].kind \in {"send", "publish", "apply", "accept", "reject"}
         /\ SeqInv(w) /\ SendInv(w) /\ PublishInv(w) /\ ApplyInv(w) /\ AnswerInv(w)
  <1>1. WorkerInv(w) /\ op[w] \in Operations /\ op[w] # NoOperation
        /\ op[w].ref \in Messages \cup Requests
    BY Running
  <1>2. op[w].kind \in {"send", "publish", "apply", "accept", "reject"}
    BY <1>1 DEF WorkerInv, LabelInv
  <1> QED
    BY <1>1, <1>2 DEF WorkerInv

LEMMA MarkResourceFailedStep ==
  ASSUME IInv, NEW w \in Workers, MarkResourceFailed(w)
  PROVE  IInv'
  <1> DEFINE x == op[w].ref
  <1>1. /\ pc[w] = "mark" /\ op[w].kind = "fail" /\ x \in Files /\ op[w] # NoOperation
        /\ Blockers(w) = {}
    <2>1. pc[w] = "mark" /\ Blockers(w) = {}
      BY DEF MarkResourceFailed, At
    <2>2. op[w] \in Operations /\ op[w] # NoOperation /\ LabelInv(w)
      BY <2>1, Running DEF WorkerInv
    <2>3. op[w].kind = "fail"
      BY <2>1, <2>2 DEF LabelInv
    <2> QED
      BY <2>1, <2>2, <2>3, OperationFields
  <1>2. CASE message[x] # "pending"
    BY <1>1, <1>2, LeaveStep DEF MarkResourceFailed
  <1>3. CASE message[x] = "pending"
    <2>1. /\ message' = [message EXCEPT ![x] = "failed"]
          /\ Finish(w, "ok")
          /\ UNCHANGED <<chats, friends, request, lastSeq, events, faults>>
      BY <1>3 DEF MarkResourceFailed
    <2>2. /\ message \in [Messages -> {"none", "pending", "published", "failed"}]
          /\ x \in Messages /\ x \notin Texts
      BY <1>1, TablesAssumption DEF IInv, TypeOK, Messages
    <2>3. /\ message'[x] = "failed"
          /\ \A m \in Messages \ {x} : message'[m] = message[m]
      BY <2>1, <2>2
    <2>4. Forward
      BY <1>3, <2>1, <2>3 DEF Forward
    <2>5. \A v \in Workers \ {w} : Respects(v)
      <3> SUFFICES ASSUME NEW v \in Workers \ {w}
                   PROVE  Respects(v)
        OBVIOUS
      <3>1. Row(x) \notin xlocks[v]
        BY <1>1 DEF Blockers, XWants
      <3> QED
        BY <1>3, <2>1, <2>3, <3>1 DEF Respects
    <2>6. TablesOK'
      BY <2>1, <2>2, <2>3, TablesTyped DEF TablesOK, Messages
    <2>7. NumbersInv'
      BY <2>1 DEF IInv, NumbersInv
    <2>8. RowsInv'
      BY <2>1, <2>3, <2>4, RowWithoutEvent DEF IInv
    <2>9. FriendsInv'
      BY <2>1 DEF IInv, FriendsInv, NoSuperfluousRequest, Scanned
    <2>10. Happened(w)'
      BY <1>1, <2>1, <2>3 DEF Happened, Holds, Finish
    <2>11. faults' \in 0 .. MaxFaults
      BY <2>1 DEF IInv, TypeOK
    <2> QED
      BY <1>1, <2>1, <2>4, <2>5, <2>6, <2>7, <2>8, <2>9, <2>10, <2>11, WriteStep
  <1> QED
    BY <1>2, <1>3

LEMMA CreatePrivateChatStep ==
  ASSUME IInv, NEW w \in Workers, CreatePrivateChat(w)
  PROVE  IInv'
  <1> DEFINE x == op[w].ref
  <1>1. /\ pc[w] = "create" /\ op[w].kind = "chat" /\ op[w] # NoOperation
        /\ x \in Messages \cup Requests
    <2>1. pc[w] = "create"
      BY DEF CreatePrivateChat, At
    <2>2. op[w] \in Operations /\ op[w] # NoOperation /\ LabelInv(w)
      BY <2>1, Running DEF WorkerInv
    <2>3. op[w].kind = "chat"
      BY <2>1, <2>2 DEF LabelInv
    <2> QED
      BY <2>1, <2>2, <2>3, OperationFields
  <1>2. /\ chats' = chats \cup {Pair(x)}
        /\ Finish(w, "ok")
        /\ UNCHANGED <<friends, message, request, lastSeq, events, faults>>
    BY DEF CreatePrivateChat
  <1>3. Forward /\ \A v \in Workers \ {w} : Respects(v)
    BY <1>2 DEF Forward, Respects
  <1>4. TablesOK'
    BY <1>1, <1>2, PairType, TablesTyped DEF TablesOK
  <1>5. NumbersInv'
    BY <1>2 DEF IInv, NumbersInv
  <1>6. RowsInv'
    BY <1>2, <1>3, RowWithoutEvent DEF IInv
  <1>7. FriendsInv'
    BY <1>2 DEF IInv, FriendsInv, NoSuperfluousRequest, Scanned
  <1>8. Happened(w)'
    BY <1>1, <1>2 DEF Happened, Holds, Finish
  <1>9. faults' \in 0 .. MaxFaults
    BY <1>2 DEF IInv, TypeOK
  <1> QED
    BY <1>1, <1>2, <1>3, <1>4, <1>5, <1>6, <1>7, <1>8, <1>9, WriteStep

\* What each kind of commit has to establish.
Written(w) ==
  /\ Forward
  /\ \A v \in Workers \ {w} : Respects(v)
  /\ TablesOK' /\ NumbersInv' /\ RowsInv' /\ FriendsInv'
  /\ Happened(w)'

EventOf(w) == [user |-> Recipient(op[w]), seq |-> lastSeq[Recipient(op[w])] + 1,
               ref |-> op[w].ref, type |-> EventKind(op[w].kind)]

\* A commit whose transaction has a number appends an event.
LEMMA NumberedCommit ==
  ASSUME IInv, NEW w \in Workers, pc[w] = "commit", Writes(w),
         ~(op[w].kind = "send" /\ op[w].ref \in Files)
  PROVE  /\ seq[w] # 0
         /\ events' = events \cup {EventOf(w)}
         /\ lastSeq' \in [Users -> Nat]
         /\ NumbersInv'
         /\ \A v \in Workers \ {w}, u \in Users : User(u) \in xlocks[v] => lastSeq'[u] = lastSeq[u]
  <1> DEFINE o == op[w]
             u == Recipient(o)
  <1>1. /\ o.kind \in {"send", "publish", "apply", "accept", "reject"}
        /\ o.ref \in Messages \cup Requests /\ SeqInv(w)
    BY AtCommit
  <1>2. u \in Users
    BY <1>1, PairType DEF Recipient
  <1>3. seq[w] = lastSeq[u] + 1 /\ User(u) \in xlocks[w]
    BY <1>1 DEF SeqInv
  <1>4. lastSeq \in [Users -> Nat] /\ NumbersInv
    BY DEF IInv, TypeOK
  <1>5. seq[w] # 0 /\ lastSeq[u] + 1 \in Nat
    BY <1>2, <1>3, <1>4
  <1>6. lastSeq' = [lastSeq EXCEPT ![u] = lastSeq[u] + 1] /\ events' = events \cup {EventOf(w)}
    BY <1>3, <1>5 DEF Writes, EventOf
  <1>7. EventKind(o.kind) \in EventTypes
    BY <1>1 DEF EventKind, EventTypes
  <1>8. NumbersInv'
    BY <1>1, <1>2, <1>4, <1>6, <1>7, EventAppended DEF EventOf
  <1>9. \A v \in Workers \ {w} : User(u) \notin xlocks[v]
    BY <1>3 DEF IInv, Exclusive
  <1> QED
    BY <1>2, <1>4, <1>5, <1>6, <1>8, <1>9

\* The message of a file is stored, to be uploaded.
LEMMA FileSent ==
  ASSUME IInv, NEW w \in Workers, pc[w] = "commit", Writes(w), op' = op,
         op[w].kind = "send", op[w].ref \in Files
  PROVE  Written(w)
  <1> DEFINE x == op[w].ref
  <1>0. SeqInv(w) /\ SendInv(w)
    BY AtCommit
  <1>1. /\ x \in Messages /\ x \notin Texts /\ seq[w] = 0
        /\ message[x] = "none" /\ Pair(x) \in chats /\ Chat(x) \in xlocks[w]
    BY <1>0, TablesAssumption DEF SeqInv, SendInv, Messages
  <1>2. message \in [Messages -> {"none", "pending", "published", "failed"}]
    BY DEF IInv, TypeOK
  <1>3. /\ message' = [message EXCEPT ![x] = "pending"]
        /\ UNCHANGED <<chats, friends, request, lastSeq, events>>
    BY <1>1 DEF Writes
  <1>4. message'[x] = "pending" /\ \A m \in Messages \ {x} : message'[m] = message[m]
    BY <1>1, <1>2, <1>3
  <1>5. Forward
    BY <1>1, <1>3, <1>4 DEF Forward
  <1>6. \A v \in Workers \ {w} : Respects(v)
    <2>1. \A v \in Workers \ {w} : Chat(x) \notin xlocks[v]
      BY <1>1 DEF IInv, Exclusive
    <2> QED
      BY <1>1, <1>3, <1>4, <2>1 DEF Respects
  <1>7. TablesOK'
    BY <1>1, <1>2, <1>3, <1>4, TablesTyped DEF TablesOK, Messages
  <1>8. NumbersInv'
    BY <1>3 DEF IInv, NumbersInv
  <1>9. RowsInv'
    BY <1>3, <1>4, <1>5, RowWithoutEvent DEF IInv
  <1>10. FriendsInv'
    BY <1>3 DEF IInv, FriendsInv, NoSuperfluousRequest, Scanned
  <1>11. Happened(w)'
    BY <1>4 DEF Happened, Holds
  <1> QED
    BY <1>5, <1>6, <1>7, <1>8, <1>9, <1>10, <1>11 DEF Written

\* A text, or a file whose upload is complete, is published.
LEMMA MessagePublished ==
  ASSUME IInv, NEW w \in Workers, pc[w] = "commit", Writes(w), op' = op,
         \/ op[w].kind = "send" /\ op[w].ref \notin Files
         \/ op[w].kind = "publish"
  PROVE  Written(w)
  <1> DEFINE x == op[w].ref
  <1>0. PICK e : e = EventOf(w)
    OBVIOUS
  <1>1. /\ x \in Messages /\ (x \in Texts \/ x \in Files)
        /\ SendInv(w) /\ PublishInv(w)
    BY AtCommit, OperationFields DEF Messages
  <1>2. \/ op[w].kind = "send" /\ message[x] = "none" /\ Chat(x) \in xlocks[w]
        \/ op[w].kind = "publish" /\ message[x] = "pending" /\ Row(x) \in xlocks[w]
    BY <1>1 DEF SendInv, PublishInv
  <1>3. /\ seq[w] # 0 /\ events' = events \cup {e}
        /\ lastSeq' \in [Users -> Nat] /\ NumbersInv'
        /\ \A v \in Workers \ {w}, u \in Users : User(u) \in xlocks[v] => lastSeq'[u] = lastSeq[u]
    BY <1>0, NumberedCommit
  <1>4. message \in [Messages -> {"none", "pending", "published", "failed"}]
    BY DEF IInv, TypeOK
  <1>5. /\ message' = [message EXCEPT ![x] = "published"]
        /\ UNCHANGED <<friends, request>>
        /\ chats \subseteq chats' /\ chats' \subseteq chats \cup {Pair(x)}
    BY <1>3 DEF Writes
  <1>6. message'[x] = "published" /\ \A m \in Messages \ {x} : message'[m] = message[m]
    BY <1>1, <1>4, <1>5
  <1>7. Forward
    BY <1>2, <1>5, <1>6 DEF Forward
  <1>8. \A v \in Workers \ {w} : Respects(v)
    <2>1. \A v \in Workers \ {w} : \/ message[x] = "none" /\ Chat(x) \notin xlocks[v]
                                   \/ message[x] = "pending" /\ Row(x) \notin xlocks[v]
      BY <1>2 DEF IInv, Exclusive
    <2> QED
      BY <1>3, <1>5, <1>6, <2>1 DEF Respects
  <1>9. TablesOK'
    BY <1>1, <1>3, <1>4, <1>5, <1>6, PairType, TablesTyped DEF TablesOK, Messages
  <1>10. e.type = "message" /\ e.ref = x /\ e.user = To[x]
    BY <1>0, <1>2 DEF EventOf, EventKind, Recipient
  <1>11. \A d \in events : d.type = e.type => d.ref # e.ref
    BY <1>1, <1>2, <1>10, EventIsNew DEF IInv, EventTypes
  <1>12. RowsInv'
    <2>1. Resolves(e)'
      BY <1>1, <1>5, <1>6, <1>10 DEF Resolves
    <2> QED
      BY <1>1, <1>3, <1>5, <1>6, <1>7, <1>10, <1>11, <2>1, RowWithEvent DEF IInv
  <1>13. FriendsInv'
    BY <1>3, <1>5 DEF IInv, FriendsInv, NoSuperfluousRequest, Scanned
  <1>14. Happened(w)'
    BY <1>2, <1>6 DEF Happened, Holds
  <1> QED
    BY <1>3, <1>7, <1>8, <1>9, <1>12, <1>13, <1>14 DEF Written

\* A request is made.
LEMMA RequestMade ==
  ASSUME IInv, NEW w \in Workers, pc[w] = "commit", Writes(w), op' = op,
         op[w].kind = "apply"
  PROVE  Written(w)
  <1> DEFINE x == op[w].ref
  <1>0. PICK e : e = EventOf(w)
    OBVIOUS
  <1>1. x \in Requests /\ x \notin Messages /\ ApplyInv(w) /\ AnswerInv(w)
    BY AtCommit, OperationFields, TablesAssumption
  <1>2. /\ User(To[x]) \in xlocks[w] /\ Pair(x) \notin friends /\ request[x] = "none"
        /\ \A q \in Requests : From[q] = From[x] /\ To[q] = To[x] => request[q] # "pending"
    BY <1>1 DEF ApplyInv
  <1>3. /\ seq[w] # 0 /\ events' = events \cup {e}
        /\ lastSeq' \in [Users -> Nat] /\ NumbersInv'
        /\ \A v \in Workers \ {w}, u \in Users : User(u) \in xlocks[v] => lastSeq'[u] = lastSeq[u]
    BY <1>0, NumberedCommit
  <1>4. request \in [Requests -> {"none", "pending", "accepted", "rejected"}]
    BY DEF IInv, TypeOK
  <1>5. /\ request' = [request EXCEPT ![x] = "pending"]
        /\ UNCHANGED <<friends, message>>
        /\ chats \subseteq chats' /\ chats' \subseteq chats \cup {Pair(x)}
    BY DEF Writes
  <1>6. request'[x] = "pending" /\ \A r \in Requests \ {x} : request'[r] = request[r]
    BY <1>1, <1>4, <1>5
  <1>7. Forward
    BY <1>2, <1>5, <1>6 DEF Forward
  <1>8. \A v \in Workers \ {w} : Respects(v)
    <2>1. \A v \in Workers \ {w} : User(To[x]) \notin xlocks[v] /\ User(To[x]) \notin slocks[v]
      BY <1>2 DEF IInv, Exclusive
    <2>2. To[x] \in Pair(x)
      BY DEF Pair
    <2> QED
      BY <1>2, <1>3, <1>5, <1>6, <2>1, <2>2 DEF Respects
  <1>9. TablesOK'
    BY <1>1, <1>3, <1>4, <1>5, PairType, TablesTyped DEF TablesOK
  <1>10. e.type = "apply" /\ e.ref = x /\ e.user = To[x]
    BY <1>0 DEF EventOf, EventKind, Recipient
  <1>11. \A d \in events : d.type = e.type => d.ref # e.ref
    BY <1>1, <1>2, <1>10, EventIsNew DEF IInv, EventTypes
  <1>12. RowsInv'
    <2>1. Resolves(e)'
      BY <1>1, <1>5, <1>6, <1>10 DEF Resolves
    <2> QED
      BY <1>1, <1>3, <1>5, <1>6, <1>7, <1>10, <1>11, <2>1, RowWithEvent DEF IInv
  <1>13. FriendsInv'
    <2>1. /\ \A p \in friends' : \E d \in events' : d.type = "accept" /\ Pair(d.ref) = p
          /\ \A r \in Requests : request'[r] = "accepted" => Pair(r) \in friends'
      BY <1>3, <1>5, <1>6 DEF IInv, FriendsInv
    <2>2. NoSuperfluousRequest'
      BY <1>2, <1>5, <1>6 DEF IInv, FriendsInv, NoSuperfluousRequest, Scanned
    <2> QED
      BY <2>1, <2>2 DEF FriendsInv
  <1>14. Happened(w)'
    BY <1>1, <1>6 DEF Happened, Holds
  <1> QED
    BY <1>3, <1>7, <1>8, <1>9, <1>12, <1>13, <1>14 DEF Written

\* A request is rejected.
LEMMA RequestRejected ==
  ASSUME IInv, NEW w \in Workers, pc[w] = "commit", Writes(w), op' = op,
         op[w].kind = "reject"
  PROVE  Written(w)
  <1> DEFINE x == op[w].ref
  <1>0. PICK e : e = EventOf(w)
    OBVIOUS
  <1>1. x \in Requests /\ x \notin Messages /\ ApplyInv(w) /\ AnswerInv(w)
    BY AtCommit, OperationFields, TablesAssumption
  <1>2. Row(x) \in xlocks[w] /\ request[x] = "pending"
    BY <1>1 DEF AnswerInv
  <1>3. /\ seq[w] # 0 /\ events' = events \cup {e}
        /\ lastSeq' \in [Users -> Nat] /\ NumbersInv'
        /\ \A v \in Workers \ {w}, u \in Users : User(u) \in xlocks[v] => lastSeq'[u] = lastSeq[u]
    BY <1>0, NumberedCommit
  <1>4. request \in [Requests -> {"none", "pending", "accepted", "rejected"}]
    BY DEF IInv, TypeOK
  <1>5. /\ request' = [request EXCEPT ![x] = "rejected"]
        /\ UNCHANGED <<friends, message>>
        /\ chats \subseteq chats' /\ chats' \subseteq chats \cup {Pair(x)}
    BY DEF Writes
  <1>6. request'[x] = "rejected" /\ \A r \in Requests \ {x} : request'[r] = request[r]
    BY <1>1, <1>4, <1>5
  <1>7. Forward
    BY <1>2, <1>5, <1>6 DEF Forward
  <1>8. \A v \in Workers \ {w} : Respects(v)
    <2>1. \A v \in Workers \ {w} : Row(x) \notin xlocks[v]
      BY <1>2 DEF IInv, Exclusive
    <2> QED
      BY <1>2, <1>3, <1>5, <1>6, <2>1 DEF Respects
  <1>9. TablesOK'
    BY <1>1, <1>3, <1>4, <1>5, PairType, TablesTyped DEF TablesOK
  <1>10. e.type = "reject" /\ e.ref = x /\ e.user = From[x]
    BY <1>0 DEF EventOf, EventKind, Recipient
  <1>11. \A d \in events : d.type = e.type => d.ref # e.ref
    BY <1>1, <1>2, <1>10, EventIsNew DEF IInv, EventTypes
  <1>12. RowsInv'
    <2>1. Resolves(e)'
      BY <1>2, <1>5, <1>6, <1>10 DEF Resolves
    <2> QED
      BY <1>1, <1>2, <1>3, <1>5, <1>6, <1>7, <1>10, <1>11, <2>1, RowWithEvent DEF IInv
  <1>13. FriendsInv'
    <2>1. /\ \A p \in friends' : \E d \in events' : d.type = "accept" /\ Pair(d.ref) = p
          /\ \A r \in Requests : request'[r] = "accepted" => Pair(r) \in friends'
      BY <1>3, <1>5, <1>6 DEF IInv, FriendsInv
    <2>2. NoSuperfluousRequest'
      BY <1>5, <1>6 DEF IInv, FriendsInv, NoSuperfluousRequest, Scanned
    <2> QED
      BY <2>1, <2>2 DEF FriendsInv
  <1>14. Happened(w)'
    BY <1>6 DEF Happened, Holds
  <1> QED
    BY <1>3, <1>7, <1>8, <1>9, <1>12, <1>13, <1>14 DEF Written

\* A request is accepted, and with it all that are pending between the two.
LEMMA RequestAccepted ==
  ASSUME IInv, NEW w \in Workers, pc[w] = "commit", Writes(w), op' = op,
         op[w].kind = "accept"
  PROVE  Written(w)
  <1> DEFINE x == op[w].ref
  <1>0. PICK e : e = EventOf(w)
    OBVIOUS
  <1>1. x \in Requests /\ x \notin Messages /\ ApplyInv(w) /\ AnswerInv(w)
    BY AtCommit, OperationFields, TablesAssumption
  <1>2. /\ Row(x) \in xlocks[w] /\ request[x] = "pending" /\ Chat(x) \in xlocks[w]
        /\ \A u \in Pair(x) : User(u) \in slocks[w]
        /\ \A r \in Requests : Row(r) \in xlocks[w] <=>
                                 request[r] = "pending" /\ Pair(r) = Pair(x)
    BY <1>1 DEF AnswerInv
  <1>3. /\ seq[w] # 0 /\ events' = events \cup {e}
        /\ lastSeq' \in [Users -> Nat] /\ NumbersInv'
        /\ \A v \in Workers \ {w}, u \in Users : User(u) \in xlocks[v] => lastSeq'[u] = lastSeq[u]
    BY <1>0, NumberedCommit
  <1>4. request \in [Requests -> {"none", "pending", "accepted", "rejected"}]
    BY DEF IInv, TypeOK
  <1>5. /\ request' = [r \in Requests |-> IF Row(r) \in xlocks[w] THEN "accepted"
                                                                  ELSE request[r]]
        /\ message' = message /\ friends' = friends \cup {Pair(x)}
        /\ chats' = chats \cup {Pair(x)}
    BY <1>2 DEF Writes
  <1>6. \A r \in Requests :
          \/ request'[r] = "accepted" /\ request[r] = "pending" /\ Pair(r) = Pair(x)
               /\ Row(r) \in xlocks[w]
          \/ request'[r] = request[r] /\ ~(request[r] = "pending" /\ Pair(r) = Pair(x))
    BY <1>2, <1>5
  <1>7. Forward
    BY <1>5, <1>6 DEF Forward
  <1>8. \A v \in Workers \ {w} : Respects(v)
    <2> SUFFICES ASSUME NEW v \in Workers \ {w}
                 PROVE  Respects(v)
      OBVIOUS
    <2>1. /\ \A u \in Pair(x) : User(u) \notin xlocks[v]
          /\ \A r \in Requests : Row(r) \in xlocks[w] => Row(r) \notin xlocks[v]
      BY <1>2 DEF IInv, Exclusive
    <2>2. \A r \in Requests : User(To[r]) \in xlocks[v] => Pair(r) # Pair(x)
      BY <2>1 DEF Pair
    <2>3. \A r \in Requests : User(To[r]) \in xlocks[v] =>
            /\ Pair(r) \notin friends => Pair(r) \notin friends'
            /\ request[r] = "none" => request'[r] = "none"
            /\ request'[r] = "pending" => request[r] = "pending"
      BY <1>5, <1>6, <2>2
    <2>4. \A r \in Requests :
            /\ Row(r) \in xlocks[v] /\ request[r] = "pending" => request'[r] = "pending"
            /\ request'[r] = "pending" => request[r] = "pending"
      BY <1>6, <2>1
    <2> QED
      BY <1>3, <1>5, <2>3, <2>4 DEF Respects
  <1>9. TablesOK'
    BY <1>1, <1>3, <1>4, <1>5, PairType, TablesTyped DEF TablesOK
  <1>10. e.type = "accept" /\ e.ref = x /\ e.user = From[x]
    BY <1>0 DEF EventOf, EventKind, Recipient
  <1>11. \A d \in events : d.type = e.type => d.ref # e.ref
    BY <1>1, <1>2, <1>10, EventIsNew DEF IInv, EventTypes
  <1>12. request'[x] = "accepted" /\ \A r \in Requests : request'[r] # "none" => request[r] # "none"
    BY <1>1, <1>2, <1>6
  <1>13. RowsInv'
    <2>1. Resolves(e)'
      BY <1>1, <1>5, <1>10, <1>12 DEF Resolves
    <2> QED
      BY <1>1, <1>3, <1>5, <1>7, <1>10, <1>11, <1>12, <2>1, RowWithEvent DEF IInv
  <1>14. FriendsInv'
    <2>1. \A p \in friends' : \E d \in events' : d.type = "accept" /\ Pair(d.ref) = p
      BY <1>3, <1>5, <1>10 DEF IInv, FriendsInv
    <2>2. \A r \in Requests : request'[r] = "accepted" => Pair(r) \in friends'
      BY <1>5, <1>6 DEF IInv, FriendsInv
    <2>3. NoSuperfluousRequest'
      BY <1>5, <1>6 DEF IInv, FriendsInv, NoSuperfluousRequest, Scanned
    <2> QED
      BY <2>1, <2>2, <2>3 DEF FriendsInv
  <1>15. Happened(w)'
    BY <1>5 DEF Happened, Holds
  <1> QED
    BY <1>3, <1>7, <1>8, <1>9, <1>13, <1>14, <1>15 DEF Written

LEMMA WritesStep ==
  ASSUME IInv, NEW w \in Workers, NEW result \in {"ok", "failed"}, pc[w] = "commit",
         Writes(w), Finish(w, result), faults' \in 0 .. MaxFaults
  PROVE  IInv' /\ Forward
  <1>1. op' = op
    BY DEF Finish
  <1>2. /\ op[w] # NoOperation
        /\ op[w].kind \in {"send", "publish", "apply", "accept", "reject"}
    BY AtCommit
  <1>3. Written(w)
    BY <1>1, <1>2, FileSent, MessagePublished, RequestMade, RequestAccepted, RequestRejected
  <1> QED
    BY <1>2, <1>3, WriteStep DEF Written

LEMMA CommitStep ==
  ASSUME IInv, NEW w \in Workers, Commit(w) \/ CommitFails(w)
  PROVE  IInv' /\ Forward
  <1>1. pc[w] = "commit" /\ Writes(w)
    BY DEF Commit, CommitFails, At
  <1>2. PICK result \in {"ok", "failed"} : Finish(w, result)
    BY DEF Commit, CommitFails
  <1>3. faults' \in 0 .. MaxFaults
    BY FaultCounted DEF Commit, CommitFails, IInv, TypeOK
  <1> QED
    BY <1>1, <1>2, <1>3, WritesStep

-----------------------------------------------------------------------------
(* The statements of HandleFriendApply.                                    *)

LEMMA ReadRequestStep ==
  ASSUME IInv, NEW w \in Workers, ReadRequest(w)
  PROVE  IInv'
  <1> DEFINE x == op[w].ref
  <1>1. /\ pc[w] = "handle" /\ op[w].kind \in {"accept", "reject"} /\ x \in Requests
        /\ xlocks[w] = {}
    BY AtAnswer DEF ReadRequest, At
  <1>2. CASE request[x] = "pending"
    <2>1. PICK label : /\ label = IF op[w].kind = "accept" THEN "newChat" ELSE "seq"
                       /\ Goto(w, label)
      BY <1>2 DEF ReadRequest
    <2>2. Locks(w)
      BY <1>2 DEF ReadRequest
    <2>3. xlocks'[w] = {Row(x)}
      <3>1. XWants(w) = {Row(x)}
        BY <1>1 DEF XWants
      <3>2. Row(x) \in Stored
        BY <1>1, <1>2 DEF Stored, Rows
      <3> QED
        BY <1>1, <2>2, <3>1, <3>2, LocksTaken
    <2>4. AnswerInv(w)'
      <3>1. \A r \in Requests : Row(r) \in xlocks'[w] => r = x
        BY <2>3, RowsDiffer
      <3>2. op'[w] = op[w] /\ pc'[w] \in {"newChat", "seq"} /\ request' = request
        BY <2>1, GotoLocals DEF tables
      <3>3. op[w].kind = "accept" => pc'[w] = "newChat"
        BY <2>1, GotoLocals
      <3> QED
        BY <1>1, <1>2, <2>3, <3>1, <3>2, <3>3 DEF AnswerInv
    <2>5. Follows(w, label)
      BY <1>1, <2>1 DEF Follows
    <2> QED
      BY <1>1, <2>1, <2>2, <2>4, <2>5, GotoStep
  <1>3. CASE request[x] # "pending"
    <2> DEFINE desired == IF op[w].kind = "accept" THEN "accepted" ELSE "rejected"
    <2>1. Leave(w, IF request[x] = desired THEN "ok" ELSE "refused")
      BY <1>3 DEF ReadRequest
    <2>2. request[x] = "accepted" => Pair(x) \in friends
      BY <1>1 DEF IInv, FriendsInv
    <2>3. op[w].kind = "accept" /\ request[x] = "accepted" => Holds(op[w])
      BY <2>2 DEF Holds
    <2>4. op[w].kind = "reject" /\ request[x] = "rejected" => Holds(op[w])
      BY DEF Holds
    <2> QED
      BY <1>1, <2>1, <2>3, <2>4, LeaveStep
  <1> QED
    BY <1>2, <1>3

LEMMA InsertChatStep ==
  ASSUME IInv, NEW w \in Workers, InsertChat(w)
  PROVE  IInv'
  <1> DEFINE x == op[w].ref
  <1>1. /\ pc[w] = "newChat" /\ op[w].kind = "accept" /\ AnswerInv(w)
        /\ Goto(w, "newFriend") /\ Inserts(w)
    BY AtAnswer DEF InsertChat, At
  <1>2. XWants(w) = {Chat(x)}
    BY <1>1 DEF XWants
  <1>3. /\ Chat(x) \in xlocks'[w] /\ xlocks[w] \subseteq xlocks'[w]
        /\ xlocks'[w] \subseteq xlocks[w] \cup {Chat(x)}
    BY <1>1, <1>2, LocksTaken
  <1>4. \A r \in Requests : Row(r) \in xlocks'[w] => Row(r) \in xlocks[w]
    BY <1>3, RowsDiffer
  <1>5. op'[w] = op[w] /\ pc'[w] = "newFriend" /\ request' = request
    BY <1>1, GotoLocals DEF tables
  <1>6. AnswerInv(w)'
    BY <1>1, <1>3, <1>4, <1>5 DEF AnswerInv
  <1>7. Follows(w, "newFriend")
    BY <1>1 DEF Follows
  <1> QED
    BY <1>1, <1>6, <1>7, GotoStep

LEMMA InsertFriendshipStep ==
  ASSUME IInv, NEW w \in Workers, InsertFriendship(w)
  PROVE  IInv'
  <1> DEFINE x == op[w].ref
  <1>1. /\ pc[w] = "newFriend" /\ op[w].kind = "accept" /\ x \in Requests /\ AnswerInv(w)
        /\ Goto(w, "both") /\ Inserts(w)
    BY AtAnswer DEF InsertFriendship, At
  <1>2. Pair(x) \notin friends
    BY <1>1 DEF AnswerInv, IInv, FriendsInv, NoSuperfluousRequest
  <1>3. XWants(w) = {Friendship(x)} /\ SWants(w) = {User(u) : u \in Pair(x)}
    BY <1>1, <1>2 DEF XWants, SWants
  <1>4. /\ xlocks[w] \subseteq xlocks'[w]
        /\ xlocks'[w] \subseteq xlocks[w] \cup {Friendship(x)}
        /\ \A u \in Pair(x) : User(u) \in slocks'[w]
    BY <1>1, <1>3, LocksTaken
  <1>5. \A r \in Requests : Row(r) \in xlocks'[w] => Row(r) \in xlocks[w]
    BY <1>4, RowsDiffer
  <1>6. op'[w] = op[w] /\ pc'[w] = "both" /\ request' = request
    BY <1>1, GotoLocals DEF tables
  <1>7. AnswerInv(w)'
    BY <1>1, <1>4, <1>5, <1>6 DEF AnswerInv
  <1>8. Follows(w, "both")
    BY <1>1 DEF Follows
  <1> QED
    BY <1>1, <1>7, <1>8, GotoStep

LEMMA UpdateRequestsStep ==
  ASSUME IInv, NEW w \in Workers, UpdateRequests(w)
  PROVE  IInv'
  <1> DEFINE x == op[w].ref
  <1>1. /\ pc[w] = "both" /\ op[w].kind = "accept" /\ AnswerInv(w)
        /\ Goto(w, "seq") /\ Locks(w)
    BY AtAnswer DEF UpdateRequests, At
  <1>2. XWants(w) = Rows(ScannedBoth(x))
    BY <1>1 DEF XWants
  <1>3. ASSUME NEW r \in Requests
        PROVE  Row(r) \in XWants(w) \cap Stored <=> request[r] = "pending" /\ Pair(r) = Pair(x)
    <2>1. Row(r) \in XWants(w) <=>
            request[r] \in {"none", "pending"} /\ Pair(r) = Pair(x)
      BY <1>2, RowsDiffer DEF Rows, ScannedBoth
    <2>2. Row(r) \in Stored <=> request[r] # "none"
      BY TablesAssumption DEF Stored, Rows, Row, User
    <2> QED
      BY <2>1, <2>2
  <1>4. xlocks'[w] = xlocks[w] \cup (XWants(w) \cap Stored)
    BY <1>1, LocksTaken
  <1>5. slocks' = slocks
    BY <1>1 DEF Locks
  <1>6. op'[w] = op[w] /\ pc'[w] = "seq" /\ request' = request
    BY <1>1, GotoLocals DEF tables
  <1>7. /\ xlocks[w] \subseteq xlocks'[w]
        /\ \A r \in Requests : Row(r) \in xlocks'[w] <=>
             Row(r) \in xlocks[w] \/ (request[r] = "pending" /\ Pair(r) = Pair(x))
    BY <1>3, <1>4
  <1>8. AnswerInv(w)'
    BY <1>1, <1>5, <1>6, <1>7 DEF AnswerInv
  <1>9. Follows(w, "seq")
    BY <1>1 DEF Follows
  <1> QED
    BY <1>1, <1>8, <1>9, GotoStep
=============================================================================
