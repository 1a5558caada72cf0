-------------------------- MODULE EventStore_proofs --------------------------
(***************************************************************************)
(* What holds of the event store for any number of servers, users and      *)
(* messages, and that it implements a log of events per user.              *)
(***************************************************************************)
EXTENDS EventStoreInv_proofs, Sequences, FiniteSetTheorems

\* The time a prover has for a step.
USE ZenonT(3), SMTT(30)

-----------------------------------------------------------------------------
(* The invariant.                                                          *)

LEMMA Initially ==
  Init => IInv
  <1> SUFFICES ASSUME Init
               PROVE  IInv
    OBVIOUS
  <1>1. TypeOK
    BY BoundsAssumption, TablesAssumption DEF Init, TypeOK, Messages, Labels
  <1>2. LocksTypeOK /\ Exclusive
    BY DEF Init, LocksTypeOK, Exclusive
  <1>3. ASSUME NEW w \in Workers
        PROVE  WorkerInv(w)
    <2>1. /\ pc[w] = "done" /\ op[w] = NoOperation /\ answer[w] = "none" /\ seq[w] = 0
          /\ xlocks[w] = {} /\ slocks[w] = {}
      BY DEF Init
    <2>2. LabelInv(w) /\ SeqInv(w) /\ HoldsInv(w)
      BY <2>1 DEF LabelInv, SeqInv, HoldsInv
    <2>3. SendInv(w) /\ PublishInv(w) /\ ApplyInv(w) /\ AnswerInv(w)
      BY <2>1 DEF NoOperation, SendInv, PublishInv, ApplyInv, AnswerInv
    <2> QED
      BY <2>2, <2>3 DEF WorkerInv
  <1>4. NumbersInv
    BY DEF Init, NumbersInv
  <1>5. RowsInv /\ FriendsInv
    BY DEF Init, RowsInv, FriendsInv, NoSuperfluousRequest
  <1> QED
    BY <1>1, <1>2, <1>3, <1>4, <1>5 DEF IInv

\* Steps that do not come to a commit, a failed upload or a new chat.
Quiet(w) ==
  \/ \E o \in Operations : Start(w, o)
  \/ Step(w) /\ ~MarkResourceFailed(w) /\ ~CreatePrivateChat(w) /\ ~Commit(w)
  \/ Deadlock(w)
  \/ GapDeadlock(w)
  \/ StatementFails(w)

LEMMA QuietTables ==
  ASSUME IInv, NEW w \in Workers, Quiet(w)
  PROVE  UNCHANGED tables
  <1>1. ASSUME Step(w), ~MarkResourceFailed(w), ~CreatePrivateChat(w), ~Commit(w)
        PROVE  UNCHANGED tables
    <2>1. CASE GetPrivateChatMembers(w) \/ ReadPrivateChatMembers(w)
      BY <2>1 DEF GetPrivateChatMembers, ReadPrivateChatMembers, Goto, Leave
    <2>2. CASE FindMessage(w) \/ InsertMessage(w)
      BY <2>2 DEF FindMessage, InsertMessage, Goto, Leave
    <2>3. CASE LockMessage(w)
      BY <2>3 DEF LockMessage, Goto, Leave
    <2>4. CASE LockTarget(w) \/ CheckFriendship(w)
      BY <2>4 DEF LockTarget, CheckFriendship, Goto, Leave
    <2>5. CASE FindRequest(w) \/ FindPending(w) \/ InsertRequest(w)
      BY <2>5 DEF FindRequest, FindPending, InsertRequest, Goto, Leave
    <2>6. CASE ReadRequest(w)
      BY <2>6 DEF ReadRequest, Goto, Leave
    <2>7. CASE InsertChat(w) \/ InsertFriendship(w) \/ UpdateRequests(w)
      BY <2>7 DEF InsertChat, InsertFriendship, UpdateRequests, Goto
    <2>8. CASE AllocateEventSeq(w)
      BY <2>8 DEF AllocateEventSeq
    <2>9. CASE LockChat(w)
      <3>1. message[op[w].ref] \in {"pending", "published", "failed"}
        BY <2>9, LockedMessage DEF LockChat, At
      <3> QED
        BY <2>9, <3>1 DEF LockChat, Goto, Leave
    <2> QED
      BY <1>1, <2>1, <2>2, <2>3, <2>4, <2>5, <2>6, <2>7, <2>8, <2>9 DEF Step
  <1>2. ASSUME NEW o \in Operations, Start(w, o)
        PROVE  UNCHANGED tables
    BY <1>2 DEF Start
  <1> QED
    BY <1>1, <1>2 DEF Quiet, Deadlock, GapDeadlock, DeadlockError, StatementFails

LEMMA NextStep ==
  IInv /\ [Next]_vars => IInv'
  <1> SUFFICES ASSUME IInv, [Next]_vars
               PROVE  IInv'
    OBVIOUS
  <1>1. CASE UNCHANGED vars
    <2>1. UNCHANGED tables /\ UNCHANGED <<xlocks, slocks>> /\ \A w \in Workers : SameLocals(w)
      BY <1>1 DEF vars, SameLocals
    <2>2. TypeOK' /\ LocksTypeOK' /\ Exclusive'
      BY <1>1, LocksKept DEF vars, tables, IInv, TypeOK
    <2>3. \A w \in Workers : WorkerInv(w)'
      BY <2>1, WorkerKept DEF IInv
    <2>4. NumbersInv'
      BY <2>1 DEF IInv, NumbersInv, tables
    <2>5. RowsInv'
      BY <2>1 DEF IInv, RowsInv, Resolves, tables
    <2>6. FriendsInv'
      BY <2>1 DEF IInv, FriendsInv, NoSuperfluousRequest, Scanned, tables
    <2> QED
      BY <2>2, <2>3, <2>4, <2>5, <2>6 DEF IInv
  <1>2. ASSUME NEW w \in Workers, Step(w)
        PROVE  IInv'
    BY <1>2, GetPrivateChatMembersStep, ReadPrivateChatMembersStep, FindMessageStep,
       InsertMessageStep, LockMessageStep, LockChatStep, MarkResourceFailedStep,
       LockTargetStep, CheckFriendshipStep, FindRequestStep, FindPendingStep,
       InsertRequestStep, ReadRequestStep, InsertChatStep, InsertFriendshipStep,
       UpdateRequestsStep, CreatePrivateChatStep, AllocateEventSeqStep, CommitStep
       DEF Step
  <1> QED
    BY <1>1, <1>2, StartStep, DeadlockStep, GapDeadlockStep, StatementFailsStep, CommitStep
       DEF Next

\* The tables, the locks and what each worker has read fit together in every
\* reachable state, whatever the servers' transactions and their failures do.
THEOREM Invariance ==
  Spec => []IInv
  BY Initially, NextStep, PTL DEF Spec

-----------------------------------------------------------------------------
(* Theorems.                                                               *)

\* AddFriendApply reads the friendship without a lock; nevertheless friends
\* never have a pending request between them.
THEOREM RequestsNeverSuperfluous ==
  Spec => []NoSuperfluousRequest
  <1>1. IInv => NoSuperfluousRequest
    BY DEF IInv, FriendsInv
  <1> QED
    BY <1>1, Invariance, PTL

\* A server that answers with success has done, or found done, what it was
\* asked for, and nothing undoes it.
THEOREM AnswersAlwaysHold ==
  Spec => []AnswersHold
  <1>1. IInv => AnswersHold
    BY DEF IInv, WorkerInv, HoldsInv, AnswersHold
  <1> QED
    BY <1>1, Invariance, PTL

\* No step of any server deletes a row or revises a decision: a published or
\* failed message and an accepted or rejected request stay what they are.
THEOREM DecisionsFinal ==
  Spec => [][Forward]_tables
  <1>1. ASSUME IInv, [Next]_vars
        PROVE  [Forward]_tables
    <2>1. CASE UNCHANGED vars
      BY <2>1 DEF vars
    <2>2. ASSUME NEW w \in Workers, MarkResourceFailed(w)
          PROVE  [Forward]_tables
      <3>1. CASE UNCHANGED tables
        BY <3>1
      <3>2. CASE ~UNCHANGED tables
        <4>1. /\ message[op[w].ref] = "pending"
              /\ message' = [message EXCEPT ![op[w].ref] = "failed"]
              /\ UNCHANGED <<chats, friends, request>>
          BY <2>2, <3>2 DEF MarkResourceFailed, Leave
        <4>2. \A m \in Messages : message'[m] = IF m = op[w].ref THEN "failed" ELSE message[m]
          BY <1>1, <4>1 DEF IInv, TypeOK
        <4> QED
          BY <4>1, <4>2 DEF Forward
      <3> QED
        BY <3>1, <3>2
    <2>3. ASSUME NEW w \in Workers, CreatePrivateChat(w)
          PROVE  [Forward]_tables
      BY <2>3 DEF CreatePrivateChat, Forward
    <2>4. ASSUME NEW w \in Workers, Quiet(w)
          PROVE  [Forward]_tables
      BY <1>1, <2>4, QuietTables
    <2> QED
      BY <1>1, <2>1, <2>2, <2>3, <2>4, CommitStep DEF Next, Quiet
  <1> QED
    BY <1>1, Invariance, PTL DEF Spec

-----------------------------------------------------------------------------
(* The event log.                                                          *)

Entry(set, u, i) ==
  LET e == CHOOSE e \in set : e.user = u /\ e.seq = i
  IN  <<e.type, e.ref>>

LogOf(set, last) == [u \in Users |-> [i \in 1 .. last[u] |-> Entry(set, u, i)]]

Longer(s, e) == Append(s, e)

LEMMA EntryOfEvent ==
  ASSUME NEW set, NEW e \in set, \A d \in set : d.user = e.user /\ d.seq = e.seq => d = e
  PROVE  Entry(set, e.user, e.seq) = <<e.type, e.ref>>
  <1> DEFINE c == CHOOSE d \in set : d.user = e.user /\ d.seq = e.seq
  <1>1. c \in set /\ c.user = e.user /\ c.seq = e.seq
    OBVIOUS
  <1>2. c = e
    BY <1>1
  <1> QED
    BY <1>2 DEF Entry

\* One more element at the end.
LEMMA AppendedFunction ==
  ASSUME NEW S, NEW n \in Nat, NEW s \in [1 .. n -> S], NEW t \in [1 .. n + 1 -> S],
         \A i \in 1 .. n : t[i] = s[i]
  PROVE  t = Append(s, t[n + 1])
  <1> DEFINE a == Append(s, t[n + 1])
  <1>1. s \in Seq(S) /\ t \in Seq(S) /\ Len(s) = n /\ Len(t) = n + 1 /\ t[n + 1] \in S
    OBVIOUS
  <1>2. /\ a \in Seq(S) /\ Len(a) = n + 1 /\ a[n + 1] = t[n + 1]
        /\ \A i \in 1 .. n : a[i] = s[i]
    BY <1>1
  <1>3. \A i \in 1 .. Len(t) : t[i] = a[i]
    <2> SUFFICES ASSUME NEW i \in 1 .. n + 1
                 PROVE  t[i] = a[i]
      BY <1>1
    <2>1. CASE i \in 1 .. n
      BY <1>2, <2>1
    <2>2. CASE i = n + 1
      BY <1>2, <2>2
    <2> QED
      BY <2>1, <2>2
  <1> HIDE DEF a
  <1>4. t = a
    BY <1>1, <1>2, <1>3
  <1> QED
    BY <1>4 DEF a

\* The events so far keep their places when one with a new number comes.
LEMMA EntriesKept ==
  ASSUME NEW set, NEW new, set \subseteq new,
         \A c, d \in new : c.user = d.user /\ c.seq = d.seq => c = d,
         NEW v, NEW i, \E d \in set : d.user = v /\ d.seq = i
  PROVE  Entry(new, v, i) = Entry(set, v, i)
  <1>1. PICK d \in set : d.user = v /\ d.seq = i
    OBVIOUS
  <1>2. Entry(set, d.user, d.seq) = <<d.type, d.ref>>
    BY EntryOfEvent
  <1>3. Entry(new, d.user, d.seq) = <<d.type, d.ref>>
    BY EntryOfEvent
  <1> QED
    BY <1>1, <1>2, <1>3

\* The log of a user without a new event, and of one with.
LEMMA LogKept ==
  ASSUME NEW set, NEW new, NEW last, NEW next, NEW v \in Users, next[v] = last[v],
         \A i \in 1 .. last[v] : Entry(new, v, i) = Entry(set, v, i)
  PROVE  LogOf(new, next)[v] = LogOf(set, last)[v]
  <1>1. [i \in 1 .. last[v] |-> Entry(new, v, i)] = [i \in 1 .. last[v] |-> Entry(set, v, i)]
    OBVIOUS
  <1> QED
    BY <1>1 DEF LogOf

LEMMA LogExtended ==
  ASSUME NEW set, NEW new, NEW last, NEW next, NEW u \in Users, last[u] \in Nat,
         next[u] = last[u] + 1,
         \A i \in 1 .. last[u] : Entry(new, u, i) = Entry(set, u, i)
  PROVE  LogOf(new, next)[u] = Longer(LogOf(set, last)[u], Entry(new, u, last[u] + 1))
  <1> DEFINE S == {Entry(new, u, i) : i \in 1 .. last[u] + 1}
             long == [i \in 1 .. last[u] + 1 |-> Entry(new, u, i)]
             short == [i \in 1 .. last[u] |-> Entry(set, u, i)]
  <1>1. LogOf(new, next)[u] = long /\ LogOf(set, last)[u] = short
    BY DEF LogOf
  <1>2. \A i \in 1 .. last[u] : i \in 1 .. last[u] + 1
    OBVIOUS
  <1>3. \A i \in 1 .. last[u] : Entry(set, u, i) \in S
    BY <1>2
  <1>4. short \in [1 .. last[u] -> S] /\ long \in [1 .. last[u] + 1 -> S]
    BY <1>3
  <1>5. /\ long[last[u] + 1] = Entry(new, u, last[u] + 1)
        /\ \A i \in 1 .. last[u] : long[i] = short[i]
    BY <1>2
  <1> HIDE DEF long, short, S
  <1>6. long = Append(short, long[last[u] + 1])
    BY <1>4, <1>5, AppendedFunction
  <1> QED
    BY <1>1, <1>5, <1>6 DEF Longer

\* A step keeps the log of events or appends one that was not in it.
LEMMA LogStep ==
  ASSUME IInv, IInv', Next
  PROVE  \/ UNCHANGED <<events, lastSeq>>
         \/ \E u \in Users, e \in Log!Events :
              /\ LogOf(events', lastSeq') = [LogOf(events, lastSeq) EXCEPT ![u] = Longer(@, e)]
              /\ \A v \in Users : \A i \in 1 .. lastSeq[v] : Entry(events, v, i) # e
  <1>1. PICK w \in Workers : \/ Quiet(w) \/ MarkResourceFailed(w) \/ CreatePrivateChat(w)
                             \/ Commit(w) \/ CommitFails(w)
    BY DEF Next, Quiet
  <1>2. CASE Quiet(w)
    BY <1>2, QuietTables DEF tables
  <1>3. CASE MarkResourceFailed(w) \/ CreatePrivateChat(w)
    BY <1>3 DEF MarkResourceFailed, CreatePrivateChat, Leave, tables
  <1>4. CASE Commit(w) \/ CommitFails(w)
    <2>1. pc[w] = "commit" /\ Writes(w)
      BY <1>4 DEF Commit, CommitFails, At
    <2>2. CASE op[w].kind = "send" /\ op[w].ref \in Files
      <3>1. seq[w] = 0
        BY <2>1, <2>2, AtCommit DEF SeqInv
      <3> QED
        BY <2>1, <3>1 DEF Writes
    <2>3. CASE ~(op[w].kind = "send" /\ op[w].ref \in Files)
      <3>1. PICK u, e : u = Recipient(op[w]) /\ e = EventOf(w)
        OBVIOUS
      <3>2. /\ op[w].ref \in Messages \cup Requests
            /\ seq[w] = lastSeq[u] + 1 /\ seq[w] # 0 /\ events' = events \cup {e}
        BY <2>1, <2>3, <3>1, AtCommit, NumberedCommit DEF SeqInv
      <3>3. /\ u \in Users /\ lastSeq' = [lastSeq EXCEPT ![u] = lastSeq[u] + 1]
            /\ e.user = u /\ e.seq = lastSeq[u] + 1 /\ e \in events'
        BY <2>1, <3>1, <3>2, PairType DEF Writes, Recipient, EventOf
      <3>4. LogOf(events', lastSeq')
              = [LogOf(events, lastSeq) EXCEPT ![u] = Longer(@, <<e.type, e.ref>>)]
        <4>1. \A c, d \in events' : c.user = d.user /\ c.seq = d.seq => c = d
          BY DEF IInv, NumbersInv
        <4>2. lastSeq \in [Users -> Nat]
          BY DEF IInv, TypeOK
        <4>3. \A v \in Users : \A i \in 1 .. lastSeq[v] :
                Entry(events', v, i) = Entry(events, v, i)
          <5>1. \A v \in Users : \A i \in 1 .. lastSeq[v] :
                  \E d \in events : d.user = v /\ d.seq = i
            BY DEF IInv, NumbersInv
          <5>2. events \subseteq events'
            BY <3>2
          <5> QED
            BY <5>1, <5>2, <4>1, EntriesKept
        <4>4. Entry(events', u, lastSeq[u] + 1) = <<e.type, e.ref>>
          <5>1. Entry(events', e.user, e.seq) = <<e.type, e.ref>>
            BY <3>3, <4>1, EntryOfEvent
          <5> QED
            BY <3>3, <5>1
        <4>5. /\ lastSeq[u] \in Nat /\ lastSeq'[u] = lastSeq[u] + 1
              /\ \A v \in Users : v # u => lastSeq'[v] = lastSeq[v]
          BY <3>3, <4>2
        <4>6. /\ \A v \in Users : v # u => LogOf(events', lastSeq')[v] = LogOf(events, lastSeq)[v]
              /\ LogOf(events', lastSeq')[u]
                   = Longer(LogOf(events, lastSeq)[u], Entry(events', u, lastSeq[u] + 1))
          <5>1. \A v \in Users : v # u => LogOf(events', lastSeq')[v] = LogOf(events, lastSeq)[v]
            BY <4>3, <4>5, LogKept
          <5>2. u \in Users /\ \A i \in 1 .. lastSeq[u] : Entry(events', u, i) = Entry(events, u, i)
            BY <3>3, <4>3
          <5>3. LogOf(events', lastSeq')[u]
                  = Longer(LogOf(events, lastSeq)[u], Entry(events', u, lastSeq[u] + 1))
            BY <4>5, <5>2, LogExtended
          <5> QED
            BY <5>1, <5>3
        <4>7. PICK f : f = LogOf(events', lastSeq') /\ f = [v \in Users |-> f[v]]
          BY DEF LogOf
        <4>8. PICK g : g = LogOf(events, lastSeq) /\ g = [v \in Users |-> g[v]]
          BY DEF LogOf
        <4>9. f = [g EXCEPT ![u] = Longer(@, <<e.type, e.ref>>)]
          BY <3>3, <4>4, <4>6, <4>7, <4>8
        <4> QED
          BY <4>7, <4>8, <4>9
      <3>5. <<e.type, e.ref>> \in Log!Events
        <4>1. e.type \in EventTypes /\ e.ref \in Messages \cup Requests
          BY <3>3 DEF IInv, NumbersInv
        <4>2. e.type = "message" <=> e.ref \in Messages
          BY <3>3 DEF IInv, RowsInv
        <4> QED
          BY <4>1, <4>2, TablesAssumption DEF Log!Events, EventTypes, Messages
      <3>6. \A d \in events : <<d.type, d.ref>> # <<e.type, e.ref>>
        <4>1. e \notin events
          BY <3>3 DEF IInv, TypeOK, NumbersInv
        <4> QED
          BY <3>2, <3>3, <4>1 DEF IInv, RowsInv
      <3>7. \A v \in Users : \A i \in 1 .. lastSeq[v] : Entry(events, v, i) # <<e.type, e.ref>>
        <4> SUFFICES ASSUME NEW v \in Users, NEW i \in 1 .. lastSeq[v]
                     PROVE  Entry(events, v, i) # <<e.type, e.ref>>
          OBVIOUS
        <4>1. PICK d \in events : d.user = v /\ d.seq = i
          BY DEF IInv, NumbersInv
        <4>2. Entry(events, d.user, d.seq) = <<d.type, d.ref>>
          BY EntryOfEvent DEF IInv, NumbersInv
        <4> QED
          BY <3>6, <4>1, <4>2
      <3> QED
        BY <3>3, <3>4, <3>5, <3>7
    <2> QED
      BY <2>2, <2>3
  <1> QED
    BY <1>1, <1>2, <1>3, <1>4

\* The tables, written by servers that know of each other through row locks
\* only, are for every reader one log of events per user: it grows at its
\* end, one event with each commit, and no event is in it twice.
THEOREM StoreImplementsLog ==
  Spec => ImplementsEventLog
  <1>1. Init => Log!Init
    <2> SUFFICES ASSUME Init
                 PROVE  Log!Init
      OBVIOUS
    <2>1. \A u \in Users : lastSeq[u] = 0
      BY DEF Init
    <2>2. \A u \in Users : [i \in 1 .. lastSeq[u] |-> Entry(events, u, i)] = <<>>
      BY <2>1
    <2> QED
      BY <2>2 DEF Log!Init, Entry
  <1>2. ASSUME IInv, IInv', [Next]_vars
        PROVE  [Log!Next]_(LogOf(events, lastSeq))
    <2>1. CASE UNCHANGED vars
      BY <2>1 DEF vars, tables
    <2>2. CASE UNCHANGED <<events, lastSeq>>
      BY <2>2
    <2>3. ASSUME NEW u \in Users, NEW e \in Log!Events,
                 LogOf(events', lastSeq')
                   = [LogOf(events, lastSeq) EXCEPT ![u] = Longer(@, e)],
                 \A v \in Users : \A i \in 1 .. lastSeq[v] : Entry(events, v, i) # e
          PROVE  Log!Next
      <3>1. \A v \in Users : \A i \in DOMAIN LogOf(events, lastSeq)[v] :
              LogOf(events, lastSeq)[v][i] # e
        BY <2>3 DEF LogOf
      <3>2. Log!Commit(u, e)
        BY <2>3, <3>1 DEF Log!Commit, LogOf, Entry, Longer
      <3> QED
        BY <2>3, <3>2 DEF Log!Next
    <2> QED
      BY <1>2, <2>1, <2>2, <2>3, LogStep
  <1> QED
    BY <1>1, <1>2, Invariance, PTL DEF Spec, ImplementsEventLog, Log!Spec, LogOf, Entry

-----------------------------------------------------------------------------
(* One event for each row.                                                 *)

LEMMA OneEvent ==
  ASSUME NEW S, NEW e \in S, \A d \in S : d = e
  PROVE  Cardinality(S) = 1
  <1>1. S = {e}
    OBVIOUS
  <1> QED
    BY <1>1, FS_Singleton

LEMMA InvariantMatches ==
  IInv => EventsMatchTables
  <1> SUFFICES ASSUME IInv
               PROVE  EventsMatchTables
    OBVIOUS
  <1>1. \A u \in Users : \A e \in GetEventsAfterSeq(u, 0) : Resolves(e)
    BY DEF IInv, RowsInv, GetEventsAfterSeq
  <1>2. ASSUME NEW m \in Messages, message[m] = "published"
        PROVE  Cardinality({e \in events : e.ref = m}) = 1
    <2>1. PICK e \in events : e.ref = m
      BY <1>2 DEF IInv, RowsInv
    <2>2. \A d \in {d \in events : d.ref = m} : d = e
      BY <2>1 DEF IInv, RowsInv
    <2> QED
      BY <2>1, <2>2, OneEvent
  <1>3. ASSUME NEW r \in Requests, request[r] # "none"
        PROVE  Cardinality({e \in events : e.ref = r /\ e.type = "apply"}) = 1
    <2>1. PICK e \in events : e.ref = r /\ e.type = "apply"
      BY <1>3 DEF IInv, RowsInv
    <2>2. \A d \in {d \in events : d.ref = r /\ d.type = "apply"} : d = e
      BY <2>1 DEF IInv, RowsInv
    <2> QED
      BY <2>1, <2>2, OneEvent
  <1>4. TypeOK /\ \A p \in friends : \E e \in events : e.type = "accept" /\ Pair(e.ref) = p
    BY DEF IInv, FriendsInv
  <1>5. \A m \in Messages : message[m] = "published" =>
          Cardinality({e \in events : e.ref = m}) = 1
    BY <1>2
  <1>6. \A r \in Requests : request[r] # "none" =>
          Cardinality({e \in events : e.ref = r /\ e.type = "apply"}) = 1
    BY <1>3
  <1> QED
    BY <1>1, <1>4, <1>5, <1>6 DEF EventsMatchTables

\* Whatever the servers commit, in whatever order, every event that
\* GetEventsAfterSeq reads finds its row in the state it tells of, and every
\* published message and every request has exactly one event.
THEOREM EventsAlwaysMatch ==
  Spec => []EventsMatchTables
  BY Invariance, InvariantMatches, PTL
=============================================================================
