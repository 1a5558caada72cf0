-------------------------- MODULE ChatSync_proofs --------------------------
(***************************************************************************)
(* Theorems about ChatSync, for every log length, page size, number of     *)
(* notifications and faults.                                               *)
(***************************************************************************)
EXTENDS ChatSync, TLAPS

\* The time a prover has for a step.
USE ZenonT(3), SMTT(30)

-----------------------------------------------------------------------------
(* Sequences.                                                              *)

(* A sequence over S is one over every larger set.                         *)
LEMMA SeqMonotone ==
  ASSUME NEW S, NEW T, S \subseteq T
  PROVE  Seq(S) \subseteq Seq(T)
  OBVIOUS

(* What a FIFO gives out and keeps.                                        *)
LEMMA HeadTail ==
  ASSUME NEW S, NEW q \in Seq(S), q # <<>>
  PROVE  Head(q) \in S /\ Tail(q) \in Seq(S)
  OBVIOUS

-----------------------------------------------------------------------------
(* Frames, calls and results: what may be there stays admissible when the  *)
(* log grows, and the fields that each kind of record has.                 *)

LEMMA SnapshotsMonotone ==
  ASSUME NEW m \in Nat, NEW n \in Nat, m <= n
  PROVE  Snapshots(m) \subseteq Snapshots(n)
  BY DEF Snapshots

LEMMA RequestFramesMonotone ==
  ASSUME NEW m \in Nat, NEW n \in Nat, m <= n
  PROVE  RequestFrames(m) \subseteq RequestFrames(n)
  BY DEF RequestFrames

LEMMA ServerFramesMonotone ==
  ASSUME NEW m \in Nat, NEW n \in Nat, m <= n
  PROVE  ServerFrames(m) \subseteq ServerFrames(n)
  <1>1. Seq(1 .. m) \subseteq Seq(1 .. n)
    BY SeqMonotone
  <1>2. Snapshots(m) \subseteq Snapshots(n)
    BY SnapshotsMonotone
  <1> QED
    BY <1>1, <1>2 DEF ServerFrames

LEMMA TasksMonotone ==
  ASSUME NEW m \in Nat, NEW n \in Nat, m <= n
  PROVE  Tasks(m) \subseteq Tasks(n)
  <1>1. Seq(1 .. m) \subseteq Seq(1 .. n)
    BY SeqMonotone
  <1>2. Snapshots(m) \subseteq Snapshots(n)
    BY SnapshotsMonotone
  <1> QED
    BY <1>1, <1>2 DEF Tasks

LEMMA ResultsMonotone ==
  ASSUME NEW m \in Nat, NEW n \in Nat, m <= n
  PROVE  Results(m) \subseteq Results(n)
  BY DEF Results

LEMMA FrameFields ==
  ASSUME NEW n \in Nat, NEW f \in ServerFrames(n)
  PROVE  /\ f.type = "login" => f.snap \in Snapshots(n)
         /\ f.type = "notify" => f.seq \in 1 .. n
         /\ f.type = "sync" => /\ f.ok \in BOOLEAN
                               /\ f.events \in Seq(1 .. n)
                               /\ f.next \in 0 .. n
                               /\ f.more \in BOOLEAN
         /\ f.type = "threads" => /\ f.ok \in BOOLEAN
                                  /\ f.page \in Pages
                                  /\ f.more \in BOOLEAN
                                  /\ f.more => f.page < ThreadPages
  BY DEF ServerFrames

LEMMA RequestFields ==
  ASSUME NEW n \in Nat, NEW f \in RequestFrames(n)
  PROVE  /\ f.type = "sync" => f.after \in 0 .. n
         /\ f.type = "threads" => f.page \in Pages
  BY DEF RequestFrames

LEMMA TaskFields ==
  ASSUME NEW n \in Nat, NEW t \in Tasks(n)
  PROVE  /\ t.op = "upsert" => t.pages \subseteq Pages
         /\ t.op = "snapshot" => /\ t.snap \in Snapshots(n)
                                 /\ t.replace \in BOOLEAN
         /\ t.op = "mark" => t.seq \in 0 .. n
         /\ t.op = "page" => /\ t.events \in Seq(1 .. n)
                             /\ t.next \in 0 .. n
  BY DEF Tasks

LEMMA ResultFields ==
  ASSUME NEW n \in Nat, NEW r \in Results(n)
  PROVE  /\ r.ok \in BOOLEAN
         /\ r.op = "state" => r.seq \in 0 .. n /\ r.boot \in BOOLEAN
         /\ r.op \in {"mark", "page"} => r.seq \in 0 .. n
  BY DEF Results

-----------------------------------------------------------------------------
(* Type correctness.                                                       *)

LEMMA InitTypeOK == Init => TypeOK
  <1> SUFFICES ASSUME Init PROVE TypeOK
    OBVIOUS
  <1>1. Len(log) = 0 /\ log \in Seq(EventKinds)
    BY DEF Init
  <1>2. NoSnapshot \in Snapshots(0)
    BY DEF NoSnapshot, Snapshots
  <1>3. ServerTypeOK
    BY <1>1, <1>2, BoundsAssumption DEF Init, ServerTypeOK
  <1>4. LinkTypeOK /\ StoreTypeOK
    BY DEF Init, LinkTypeOK, StoreTypeOK
  <1>5. SyncTypeOK
    BY <1>1, <1>2 DEF Init, SyncTypeOK, States
  <1>6. DbTypeOK
    BY <1>1 DEF Init, DbTypeOK
  <1>7. FlagsTypeOK
    BY Zenon DEF Init, FlagsTypeOK
  <1> QED
    BY <1>3, <1>4, <1>5, <1>6, <1>7, BoundsAssumption DEF Init, TypeOK

(* Parts of the type invariant that a step leaves alone.                   *)
LEMMA KeepParts ==
  ASSUME TypeOK, UNCHANGED log
  PROVE  /\ UNCHANGED serverVars => ServerTypeOK'
         /\ UNCHANGED <<c2s, s2c>> => LinkTypeOK'
         /\ UNCHANGED syncVars => SyncTypeOK'
         /\ UNCHANGED <<storeQ, resultQ>> => StoreTypeOK'
         /\ UNCHANGED dbVars => DbTypeOK'
  BY DEF TypeOK, serverVars, syncVars, dbVars, ServerTypeOK, LinkTypeOK,
         SyncTypeOK, StoreTypeOK, DbTypeOK

LEMMA KeepFlags ==
  ASSUME TypeOK, UNCHANGED syncVars, UNCHANGED bootstrapped
  PROVE  FlagsTypeOK'
  BY Zenon DEF TypeOK, FlagsTypeOK, syncVars

(* The fault counter stays within its bound.                               *)
LEMMA FaultsBounded ==
  ASSUME TypeOK, UNCHANGED faults \/ Fault
  PROVE  faults' \in 0 .. MaxFaults
  BY BoundsAssumption DEF TypeOK, Fault

-----------------------------------------------------------------------------
(* The server's steps.  Only a commit changes the log, and the log grows.  *)

LEMMA CommitEventType ==
  ASSUME TypeOK, NEW kind \in EventKinds, CommitEvent(kind)
  PROVE  TypeOK'
  <1>1. /\ Len(log) \in Nat
        /\ Len(log') = Len(log) + 1
        /\ log' \in Seq(EventKinds)
    BY DEF TypeOK, ServerTypeOK, CommitEvent
  <1>2. /\ Snapshots(Len(log)) \subseteq Snapshots(Len(log'))
        /\ RequestFrames(Len(log)) \subseteq RequestFrames(Len(log'))
        /\ ServerFrames(Len(log)) \subseteq ServerFrames(Len(log'))
        /\ Tasks(Len(log)) \subseteq Tasks(Len(log'))
        /\ Results(Len(log)) \subseteq Results(Len(log'))
    BY <1>1, SnapshotsMonotone, RequestFramesMonotone, ServerFramesMonotone,
       TasksMonotone, ResultsMonotone
  <1>3. LinkTypeOK'
    BY <1>2, SeqMonotone DEF TypeOK, LinkTypeOK, CommitEvent
  <1>4. StoreTypeOK'
    BY <1>2, SeqMonotone DEF TypeOK, StoreTypeOK, CommitEvent
  <1>5. notifyLeft' \in [1 .. MaxEvents -> 0 .. MaxNotify]
    BY BoundsAssumption DEF TypeOK, ServerTypeOK, CommitEvent
  <1>6. ServerTypeOK'
    BY <1>1, <1>2, <1>5, BoundsAssumption DEF TypeOK, ServerTypeOK, CommitEvent
  <1>7. SyncTypeOK'
    BY <1>1, <1>2 DEF TypeOK, SyncTypeOK, CommitEvent, syncVars
  <1>8. DbTypeOK'
    BY <1>1 DEF TypeOK, DbTypeOK, CommitEvent, dbVars
  <1>9. FlagsTypeOK' /\ faults' \in 0 .. MaxFaults
    BY KeepFlags, FaultsBounded DEF CommitEvent, dbVars
  <1> QED
    BY <1>3, <1>4, <1>6, <1>7, <1>8, <1>9 DEF TypeOK

LEMMA DeliverUserEventType ==
  ASSUME TypeOK, NEW i \in 1 .. Len(log), DeliverUserEvent(i)
  PROVE  TypeOK'
  <1>1. ServerTypeOK'
    BY BoundsAssumption DEF TypeOK, ServerTypeOK, DeliverUserEvent
  <1>2. [type |-> "notify", seq |-> i] \in ServerFrames(Len(log))
    BY DEF ServerFrames
  <1>3. LinkTypeOK'
    BY <1>2 DEF TypeOK, LinkTypeOK, DeliverUserEvent
  <1> QED
    BY <1>1, <1>3, KeepParts, KeepFlags, FaultsBounded
       DEF TypeOK, DeliverUserEvent, dbVars

LEMMA ConnectType ==
  ASSUME TypeOK, Connect
  PROVE  TypeOK'
  <1>1. ServerTypeOK'
    BY DEF TypeOK, ServerTypeOK, Connect
  <1> QED
    BY <1>1, KeepParts, KeepFlags, FaultsBounded DEF TypeOK, Connect, dbVars

LEMMA LoginType ==
  ASSUME TypeOK,
         LoginReadCheckpoint \/ LoginReadApplyList \/ LoginReadFriendList
  PROVE  TypeOK'
  <1>1. Len(log) \in Nat /\ reply \in Snapshots(Len(log))
    BY DEF TypeOK, ServerTypeOK
  <1>2. CASE LoginReadCheckpoint
    <2>1. ServerTypeOK'
      BY <1>1, <1>2 DEF TypeOK, ServerTypeOK, LoginReadCheckpoint, Snapshots
    <2> QED
      BY <1>2, <2>1, KeepParts, KeepFlags, FaultsBounded
         DEF TypeOK, LoginReadCheckpoint, dbVars
  <1>3. CASE LoginReadApplyList
    <2>1. ServerTypeOK'
      BY <1>1, <1>3 DEF TypeOK, ServerTypeOK, LoginReadApplyList, Snapshots
    <2> QED
      BY <1>3, <2>1, KeepParts, KeepFlags, FaultsBounded
         DEF TypeOK, LoginReadApplyList, dbVars
  <1>4. CASE LoginReadFriendList
    <2>1. NoSnapshot \in Snapshots(Len(log))
      BY <1>1 DEF Snapshots, NoSnapshot
    <2>2. ServerTypeOK'
      BY <1>4, <2>1 DEF TypeOK, ServerTypeOK, LoginReadFriendList
    <2>3. LoginResponse(reply.checkpoint, reply.applies, Len(log))
            \in ServerFrames(Len(log))
      BY <1>1 DEF ServerFrames, LoginResponse, Snapshots
    <2>4. LinkTypeOK'
      BY <1>4, <2>3 DEF TypeOK, LinkTypeOK, LoginReadFriendList
    <2> QED
      BY <1>4, <2>2, <2>4, KeepParts, KeepFlags, FaultsBounded
         DEF TypeOK, LoginReadFriendList, dbVars
  <1> QED
    BY <1>2, <1>3, <1>4

(* A page read after number n holds events that exist.                     *)
LEMMA RowsType ==
  ASSUME TypeOK, NEW n \in 0 .. Len(log)
  PROVE  Rows(n) \in Seq(1 .. Len(log))
  <1> DEFINE size == IF Len(log) - n > PageLimit THEN PageLimit
                                                 ELSE Len(log) - n
  <1>1. Len(log) \in Nat /\ size \in Nat /\ n + size <= Len(log)
    BY BoundsAssumption DEF TypeOK, ServerTypeOK
  <1>2. Rows(n) = [i \in 1 .. size |-> n + i]
    BY DEF Rows
  <1> QED
    BY <1>1, <1>2

(* The number of the last event of a page.                                 *)
LEMMA LastOrType ==
  ASSUME NEW m \in Nat, NEW n \in 0 .. m, NEW events \in Seq(1 .. m)
  PROVE  LastOr(events, n) \in 0 .. m
  BY DEF LastOr

LEMMA DealSyncMessageType ==
  ASSUME TypeOK, NEW ok \in BOOLEAN, DealSyncMessage(ok)
  PROVE  TypeOK'
  <1> DEFINE after == Head(c2s).after
  <1>1. Len(log) \in Nat
    BY DEF TypeOK, ServerTypeOK
  <1>2. Head(c2s) \in RequestFrames(Len(log))
        /\ Tail(c2s) \in Seq(RequestFrames(Len(log)))
    BY HeadTail DEF TypeOK, LinkTypeOK, DealSyncMessage
  <1>3. after \in 0 .. Len(log)
    BY <1>1, <1>2, RequestFields DEF DealSyncMessage
  <1>4. SyncError \in ServerFrames(Len(log))
    BY <1>1 DEF SyncError, ServerFrames
  <1>5. SyncPage(after) \in ServerFrames(Len(log))
    <2>1. LastOr(Rows(after), after) \in 0 .. Len(log)
          /\ Rows(after) \in Seq(1 .. Len(log))
      BY <1>1, <1>3, RowsType, LastOrType
    <2>2. (Len(log) - after > PageLimit) \in BOOLEAN
      OBVIOUS
    <2> QED
      BY <2>1, <2>2 DEF SyncPage, ServerFrames
  <1>6. LinkTypeOK'
    BY <1>2, <1>4, <1>5
       DEF TypeOK, LinkTypeOK, DealSyncMessage, serverVars
  <1> QED
    BY <1>6, KeepParts, KeepFlags, FaultsBounded
       DEF TypeOK, DealSyncMessage, Outcome, serverVars, dbVars

LEMMA GetUserThreadsType ==
  ASSUME TypeOK, NEW ok \in BOOLEAN, GetUserThreadsHandler(ok)
  PROVE  TypeOK'
  <1> DEFINE page == Head(c2s).page
             rsp == [type |-> "threads", ok |-> ok, page |-> page,
                     more |-> page < ThreadPages]
  <1>1. Len(log) \in Nat
    BY DEF TypeOK, ServerTypeOK
  <1>2. Head(c2s) \in RequestFrames(Len(log))
        /\ Tail(c2s) \in Seq(RequestFrames(Len(log)))
    BY HeadTail DEF TypeOK, LinkTypeOK, GetUserThreadsHandler
  <1>3. page \in Pages
    BY <1>1, <1>2, RequestFields DEF GetUserThreadsHandler
  <1>4. (page < ThreadPages) \in BOOLEAN
    OBVIOUS
  <1>5. rsp \in ServerFrames(Len(log))
    BY <1>3, <1>4 DEF ServerFrames
  <1>6. LinkTypeOK'
    BY <1>2, <1>5 DEF TypeOK, LinkTypeOK, GetUserThreadsHandler, serverVars
  <1> QED
    BY <1>6, KeepParts, KeepFlags, FaultsBounded
       DEF TypeOK, GetUserThreadsHandler, Outcome, serverVars, dbVars

-----------------------------------------------------------------------------
(* What the slots of ChatSyncManager share.                                *)

LEMMA TransmitType ==
  ASSUME TypeOK, NEW r \in RequestFrames(Len(log)), Transmit(r)
  PROVE  c2s' \in Seq(RequestFrames(Len(log)))
  BY DEF TypeOK, LinkTypeOK, Transmit

LEMMA SendSyncRequestType ==
  ASSUME TypeOK, NEW seq \in 0 .. Len(log), SendSyncRequest(seq)
  PROVE  /\ c2s' \in Seq(RequestFrames(Len(log)))
         /\ state' \in States
         /\ applyingLive' = FALSE
  <1>1. [type |-> "sync", after |-> seq] \in RequestFrames(Len(log))
    BY DEF RequestFrames
  <1>2. c2s' \in Seq(RequestFrames(Len(log)))
    BY <1>1, TransmitType DEF SendSyncRequest
  <1> QED
    BY <1>2 DEF SendSyncRequest, States

LEMMA SendThreadListRequestType ==
  ASSUME TypeOK, NEW page \in Pages, SendThreadListRequest(page)
  PROVE  c2s' \in Seq(RequestFrames(Len(log)))
  <1>1. [type |-> "threads", page |-> page] \in RequestFrames(Len(log))
    BY DEF RequestFrames
  <1> QED
    BY <1>1, TransmitType DEF SendThreadListRequest

LEMMA PostType ==
  ASSUME TypeOK, NEW t \in Tasks(Len(log)), Post(t)
  PROVE  storeQ' \in Seq(Tasks(Len(log)))
  BY DEF TypeOK, StoreTypeOK, Post

LEMMA ApplyEnvelopePageType ==
  ASSUME TypeOK, NEW events \in Seq(1 .. Len(log)), NEW next \in 0 .. Len(log),
         NEW seq, NEW live \in BOOLEAN,
         ApplyEnvelopePage(events, next, seq, live)
  PROVE  /\ storeQ' \in Seq(Tasks(Len(log)))
         /\ state' \in States
         /\ applyingLive' \in BOOLEAN
  <1>1. [op |-> "page", events |-> events, next |-> next] \in Tasks(Len(log))
    BY DEF Tasks
  <1>2. storeQ' \in Seq(Tasks(Len(log)))
    BY <1>1, PostType DEF ApplyEnvelopePage, TypeOK, StoreTypeOK
  <1>3. state' \in States
    BY DEF ApplyEnvelopePage, States
  <1>4. applyingLive' \in BOOLEAN
    BY Zenon DEF ApplyEnvelopePage
  <1> QED
    BY <1>2, <1>3, <1>4

LEMMA ApplyNextLiveType ==
  ASSUME TypeOK, NEW seq \in 0 .. Len(log),
         NEW pending \in SUBSET (1 .. Len(log)),
         ApplyNextLiveIfPossible(seq, pending)
  PROVE  /\ c2s' \in Seq(RequestFrames(Len(log)))
         /\ storeQ' \in Seq(Tasks(Len(log)))
         /\ state' \in States
         /\ applyingLive' \in BOOLEAN
         /\ pendingLive' \subseteq 1 .. Len(log)
  <1> DEFINE live == {i \in pending : i > seq}
  <1>1. Len(log) \in Nat
    BY DEF TypeOK, ServerTypeOK
  <1>2. CASE /\ seq + 1 \in live
             /\ pendingLive' = live \ {seq + 1}
             /\ ApplyEnvelopePage(<<seq + 1>>, seq + 1, seq, TRUE)
             /\ UNCHANGED c2s
    <2>1. <<seq + 1>> \in Seq(1 .. Len(log)) /\ seq + 1 \in 0 .. Len(log)
      BY <1>1, <1>2
    <2> QED
      BY <1>2, <2>1, ApplyEnvelopePageType DEF TypeOK, LinkTypeOK
  <1>3. CASE /\ pendingLive' = live
             /\ SendSyncRequest(seq)
             /\ UNCHANGED storeQ
    BY <1>3, SendSyncRequestType DEF TypeOK, StoreTypeOK
  <1>4. CASE /\ pendingLive' = live
             /\ state' = "SYNC_IDLE"
             /\ applyingLive' = FALSE
             /\ UNCHANGED <<c2s, storeQ>>
    BY <1>4 DEF TypeOK, LinkTypeOK, StoreTypeOK, States
  <1> QED
    BY <1>2, <1>3, <1>4 DEF ApplyNextLiveIfPossible

-----------------------------------------------------------------------------
(* Slots that take a frame from the server.                                *)

LEMMA ReceiveType ==
  ASSUME TypeOK, NEW type, Receive(type)
  PROVE  /\ Head(s2c) \in ServerFrames(Len(log))
         /\ Head(s2c).type = type
         /\ s2c' \in Seq(ServerFrames(Len(log)))
  BY HeadTail DEF TypeOK, LinkTypeOK, Receive

LEMMA SlotStartType ==
  ASSUME TypeOK, SlotStart
  PROVE  TypeOK'
  <1>1. Len(log) \in Nat /\ UNCHANGED log
    BY DEF TypeOK, ServerTypeOK, SlotStart, serverVars
  <1>2. /\ Head(s2c).snap \in Snapshots(Len(log))
        /\ s2c' \in Seq(ServerFrames(Len(log)))
    BY <1>1, ReceiveType, FrameFields DEF SlotStart
  <1>3. LinkTypeOK'
    BY <1>1, <1>2 DEF TypeOK, LinkTypeOK, SlotStart
  <1>4. SyncTypeOK'
    BY <1>1, <1>2 DEF TypeOK, SyncTypeOK, SlotStart, Snapshots, States
  <1>5. FlagsTypeOK'
    BY Zenon DEF TypeOK, FlagsTypeOK, SlotStart, dbVars
  <1>6. [op |-> "state"] \in Tasks(Len(log))
    BY DEF Tasks
  <1>7. StoreTypeOK'
    BY <1>1, <1>6, PostType DEF TypeOK, StoreTypeOK, SlotStart
  <1> QED
    BY <1>1, <1>3, <1>4, <1>5, <1>7, KeepParts, FaultsBounded
       DEF TypeOK, SlotStart

LEMMA SlotUserMessageNotifyType ==
  ASSUME TypeOK, SlotUserMessageNotify
  PROVE  TypeOK'
  <1> DEFINE seq == Head(s2c).seq
  <1>1. Len(log) \in Nat /\ UNCHANGED log
    BY DEF TypeOK, ServerTypeOK, SlotUserMessageNotify, serverVars
  <1>2. seq \in 1 .. Len(log) /\ s2c' \in Seq(ServerFrames(Len(log)))
    BY <1>1, ReceiveType, FrameFields DEF SlotUserMessageNotify
  <1>3. lastSeq \in 0 .. Len(log)
        /\ pendingLive \cup {seq} \in SUBSET (1 .. Len(log))
    BY <1>2 DEF TypeOK, SyncTypeOK
  <1>4. /\ c2s' \in Seq(RequestFrames(Len(log)))
        /\ storeQ' \in Seq(Tasks(Len(log)))
        /\ state' \in States
        /\ applyingLive' \in BOOLEAN
        /\ pendingLive' \subseteq 1 .. Len(log)
    <2>1. CASE UNCHANGED <<state, applyingLive, pendingLive, c2s, storeQ>>
      BY <2>1 DEF TypeOK, LinkTypeOK, StoreTypeOK, SyncTypeOK, FlagsTypeOK
    <2>2. CASE ApplyNextLiveIfPossible(lastSeq, pendingLive \cup {seq})
      BY <1>3, <2>2, ApplyNextLiveType
    <2>3. CASE /\ pendingLive' = pendingLive \cup {seq}
               /\ UNCHANGED <<state, applyingLive, c2s, storeQ>>
      BY <1>3, <2>3 DEF TypeOK, LinkTypeOK, StoreTypeOK, SyncTypeOK,
                        FlagsTypeOK
    <2>4. \/ seq <= lastSeq
          \/ seq > lastSeq /\ state = "SYNC_IDLE"
          \/ seq > lastSeq /\ state # "SYNC_IDLE"
      BY <1>2, <1>3
    <2> QED
      BY <1>2, <1>3, <2>1, <2>2, <2>3, <2>4 DEF SlotUserMessageNotify
  <1>5. LinkTypeOK' /\ StoreTypeOK'
    BY <1>1, <1>2, <1>4 DEF TypeOK, LinkTypeOK, StoreTypeOK,
                            SlotUserMessageNotify
  <1>6. SyncTypeOK'
    BY <1>1, <1>4 DEF TypeOK, SyncTypeOK, SlotUserMessageNotify
  <1>7. FlagsTypeOK'
    BY <1>4, Zenon DEF TypeOK, FlagsTypeOK, SlotUserMessageNotify, dbVars
  <1> QED
    BY <1>1, <1>5, <1>6, <1>7, KeepParts, FaultsBounded
       DEF TypeOK, SlotUserMessageNotify

LEMMA SlotLoadChatThreadType ==
  ASSUME TypeOK, SlotLoadChatThread
  PROVE  TypeOK'
  <1> DEFINE rsp == Head(s2c)
  <1>1. Len(log) \in Nat /\ UNCHANGED log
    BY DEF TypeOK, ServerTypeOK, SlotLoadChatThread, serverVars
  <1>2. /\ rsp.page \in Pages
        /\ rsp.more => rsp.page < ThreadPages
        /\ s2c' \in Seq(ServerFrames(Len(log)))
    BY <1>1, ReceiveType, FrameFields DEF SlotLoadChatThread
  <1>3. /\ c2s' \in Seq(RequestFrames(Len(log)))
        /\ storeQ' \in Seq(Tasks(Len(log)))
        /\ state' \in States
        /\ conversations' \subseteq Pages
    <2>1. CASE UNCHANGED <<state, conversations, c2s, storeQ>>
      BY <2>1 DEF TypeOK, LinkTypeOK, StoreTypeOK, SyncTypeOK
    <2>2. CASE /\ conversations' = conversations \cup {rsp.page}
               /\ rsp.more
               /\ SendThreadListRequest(rsp.page + 1)
               /\ UNCHANGED <<state, storeQ>>
      <3>1. rsp.page + 1 \in Pages
        BY <1>2, <2>2, BoundsAssumption DEF Pages
      <3> QED
        BY <1>2, <2>2, <3>1, SendThreadListRequestType
           DEF TypeOK, StoreTypeOK, SyncTypeOK
    <2>3. CASE /\ conversations' = conversations \cup {rsp.page}
               /\ state' = "SYNC_WAIT_UPSERT"
               /\ Post([op |-> "upsert", pages |-> conversations'])
               /\ UNCHANGED c2s
      <3>1. conversations' \subseteq Pages
        BY <1>2, <2>3 DEF TypeOK, SyncTypeOK
      <3>2. [op |-> "upsert", pages |-> conversations'] \in Tasks(Len(log))
        BY <3>1 DEF Tasks
      <3> QED
        BY <2>3, <3>1, <3>2, PostType DEF TypeOK, LinkTypeOK, States
    <2> QED
      BY <2>1, <2>2, <2>3, Zenon DEF SlotLoadChatThread
  <1>4. LinkTypeOK' /\ StoreTypeOK'
    BY <1>1, <1>2, <1>3 DEF TypeOK, LinkTypeOK, StoreTypeOK,
                            SlotLoadChatThread
  <1>5. SyncTypeOK'
    BY <1>1, <1>3 DEF TypeOK, SyncTypeOK, SlotLoadChatThread
  <1>6. FlagsTypeOK'
    BY Zenon DEF TypeOK, FlagsTypeOK, SlotLoadChatThread, dbVars
  <1> QED
    BY <1>1, <1>4, <1>5, <1>6, KeepParts, FaultsBounded
       DEF TypeOK, SlotLoadChatThread

LEMMA SlotSyncMessageRspType ==
  ASSUME TypeOK, SlotSyncMessageRsp
  PROVE  TypeOK'
  <1> DEFINE rsp == Head(s2c)
  <1>1. Len(log) \in Nat /\ UNCHANGED log
    BY DEF TypeOK, ServerTypeOK, SlotSyncMessageRsp, serverVars
  <1>2. /\ rsp.events \in Seq(1 .. Len(log))
        /\ rsp.next \in 0 .. Len(log)
        /\ rsp.more \in BOOLEAN
        /\ s2c' \in Seq(ServerFrames(Len(log)))
    BY <1>1, ReceiveType, FrameFields DEF SlotSyncMessageRsp
  <1>3. /\ storeQ' \in Seq(Tasks(Len(log)))
        /\ state' \in States
        /\ applyingLive' \in BOOLEAN
    <2>1. CASE UNCHANGED <<state, applyingLive, storeQ>>
      BY <2>1 DEF TypeOK, StoreTypeOK, SyncTypeOK, FlagsTypeOK
    <2>2. CASE state' = "SYNC_IDLE" /\ UNCHANGED <<applyingLive, storeQ>>
      BY <2>2 DEF TypeOK, StoreTypeOK, States, FlagsTypeOK
    <2>3. CASE ApplyEnvelopePage(rsp.events, rsp.next, lastSeq, FALSE)
      BY <1>2, <2>3, ApplyEnvelopePageType
    <2> QED
      BY <2>1, <2>2, <2>3, Zenon DEF SlotSyncMessageRsp
  <1>4. hasMore' \in BOOLEAN
    BY <1>2, Zenon DEF TypeOK, FlagsTypeOK, SlotSyncMessageRsp
  <1>5. LinkTypeOK' /\ StoreTypeOK'
    BY <1>1, <1>2, <1>3 DEF TypeOK, LinkTypeOK, StoreTypeOK,
                            SlotSyncMessageRsp
  <1>6. SyncTypeOK'
    BY <1>1, <1>3 DEF TypeOK, SyncTypeOK, SlotSyncMessageRsp
  <1>7. FlagsTypeOK'
    BY <1>3, <1>4, Zenon DEF TypeOK, FlagsTypeOK, SlotSyncMessageRsp, dbVars
  <1> QED
    BY <1>1, <1>5, <1>6, <1>7, KeepParts, FaultsBounded
       DEF TypeOK, SlotSyncMessageRsp

-----------------------------------------------------------------------------
(* Slots that take a result from the store.                                *)

LEMMA ResultType ==
  ASSUME TypeOK, NEW op, Result(op)
  PROVE  /\ Head(resultQ) \in Results(Len(log))
         /\ Head(resultQ).op = op
         /\ resultQ' \in Seq(Results(Len(log)))
  BY HeadTail DEF TypeOK, StoreTypeOK, Result

LEMMA SlotSyncStateLoadedType ==
  ASSUME TypeOK, SlotSyncStateLoaded
  PROVE  TypeOK'
  <1> DEFINE res == Head(resultQ)
             call == [op |-> "snapshot", snap |-> snapshot, replace |-> FALSE]
  <1>1. Len(log) \in Nat /\ UNCHANGED log
    BY DEF TypeOK, ServerTypeOK, SlotSyncStateLoaded, serverVars
  <1>2. res.seq \in 0 .. Len(log) /\ resultQ' \in Seq(Results(Len(log)))
    BY <1>1, ResultType, ResultFields DEF SlotSyncStateLoaded
  <1>3. call \in Tasks(Len(log)) /\ 1 \in Pages
    BY BoundsAssumption DEF TypeOK, SyncTypeOK, Tasks, Pages
  <1>4. /\ c2s' \in Seq(RequestFrames(Len(log)))
        /\ storeQ' \in Seq(Tasks(Len(log)))
        /\ state' \in States
        /\ lastSeq' \in 0 .. Len(log)
        /\ conversations' \subseteq Pages
    <2>1. CASE UNCHANGED <<state, lastSeq, conversations, c2s, storeQ>>
      BY <2>1 DEF TypeOK, LinkTypeOK, StoreTypeOK, SyncTypeOK
    <2>2. CASE /\ state' = "SYNC_IDLE"
               /\ UNCHANGED <<lastSeq, conversations, c2s, storeQ>>
      BY <2>2 DEF TypeOK, LinkTypeOK, StoreTypeOK, SyncTypeOK, States
    <2>3. CASE /\ lastSeq' = res.seq
               /\ state' = "SYNC_WAIT_SNAPSHOT"
               /\ Post(call)
               /\ UNCHANGED <<conversations, c2s>>
      BY <1>2, <1>3, <2>3, PostType DEF TypeOK, LinkTypeOK, SyncTypeOK, States
    <2>4. CASE /\ lastSeq' = res.seq
               /\ conversations' = {}
               /\ state' = "SYNC_BOOTSTRAP_THREADS"
               /\ SendThreadListRequest(1)
               /\ UNCHANGED storeQ
      BY <1>2, <1>3, <2>4, SendThreadListRequestType
         DEF TypeOK, StoreTypeOK, States
    <2> QED
      BY <2>1, <2>2, <2>3, <2>4, Zenon DEF SlotSyncStateLoaded
  <1>5. LinkTypeOK' /\ StoreTypeOK'
    BY <1>1, <1>2, <1>4 DEF TypeOK, LinkTypeOK, StoreTypeOK,
                            SlotSyncStateLoaded
  <1>6. SyncTypeOK'
    BY <1>1, <1>4 DEF TypeOK, SyncTypeOK, SlotSyncStateLoaded
  <1>7. FlagsTypeOK'
    BY Zenon DEF TypeOK, FlagsTypeOK, SlotSyncStateLoaded, dbVars
  <1> QED
    BY <1>1, <1>5, <1>6, <1>7, KeepParts, FaultsBounded
       DEF TypeOK, SlotSyncStateLoaded

LEMMA SlotConversationsUpsertedType ==
  ASSUME TypeOK, SlotConversationsUpserted
  PROVE  TypeOK'
  <1> DEFINE call == [op |-> "snapshot", snap |-> snapshot, replace |-> TRUE]
  <1>1. UNCHANGED log
    BY DEF SlotConversationsUpserted, serverVars
  <1>2. resultQ' \in Seq(Results(Len(log)))
    BY ResultType DEF SlotConversationsUpserted
  <1>3. call \in Tasks(Len(log))
    BY DEF TypeOK, SyncTypeOK, Tasks
  <1>4. storeQ' \in Seq(Tasks(Len(log))) /\ state' \in States
    <2>1. CASE UNCHANGED <<state, storeQ>>
      BY <2>1 DEF TypeOK, StoreTypeOK, SyncTypeOK
    <2>2. CASE state' = "SYNC_IDLE" /\ UNCHANGED storeQ
      BY <2>2 DEF TypeOK, StoreTypeOK, States
    <2>3. CASE state' = "SYNC_WAIT_SNAPSHOT" /\ Post(call)
      BY <1>3, <2>3, PostType DEF States
    <2> QED
      BY <2>1, <2>2, <2>3, Zenon DEF SlotConversationsUpserted
  <1>5. LinkTypeOK' /\ StoreTypeOK'
    BY <1>1, <1>2, <1>4 DEF TypeOK, LinkTypeOK, StoreTypeOK,
                            SlotConversationsUpserted
  <1>6. SyncTypeOK'
    BY <1>1, <1>4 DEF TypeOK, SyncTypeOK, SlotConversationsUpserted
  <1>7. FlagsTypeOK'
    BY Zenon DEF TypeOK, FlagsTypeOK, SlotConversationsUpserted, dbVars
  <1> QED
    BY <1>1, <1>5, <1>6, <1>7, KeepParts, FaultsBounded
       DEF TypeOK, SlotConversationsUpserted

LEMMA SlotSnapshotAppliedType ==
  ASSUME TypeOK, SlotSnapshotApplied
  PROVE  TypeOK'
  <1> DEFINE call == [op |-> "mark", seq |-> checkpoint]
  <1>1. UNCHANGED log
    BY DEF SlotSnapshotApplied, serverVars
  <1>2. resultQ' \in Seq(Results(Len(log)))
    BY ResultType DEF SlotSnapshotApplied
  <1>3. call \in Tasks(Len(log)) /\ lastSeq \in 0 .. Len(log)
    BY DEF TypeOK, SyncTypeOK, Tasks
  <1>4. /\ c2s' \in Seq(RequestFrames(Len(log)))
        /\ storeQ' \in Seq(Tasks(Len(log)))
        /\ state' \in States
        /\ applyingLive' \in BOOLEAN
    <2>1. CASE UNCHANGED <<state, applyingLive, c2s, storeQ>>
      BY <2>1 DEF TypeOK, LinkTypeOK, StoreTypeOK, SyncTypeOK, FlagsTypeOK
    <2>2. CASE state' = "SYNC_IDLE" /\ UNCHANGED <<applyingLive, c2s, storeQ>>
      BY <2>2 DEF TypeOK, LinkTypeOK, StoreTypeOK, States, FlagsTypeOK
    <2>3. CASE /\ state' = "SYNC_WAIT_MARK"
               /\ Post(call)
               /\ UNCHANGED <<applyingLive, c2s>>
      BY <1>3, <2>3, PostType DEF TypeOK, LinkTypeOK, States, FlagsTypeOK
    <2>4. CASE SendSyncRequest(lastSeq) /\ UNCHANGED storeQ
      BY <1>3, <2>4, SendSyncRequestType DEF TypeOK, StoreTypeOK
    <2> QED
      BY <2>1, <2>2, <2>3, <2>4, Zenon DEF SlotSnapshotApplied
  <1>5. LinkTypeOK' /\ StoreTypeOK'
    BY <1>1, <1>2, <1>4 DEF TypeOK, LinkTypeOK, StoreTypeOK,
                            SlotSnapshotApplied
  <1>6. SyncTypeOK'
    BY <1>1, <1>4 DEF TypeOK, SyncTypeOK, SlotSnapshotApplied
  <1>7. FlagsTypeOK'
    BY <1>4, Zenon DEF TypeOK, FlagsTypeOK, SlotSnapshotApplied, dbVars
  <1> QED
    BY <1>1, <1>5, <1>6, <1>7, KeepParts, FaultsBounded
       DEF TypeOK, SlotSnapshotApplied

LEMMA SlotBootstrapMarkedType ==
  ASSUME TypeOK, SlotBootstrapMarked
  PROVE  TypeOK'
  <1> DEFINE seq == Head(resultQ).seq
  <1>1. Len(log) \in Nat /\ UNCHANGED log
    BY DEF TypeOK, ServerTypeOK, SlotBootstrapMarked, serverVars
  <1>2. seq \in 0 .. Len(log) /\ resultQ' \in Seq(Results(Len(log)))
    BY <1>1, ResultType, ResultFields DEF SlotBootstrapMarked
  <1>3. /\ c2s' \in Seq(RequestFrames(Len(log)))
        /\ state' \in States
        /\ lastSeq' \in 0 .. Len(log)
        /\ applyingLive' \in BOOLEAN
    <2>1. CASE UNCHANGED <<state, lastSeq, applyingLive, c2s>>
      BY <2>1 DEF TypeOK, LinkTypeOK, SyncTypeOK, FlagsTypeOK
    <2>2. CASE state' = "SYNC_IDLE" /\ UNCHANGED <<lastSeq, applyingLive, c2s>>
      BY <2>2 DEF TypeOK, LinkTypeOK, SyncTypeOK, States, FlagsTypeOK
    <2>3. CASE lastSeq' = seq /\ SendSyncRequest(seq)
      BY <1>2, <2>3, SendSyncRequestType
    <2> QED
      BY <2>1, <2>2, <2>3, Zenon DEF SlotBootstrapMarked
  <1>4. LinkTypeOK' /\ StoreTypeOK'
    BY <1>1, <1>2, <1>3 DEF TypeOK, LinkTypeOK, StoreTypeOK,
                            SlotBootstrapMarked
  <1>5. SyncTypeOK'
    BY <1>1, <1>3 DEF TypeOK, SyncTypeOK, SlotBootstrapMarked
  <1>6. FlagsTypeOK'
    BY <1>3, Zenon DEF TypeOK, FlagsTypeOK, SlotBootstrapMarked, dbVars
  <1> QED
    BY <1>1, <1>4, <1>5, <1>6, KeepParts, FaultsBounded
       DEF TypeOK, SlotBootstrapMarked

LEMMA SlotSyncPageAppliedType ==
  ASSUME TypeOK, SlotSyncPageApplied
  PROVE  TypeOK'
  <1> DEFINE res == Head(resultQ)
  <1>1. Len(log) \in Nat /\ UNCHANGED log
    BY DEF TypeOK, ServerTypeOK, SlotSyncPageApplied, serverVars
  <1>2. res.seq \in 0 .. Len(log) /\ resultQ' \in Seq(Results(Len(log)))
    BY <1>1, ResultType, ResultFields DEF SlotSyncPageApplied
  <1>3. lastSeq' \in 0 .. Len(log)
    BY <1>2 DEF SlotSyncPageApplied, TypeOK, SyncTypeOK
  <1>4. /\ c2s' \in Seq(RequestFrames(Len(log)))
        /\ storeQ' \in Seq(Tasks(Len(log)))
        /\ state' \in States
        /\ applyingLive' \in BOOLEAN
        /\ pendingLive' \subseteq 1 .. Len(log)
    <2>1. CASE UNCHANGED <<state, applyingLive, pendingLive, c2s, storeQ>>
      BY <2>1 DEF TypeOK, LinkTypeOK, StoreTypeOK, SyncTypeOK, FlagsTypeOK
    <2>2. CASE /\ state' = "SYNC_IDLE"
               /\ applyingLive' = FALSE
               /\ UNCHANGED <<pendingLive, c2s, storeQ>>
      BY <2>2 DEF TypeOK, LinkTypeOK, StoreTypeOK, SyncTypeOK, States
    <2>3. CASE SendSyncRequest(res.seq) /\ UNCHANGED <<pendingLive, storeQ>>
      BY <1>2, <2>3, SendSyncRequestType DEF TypeOK, StoreTypeOK, SyncTypeOK
    <2>4. CASE ApplyNextLiveIfPossible(res.seq, pendingLive)
      <3>1. pendingLive \in SUBSET (1 .. Len(log))
        BY DEF TypeOK, SyncTypeOK
      <3> QED
        BY <1>2, <2>4, <3>1, ApplyNextLiveType
    <2> QED
      BY <2>1, <2>2, <2>3, <2>4, Zenon DEF SlotSyncPageApplied
  <1>5. hasMore' \in BOOLEAN /\ pullPending' \in BOOLEAN
    BY Zenon DEF TypeOK, FlagsTypeOK, SlotSyncPageApplied
  <1>6. LinkTypeOK' /\ StoreTypeOK'
    BY <1>1, <1>2, <1>4 DEF TypeOK, LinkTypeOK, StoreTypeOK,
                            SlotSyncPageApplied
  <1>7. SyncTypeOK'
    BY <1>1, <1>3, <1>4 DEF TypeOK, SyncTypeOK, SlotSyncPageApplied
  <1>8. FlagsTypeOK'
    BY <1>4, <1>5, Zenon DEF TypeOK, FlagsTypeOK, SlotSyncPageApplied, dbVars
  <1> QED
    BY <1>1, <1>6, <1>7, <1>8, KeepParts, FaultsBounded
       DEF TypeOK, SlotSyncPageApplied

-----------------------------------------------------------------------------
(* The timer and the connection.                                           *)

LEMMA SlotPeriodicSyncType ==
  ASSUME TypeOK, SlotPeriodicSync
  PROVE  TypeOK'
  <1>1. UNCHANGED log /\ lastSeq \in 0 .. Len(log)
    BY DEF TypeOK, SyncTypeOK, SlotPeriodicSync, serverVars
  <1>2. /\ c2s' \in Seq(RequestFrames(Len(log)))
        /\ state' \in States
        /\ applyingLive' \in BOOLEAN
        /\ pullPending' \in BOOLEAN
    <2>1. CASE SendSyncRequest(lastSeq) /\ UNCHANGED pullPending
      BY <1>1, <2>1, SendSyncRequestType DEF TypeOK, FlagsTypeOK
    <2>2. CASE pullPending' = TRUE /\ UNCHANGED <<state, applyingLive, c2s>>
      BY <2>2 DEF TypeOK, LinkTypeOK, SyncTypeOK, FlagsTypeOK
    <2> QED
      BY <2>1, <2>2, Zenon DEF SlotPeriodicSync
  <1>3. LinkTypeOK'
    BY <1>1, <1>2 DEF TypeOK, LinkTypeOK, SlotPeriodicSync
  <1>4. SyncTypeOK'
    BY <1>1, <1>2 DEF TypeOK, SyncTypeOK, SlotPeriodicSync
  <1>5. FlagsTypeOK'
    BY <1>2, Zenon DEF TypeOK, FlagsTypeOK, SlotPeriodicSync, dbVars
  <1> QED
    BY <1>1, <1>3, <1>4, <1>5, KeepParts, FaultsBounded
       DEF TypeOK, SlotPeriodicSync

LEMMA LinkDownType ==
  ASSUME TypeOK, NEW kind, LinkDown(kind)
  PROVE  /\ UNCHANGED log
         /\ NoSnapshot \in Snapshots(Len(log))
         /\ ServerTypeOK'
         /\ LinkTypeOK'
         /\ faults' \in 0 .. MaxFaults
  <1>1. NoSnapshot \in Snapshots(Len(log))
    BY DEF TypeOK, ServerTypeOK, Snapshots, NoSnapshot
  <1>2. ServerTypeOK'
    BY <1>1 DEF TypeOK, ServerTypeOK, LinkDown
  <1>3. LinkTypeOK'
    BY DEF LinkTypeOK, LinkDown
  <1> QED
    BY <1>1, <1>2, <1>3, FaultsBounded DEF LinkDown

LEMMA SlotConnectionClosedType ==
  ASSUME TypeOK, SlotConnectionClosed
  PROVE  TypeOK'
  <1>1. UNCHANGED log /\ ServerTypeOK' /\ LinkTypeOK'
        /\ faults' \in 0 .. MaxFaults
    BY LinkDownType DEF SlotConnectionClosed
  <1>2. SyncTypeOK'
    BY <1>1 DEF TypeOK, SyncTypeOK, SlotConnectionClosed, States
  <1>3. FlagsTypeOK'
    BY Zenon DEF TypeOK, FlagsTypeOK, SlotConnectionClosed, dbVars
  <1> QED
    BY <1>1, <1>2, <1>3, KeepParts DEF TypeOK, SlotConnectionClosed

LEMMA SlotTcpCloseType ==
  ASSUME TypeOK, SlotTcpClose
  PROVE  TypeOK'
  <1>1. UNCHANGED log /\ ServerTypeOK' /\ LinkTypeOK'
        /\ faults' \in 0 .. MaxFaults
    BY LinkDownType DEF SlotTcpClose
  <1> QED
    BY <1>1, KeepParts, KeepFlags DEF TypeOK, SlotTcpClose, dbVars

LEMMA ClientCrashType ==
  ASSUME TypeOK, ClientCrash
  PROVE  TypeOK'
  <1>1. /\ UNCHANGED log /\ ServerTypeOK' /\ LinkTypeOK'
        /\ NoSnapshot \in Snapshots(Len(log))
        /\ faults' \in 0 .. MaxFaults
    BY LinkDownType DEF ClientCrash
  <1>2. SyncTypeOK'
    BY <1>1 DEF TypeOK, ServerTypeOK, SyncTypeOK, ClientCrash, States
  <1>3. FlagsTypeOK'
    BY Zenon DEF TypeOK, FlagsTypeOK, ClientCrash, dbVars
  <1>4. StoreTypeOK'
    BY DEF StoreTypeOK, ClientCrash
  <1> QED
    BY <1>1, <1>2, <1>3, <1>4, KeepParts DEF TypeOK, ClientCrash

-----------------------------------------------------------------------------
(* Calls of the store.                                                     *)

LEMMA ExecuteType ==
  ASSUME TypeOK, NEW op, NEW ok \in BOOLEAN, Execute(op, ok)
  PROVE  /\ UNCHANGED log
         /\ Head(storeQ) \in Tasks(Len(log))
         /\ Head(storeQ).op = op
         /\ storeQ' \in Seq(Tasks(Len(log)))
         /\ ServerTypeOK' /\ LinkTypeOK' /\ SyncTypeOK'
         /\ faults' \in 0 .. MaxFaults
  <1>1. UNCHANGED log
    BY DEF Execute, serverVars
  <1>2. /\ Head(storeQ) \in Tasks(Len(log))
        /\ storeQ' \in Seq(Tasks(Len(log)))
    BY HeadTail DEF TypeOK, StoreTypeOK, Execute
  <1> QED
    BY <1>1, <1>2, KeepParts, FaultsBounded DEF Execute, Outcome

LEMMA EmitType ==
  ASSUME TypeOK, NEW r \in Results(Len(log)), Emit(r), UNCHANGED log,
         storeQ' \in Seq(Tasks(Len(log)))
  PROVE  StoreTypeOK'
  BY DEF TypeOK, StoreTypeOK, Emit

LEMMA GetSyncStateType ==
  ASSUME TypeOK, NEW ok \in BOOLEAN, GetSyncState(ok)
  PROVE  TypeOK'
  <1> DEFINE res == [op |-> "state", ok |-> ok, seq |-> cursor,
                     boot |-> bootstrapped]
  <1>1. res \in Results(Len(log))
    BY DEF TypeOK, DbTypeOK, FlagsTypeOK, Results
  <1>2. StoreTypeOK'
    BY <1>1, ExecuteType, EmitType DEF GetSyncState
  <1>3. FlagsTypeOK'
    BY KeepFlags DEF GetSyncState, Execute, dbVars
  <1> QED
    BY <1>2, <1>3, ExecuteType, KeepParts DEF TypeOK, GetSyncState

LEMMA UpsertConversationsType ==
  ASSUME TypeOK, NEW ok \in BOOLEAN, UpsertConversations(ok)
  PROVE  TypeOK'
  <1>1. Len(log) \in Nat /\ Head(storeQ).pages \subseteq Pages
    BY ExecuteType, TaskFields DEF TypeOK, ServerTypeOK, UpsertConversations
  <1>2. [op |-> "upsert", ok |-> ok] \in Results(Len(log))
    BY DEF Results
  <1>3. StoreTypeOK'
    BY <1>2, ExecuteType, EmitType DEF UpsertConversations
  <1>4. DbTypeOK'
    BY <1>1, ExecuteType DEF TypeOK, DbTypeOK, UpsertConversations
  <1>5. FlagsTypeOK'
    BY KeepFlags DEF UpsertConversations, Execute
  <1> QED
    BY <1>3, <1>4, <1>5, ExecuteType DEF TypeOK, UpsertConversations

LEMMA ApplySnapshotType ==
  ASSUME TypeOK, NEW ok \in BOOLEAN, ApplySnapshot(ok)
  PROVE  TypeOK'
  <1>1. [op |-> "snapshot", ok |-> ok] \in Results(Len(log))
    BY DEF Results
  <1>2. StoreTypeOK'
    BY <1>1, ExecuteType, EmitType DEF ApplySnapshot
  <1>3. applied' \subseteq 1 .. Len(log)
    BY DEF TypeOK, DbTypeOK, ApplySnapshot, SnapshotEvents
  <1>4. DbTypeOK'
    BY <1>3, ExecuteType DEF TypeOK, DbTypeOK, ApplySnapshot
  <1>5. FlagsTypeOK'
    BY KeepFlags DEF ApplySnapshot, Execute
  <1> QED
    BY <1>2, <1>4, <1>5, ExecuteType DEF TypeOK, ApplySnapshot

LEMMA MarkBootstrapCompleteType ==
  ASSUME TypeOK, NEW ok \in BOOLEAN, MarkBootstrapComplete(ok)
  PROVE  TypeOK'
  <1> DEFINE seq == Head(storeQ).seq
  <1>1. seq \in 0 .. Len(log)
    BY ExecuteType, TaskFields DEF TypeOK, ServerTypeOK, MarkBootstrapComplete
  <1>2. [op |-> "mark", ok |-> ok, seq |-> seq] \in Results(Len(log))
    BY <1>1 DEF Results
  <1>3. StoreTypeOK'
    BY <1>2, ExecuteType, EmitType DEF MarkBootstrapComplete
  <1>4. DbTypeOK'
    BY <1>1, ExecuteType DEF TypeOK, DbTypeOK, MarkBootstrapComplete
  <1>5. FlagsTypeOK'
    BY Zenon DEF TypeOK, FlagsTypeOK, MarkBootstrapComplete, Execute, syncVars
  <1> QED
    BY <1>3, <1>4, <1>5, ExecuteType DEF TypeOK, MarkBootstrapComplete

LEMMA ApplySyncPageType ==
  ASSUME TypeOK, NEW ok \in BOOLEAN, ApplySyncPage(ok)
  PROVE  TypeOK'
  <1> DEFINE call == Head(storeQ)
             done == /\ ok
                     /\ ContinuesFrom(call.events, cursor)
                     /\ call.next = LastOr(call.events, cursor)
  <1>1. call.events \in Seq(1 .. Len(log)) /\ call.next \in 0 .. Len(log)
    BY ExecuteType, TaskFields DEF TypeOK, ServerTypeOK, ApplySyncPage
  <1>2. [op |-> "page", ok |-> done, seq |-> call.next] \in Results(Len(log))
    <2>1. done \in BOOLEAN
      BY Zenon
    <2> HIDE DEF done
    <2> QED
      BY <1>1, <2>1 DEF Results
  <1>3. Emit([op |-> "page", ok |-> done, seq |-> call.next])
    BY Zenon DEF ApplySyncPage
  <1>4. StoreTypeOK'
    BY <1>2, <1>3, ExecuteType, EmitType DEF ApplySyncPage
  <1>5. applied' \subseteq 1 .. Len(log)
    <2> DEFINE page == {call.events[i] : i \in DOMAIN call.events}
    <2>1. page \subseteq 1 .. Len(log)
      BY <1>1
    <2>2. applied' = applied \cup page \/ applied' = applied
      BY Zenon DEF ApplySyncPage
    <2> QED
      BY <2>1, <2>2 DEF TypeOK, DbTypeOK
  <1>6. DbTypeOK'
    BY <1>1, <1>5, ExecuteType DEF TypeOK, DbTypeOK, ApplySyncPage
  <1>7. FlagsTypeOK'
    BY KeepFlags DEF ApplySyncPage, Execute
  <1> QED
    BY <1>4, <1>6, <1>7, ExecuteType DEF TypeOK, ApplySyncPage

-----------------------------------------------------------------------------
LEMMA StutterType ==
  ASSUME TypeOK, UNCHANGED vars
  PROVE  TypeOK'
  BY KeepParts, KeepFlags, FaultsBounded DEF TypeOK, vars, serverVars, dbVars

LEMMA NextType ==
  ASSUME TypeOK, [Next]_vars
  PROVE  TypeOK'
  <1>1. CASE ServerNext
    BY <1>1, CommitEventType, DeliverUserEventType, LoginType,
       DealSyncMessageType, GetUserThreadsType DEF ServerNext
  <1>2. CASE Connect
    BY <1>2, ConnectType
  <1>3. CASE ReceiveNext
    BY <1>3, SlotStartType, SlotUserMessageNotifyType, SlotLoadChatThreadType,
       SlotSyncMessageRspType DEF ReceiveNext
  <1>4. CASE ResultNext
    BY <1>4, SlotSyncStateLoadedType, SlotConversationsUpsertedType,
       SlotSnapshotAppliedType, SlotBootstrapMarkedType,
       SlotSyncPageAppliedType DEF ResultNext
  <1>5. CASE \E ok \in BOOLEAN : StoreNext(ok)
    BY <1>5, GetSyncStateType, UpsertConversationsType, ApplySnapshotType,
       MarkBootstrapCompleteType, ApplySyncPageType DEF StoreNext
  <1>6. CASE \/ SlotPeriodicSync \/ SlotConnectionClosed \/ SlotTcpClose
             \/ ClientCrash
    BY <1>6, SlotPeriodicSyncType, SlotConnectionClosedType, SlotTcpCloseType,
       ClientCrashType
  <1>7. CASE UNCHANGED vars
    BY <1>7, StutterType
  <1> QED
    BY <1>1, <1>2, <1>3, <1>4, <1>5, <1>6, <1>7 DEF Next

(* Every variable of the client, the connection and the server always has  *)
(* its type, and no event number that the client holds, asks for or has    *)
(* under way is beyond the head of the server's log: the SyncCursorInvalid *)
(* answer of DealSyncMessage is never due.                                 *)
THEOREM TypeCorrect == Spec => []TypeOK
  <1>1. TypeOK /\ [Next]_vars => TypeOK'
    BY NextType
  <1> QED
    BY InitTypeOK, <1>1, PTL DEF Spec

-----------------------------------------------------------------------------
(* No message is skipped.                                                  *)

(* What a page that continues the cursor n holds.                          *)
LEMMA PageCovers ==
  ASSUME NEW m \in Nat, NEW n \in 0 .. m, NEW events \in Seq(1 .. m),
         ContinuesFrom(events, n)
  PROVE  /\ LastOr(events, n) = n + Len(events)
         /\ \A i \in n + 1 .. n + Len(events) :
              i \in {events[k] : k \in DOMAIN events}
  <1>1. LastOr(events, n) = n + Len(events)
    BY DEF LastOr, ContinuesFrom
  <1>2. ASSUME NEW i \in n + 1 .. n + Len(events)
        PROVE  i \in {events[k] : k \in DOMAIN events}
    <2>1. i - n \in DOMAIN events /\ events[i - n] = i
      BY DEF ContinuesFrom
    <2> QED
      BY <2>1
  <1> QED
    BY <1>1, <1>2

(* Steps that change neither the log nor the database.                     *)
LEMMA DatabaseUntouched ==
  ASSUME [Next]_vars
  PROVE  \/ UNCHANGED <<log, dbVars>>
         \/ \E kind \in EventKinds : CommitEvent(kind)
         \/ \E ok \in BOOLEAN : \/ UpsertConversations(ok)
                                \/ ApplySnapshot(ok)
                                \/ MarkBootstrapComplete(ok)
                                \/ ApplySyncPage(ok)
  <1>1. CASE ServerNext
    <2>1. \A i : DeliverUserEvent(i) => UNCHANGED <<log, dbVars>>
      BY DEF DeliverUserEvent
    <2>2. LoginReadCheckpoint \/ LoginReadApplyList \/ LoginReadFriendList
            => UNCHANGED <<log, dbVars>>
      BY DEF LoginReadCheckpoint, LoginReadApplyList, LoginReadFriendList
    <2>3. \A ok \in BOOLEAN : DealSyncMessage(ok) \/ GetUserThreadsHandler(ok)
            => UNCHANGED <<log, dbVars>>
      BY DEF DealSyncMessage, GetUserThreadsHandler, serverVars
    <2> QED
      BY <1>1, <2>1, <2>2, <2>3 DEF ServerNext
  <1>2. CASE Connect \/ SlotPeriodicSync
    BY <1>2 DEF Connect, SlotPeriodicSync, serverVars
  <1>3. CASE ReceiveNext
    BY <1>3 DEF ReceiveNext, SlotStart, SlotUserMessageNotify,
       SlotLoadChatThread, SlotSyncMessageRsp, serverVars
  <1>4. CASE ResultNext
    BY <1>4 DEF ResultNext, SlotSyncStateLoaded, SlotConversationsUpserted,
       SlotSnapshotApplied, SlotBootstrapMarked, SlotSyncPageApplied,
       serverVars
  <1>5. CASE \E ok \in BOOLEAN : StoreNext(ok)
    BY <1>5 DEF StoreNext, GetSyncState, Execute, serverVars
  <1>6. CASE SlotConnectionClosed \/ SlotTcpClose \/ ClientCrash
    BY <1>6 DEF SlotConnectionClosed, SlotTcpClose, ClientCrash, LinkDown
  <1>7. CASE UNCHANGED vars
    BY <1>7 DEF vars, serverVars
  <1> QED
    BY <1>1, <1>2, <1>3, <1>4, <1>5, <1>6, <1>7 DEF Next

LEMMA NextNoSkippedMessage ==
  ASSUME TypeOK, NoSkippedMessage, [Next]_vars
  PROVE  NoSkippedMessage'
  <1> USE DEF NoSkippedMessage
  <1>1. log \in Seq(EventKinds) /\ cursor \in 0 .. Len(log)
        /\ base \in 0 .. Len(log)
    BY DEF TypeOK, ServerTypeOK, DbTypeOK
  <1>2. CASE UNCHANGED <<log, dbVars>>
    BY <1>2 DEF dbVars
  <1>3. ASSUME NEW kind \in EventKinds, CommitEvent(kind)
        PROVE  NoSkippedMessage'
    BY <1>1, <1>3 DEF CommitEvent, dbVars
  <1>4. ASSUME NEW ok \in BOOLEAN, UpsertConversations(ok)
        PROVE  NoSkippedMessage'
    BY <1>4 DEF UpsertConversations, Execute, serverVars
  <1>5. ASSUME NEW ok \in BOOLEAN, ApplySnapshot(ok)
        PROVE  NoSkippedMessage'
    <2>1. UNCHANGED <<log, cursor, base>>
      BY <1>5 DEF ApplySnapshot, Execute, serverVars
    <2>2. applied \ FriendEvents \subseteq applied'
      BY <1>5 DEF ApplySnapshot
    <2> QED
      BY <1>1, <2>1, <2>2 DEF FriendEvents
  <1>6. ASSUME NEW ok \in BOOLEAN, MarkBootstrapComplete(ok)
        PROVE  NoSkippedMessage'
    <2>1. UNCHANGED <<log, applied>>
      BY <1>6 DEF MarkBootstrapComplete, Execute, serverVars
    <2>2. UNCHANGED <<cursor, base>> \/ base' = cursor'
      BY <1>6 DEF MarkBootstrapComplete
    <2>3. cursor' \in 0 .. Len(log)
      BY <1>6, <2>1, MarkBootstrapCompleteType DEF TypeOK, DbTypeOK
    <2> QED
      BY <1>1, <2>1, <2>2, <2>3
  <1>7. ASSUME NEW ok \in BOOLEAN, ApplySyncPage(ok)
        PROVE  NoSkippedMessage'
    <2> DEFINE call == Head(storeQ)
               page == {call.events[i] : i \in DOMAIN call.events}
    <2>1. UNCHANGED <<log, base>>
      BY <1>7 DEF ApplySyncPage, Execute, serverVars
    <2>2. Len(log) \in Nat /\ call.events \in Seq(1 .. Len(log))
      BY <1>1, <1>7, ExecuteType, TaskFields DEF ApplySyncPage
    <2>3. CASE UNCHANGED <<cursor, applied>>
      BY <2>1, <2>3
    <2>4. CASE /\ ContinuesFrom(call.events, cursor)
               /\ cursor' = LastOr(call.events, cursor)
               /\ applied' = applied \cup page
      <3>1. cursor' = cursor + Len(call.events)
        BY <1>1, <2>2, <2>4, PageCovers
      <3>2. \A i \in cursor + 1 .. cursor' : i \in page
        BY <1>1, <2>2, <2>4, <3>1, PageCovers
      <3> QED
        BY <1>1, <2>1, <2>2, <2>4, <3>1, <3>2
    <2> QED
      BY <1>7, <2>3, <2>4, Zenon DEF ApplySyncPage
  <1> QED
    BY <1>2, <1>3, <1>4, <1>5, <1>6, <1>7, DatabaseUntouched

(* The stored cursor is the largest contiguous event applied: for every    *)
(* log, page size and sequence of losses, failures, cuts and crashes, each *)
(* message between the bootstrap checkpoint and the cursor is in the local *)
(* tables.                                                                 *)
THEOREM MessagesContiguous == Spec => []NoSkippedMessage
  <1>1. Init => NoSkippedMessage
    BY DEF Init, NoSkippedMessage
  <1>2. TypeOK /\ NoSkippedMessage /\ [Next]_vars => NoSkippedMessage'
    BY NextNoSkippedMessage
  <1> QED
    BY <1>1, <1>2, TypeCorrect, PTL DEF Spec

=============================================================================
