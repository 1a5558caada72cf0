------------------------------ MODULE ChatSync ------------------------------
(***************************************************************************)
(* Ordered delivery of user events to one client.                          *)
(*                                                                         *)
(* The server keeps one gapless event log per recipient (user_events,      *)
(* numbered by users.last_event_seq).  A client holds a durable projection *)
(* of that log in SQLite together with the cursor of the last event it has *)
(* applied (sync_state.last_event_seq).  It is fed by unreliable live      *)
(* notifications (1701) and by pages it pulls (1405/1406), and a new       *)
(* database starts from the snapshot and checkpoint of the login response. *)
(*                                                                         *)
(* Four things run concurrently: the server (commits, login handler,       *)
(* request handlers), the connection (a FIFO in each direction that may be *)
(* cut at any time), ChatSyncManager on the client's TCP thread, and the   *)
(* LocalChatWorker on the client's store thread.  The two client threads   *)
(* talk through two FIFOs: store calls one way, result signals the other.  *)
(***************************************************************************)
EXTENDS Naturals, Sequences

CONSTANTS
  EventKinds,    \* kinds of events the run commits, a subset of AllKinds
  MaxEvents,     \* bound: events ever committed for the recipient
  PageLimit,     \* "limit" of a sync request (100 in the client)
  FrameEvents,   \* event envelopes that fit in one frame (kMaxSendPayload)
  ThreadPages,   \* pages of the conversation list of the recipient
  MaxNotify,     \* bound: 1701 frames one event may cause (gRPC retries)
  MaxFaults,     \* bound: faults (below) in a behaviour
  LinkFaults,    \* ways the connection ends: a subset of AllLinkFaults
  StoreFaults,   \* store operations that may fail with a SQL error
  ServerFaults   \* requests the server may answer with an error

AllKinds == {"message", "apply", "accept", "reject"}
Ops == {"state", "upsert", "snapshot", "mark", "page"}
Requests == {"sync", "threads"}
AllLinkFaults == {"cut", "close", "crash"}

ASSUME BoundsAssumption ==
  /\ MaxEvents \in Nat
  /\ PageLimit \in Nat \ {0}
  /\ FrameEvents \in Nat
  /\ ThreadPages \in Nat \ {0}
  /\ MaxNotify \in Nat
  /\ MaxFaults \in Nat

ASSUME KindsAssumption == EventKinds \subseteq AllKinds

ASSUME FaultsAssumption ==
  /\ LinkFaults \subseteq AllLinkFaults
  /\ StoreFaults \subseteq Ops
  /\ ServerFaults \subseteq Requests

VARIABLES
  \* server
  log,           \* user_events of the recipient: kind of event 1, 2, ...
  notifyLeft,    \* notifyLeft[i]: 1701 frames event i may still cause
  loginStep,     \* progress of the session's LoginHandler
  reply,         \* the login response under construction
  \* connection
  c2s,           \* requests on their way to the server
  s2c,           \* frames on their way to the client
  \* ChatSyncManager (TCP thread)
  state, lastSeq, checkpoint, snapshot, hasMore, pullPending,
  applyingLive, markAfterSnapshot, pendingLive, conversations, timerOn,
  \* store thread
  storeQ,        \* calls posted to the LocalChatWorker
  resultQ,       \* its result signals on their way to the TCP thread
  \* SQLite (survives a crash of the client)
  cursor,        \* sync_state.last_event_seq
  bootstrapped,  \* sync_state.bootstrap_complete
  threads,       \* pages of the conversation list stored
  applied,       \* events whose effect the local tables hold
  base,          \* checkpoint of the bootstrap, 0 before (history variable)
  \* environment
  faults         \* faults so far

serverVars == <<log, notifyLeft, loginStep, reply>>
syncVars == <<state, lastSeq, checkpoint, snapshot, hasMore, pullPending,
              applyingLive, markAfterSnapshot, pendingLive, conversations,
              timerOn>>
dbVars == <<cursor, bootstrapped, threads, applied, base>>
vars == <<serverVars, c2s, s2c, syncVars, storeQ, resultQ, dbVars, faults>>

States == {"SYNC_IDLE", "SYNC_WAIT_STATE", "SYNC_BOOTSTRAP_THREADS",
           "SYNC_WAIT_UPSERT", "SYNC_WAIT_SNAPSHOT", "SYNC_WAIT_MARK",
           "SYNC_WAIT_PAGE"}

-----------------------------------------------------------------------------
(* The friend state a login response carries.  "applies" and "friends" are *)
(* how far the log had grown when the apply list and the friend list were  *)
(* read: the lists hold the effect of every such event up to there.        *)

NoSnapshot == [checkpoint |-> 0, applies |-> 0, friends |-> 0]

SnapshotEvents(snap) ==
  {i \in 1 .. Len(log) : \/ log[i] = "apply" /\ i <= snap.applies
                         \/ log[i] = "accept" /\ i <= snap.friends}

FriendEvents == {i \in 1 .. Len(log) : log[i] # "message"}

\* The events after number n in a page of at most PageLimit.
Rows(n) ==
  LET size == IF Len(log) - n > PageLimit THEN PageLimit ELSE Len(log) - n
  IN  [i \in 1 .. size |-> n + i]

\* events are numbered n + 1, n + 2, ...
ContinuesFrom(events, n) == \A i \in DOMAIN events : events[i] = n + i

LastOr(events, n) == IF events = <<>> THEN n ELSE events[Len(events)]

-----------------------------------------------------------------------------
Init ==
  /\ log = <<>>
  /\ notifyLeft = [i \in 1 .. MaxEvents |-> 0]
  /\ loginStep = "down"
  /\ reply = NoSnapshot
  /\ c2s = <<>>
  /\ s2c = <<>>
  /\ state = "SYNC_IDLE"
  /\ lastSeq = 0
  /\ checkpoint = 0
  /\ snapshot = NoSnapshot
  /\ hasMore = FALSE
  /\ pullPending = FALSE
  /\ applyingLive = FALSE
  /\ markAfterSnapshot = FALSE
  /\ pendingLive = {}
  /\ conversations = {}
  /\ timerOn = FALSE
  /\ storeQ = <<>>
  /\ resultQ = <<>>
  /\ cursor = 0
  /\ bootstrapped = FALSE
  /\ threads = {}
  /\ applied = {}
  /\ base = 0
  /\ faults = 0

Fault == faults < MaxFaults /\ faults' = faults + 1

\* A call that succeeds, or fails within the bound when it is one that may.
Outcome(ok, op, failing) ==
  IF ok THEN UNCHANGED faults ELSE op \in failing /\ Fault

-----------------------------------------------------------------------------
(* The server.                                                             *)

(* A business transaction commits: the row, the next event_seq of the      *)
(* recipient and the user_events row in one transaction.                   *)
CommitEvent(kind) ==
  /\ Len(log) < MaxEvents
  /\ log' = Append(log, kind)
  /\ notifyLeft' = [notifyLeft EXCEPT ![Len(log) + 1] = MaxNotify]
  /\ UNCHANGED <<loginStep, reply, c2s, s2c, syncVars, storeQ, resultQ,
                 dbVars, faults>>

(* DeliverUserEvent, directly or through NotifyUserMessage of another      *)
(* server, sends the event to the session the user has by then.  Events    *)
(* come from different senders and servers, so there is no order between   *)
(* notifications, and nothing obliges one to be sent at all.               *)
DeliverUserEvent(i) ==
  /\ loginStep = "up"
  /\ notifyLeft[i] > 0
  /\ notifyLeft' = [notifyLeft EXCEPT ![i] = @ - 1]
  /\ s2c' = Append(s2c, [type |-> "notify", seq |-> i])
  /\ UNCHANGED <<log, loginStep, reply, c2s, syncVars, storeQ, resultQ,
                 dbVars, faults>>

(* The client connects and sends its login request.                        *)
Connect ==
  /\ loginStep = "down"
  /\ loginStep' = "login"
  /\ UNCHANGED <<log, notifyLeft, reply, c2s, s2c, syncVars, storeQ, resultQ,
                 dbVars, faults>>

(* LoginHandler reads the checkpoint, then the apply list, then the friend *)
(* list, each with a query of its own; transactions commit in between.     *)
LoginReadCheckpoint ==
  /\ loginStep = "login"
  /\ loginStep' = "checkpoint"
  /\ reply' = [checkpoint |-> Len(log), applies |-> 0, friends |-> 0]
  /\ UNCHANGED <<log, notifyLeft, c2s, s2c, syncVars, storeQ, resultQ,
                 dbVars, faults>>

LoginReadApplyList ==
  /\ loginStep = "checkpoint"
  /\ loginStep' = "applies"
  /\ reply' = [checkpoint |-> reply.checkpoint, applies |-> Len(log),
               friends |-> 0]
  /\ UNCHANGED <<log, notifyLeft, c2s, s2c, syncVars, storeQ, resultQ,
                 dbVars, faults>>

LoginResponse(head, applies, friends) ==
  [type |-> "login", snap |-> [checkpoint |-> head, applies |-> applies,
                               friends |-> friends]]

\* Mutant: the checkpoint is read last, after the two lists.
LoginReadsCheckpointLast ==
  /\ loginStep = "applies"
  /\ loginStep' = "up"
  /\ s2c' = Append(s2c, LoginResponse(Len(log), reply.applies, Len(log)))
  /\ reply' = NoSnapshot
  /\ UNCHANGED <<log, notifyLeft, c2s, syncVars, storeQ, resultQ,
                 dbVars, faults>>

(* The handler binds the session and sends the response before any         *)
(* notification of the same uid shard can run.                             *)
LoginReadFriendList ==
  /\ loginStep = "applies"
  /\ loginStep' = "up"
  /\ s2c' = Append(s2c, LoginResponse(reply.checkpoint, reply.applies,
                                      Len(log)))
  /\ reply' = NoSnapshot
  /\ UNCHANGED <<log, notifyLeft, c2s, syncVars, storeQ, resultQ,
                 dbVars, faults>>

SyncError == [type |-> "sync", ok |-> FALSE, events |-> <<>>,
              next |-> 0, more |-> FALSE]

SyncPage(after) == [type |-> "sync", ok |-> TRUE, events |-> Rows(after),
                    next |-> LastOr(Rows(after), after),
                    more |-> Len(log) - after > PageLimit]

(* The head and the rows are two queries.  A cursor the first accepts is   *)
(* within the log the second reads, so one atomic step is exact.  Send     *)
(* drops a response that does not fit in a frame.                          *)
DealSyncMessage(ok) ==
  /\ loginStep = "up"
  /\ c2s # <<>>
  /\ Head(c2s).type = "sync"
  /\ Outcome(ok, "sync", ServerFaults)
  /\ LET after == Head(c2s).after
     IN  s2c' = IF ~ok \/ after > Len(log) THEN Append(s2c, SyncError)
                ELSE IF Len(Rows(after)) > FrameEvents THEN s2c
                ELSE Append(s2c, SyncPage(after))
  /\ c2s' = Tail(c2s)
  /\ UNCHANGED <<serverVars, syncVars, storeQ, resultQ, dbVars>>

GetUserThreadsHandler(ok) ==
  /\ loginStep = "up"
  /\ c2s # <<>>
  /\ Head(c2s).type = "threads"
  /\ Outcome(ok, "threads", ServerFaults)
  /\ s2c' = Append(s2c, [type |-> "threads", ok |-> ok,
                         page |-> Head(c2s).page,
                         more |-> Head(c2s).page < ThreadPages])
  /\ c2s' = Tail(c2s)
  /\ UNCHANGED <<serverVars, syncVars, storeQ, resultQ, dbVars>>

-----------------------------------------------------------------------------
(* ChatSyncManager: what its slots share.                                  *)

\* TcpMgr queues a frame on the connection; without one the write fails.
Transmit(request) ==
  c2s' = IF loginStep = "down" THEN c2s ELSE Append(c2s, request)

SendSyncRequest(seq) ==
  /\ state' = "SYNC_WAIT_PAGE"
  /\ applyingLive' = FALSE
  /\ Transmit([type |-> "sync", after |-> seq])

SendThreadListRequest(page) == Transmit([type |-> "threads", page |-> page])

Post(task) == storeQ' = Append(storeQ, task)

\* The page goes to the store if it continues the cursor seq in memory.
ApplyEnvelopePage(events, next, seq, live) ==
  IF ContinuesFrom(events, seq)
    THEN /\ Post([op |-> "page", events |-> events, next |-> next])
         /\ state' = "SYNC_WAIT_PAGE"
         /\ applyingLive' = live
    ELSE /\ state' = "SYNC_IDLE"
         /\ applyingLive' = FALSE
         /\ UNCHANGED storeQ

(* With cursor seq and notifications pending: apply the next event, or     *)
(* pull the gap before the ones that are there, or rest.                   *)
ApplyNextLiveIfPossible(seq, pending) ==
  LET live == {i \in pending : i > seq}
  IN  \/ /\ seq + 1 \in live
         /\ pendingLive' = live \ {seq + 1}
         /\ ApplyEnvelopePage(<<seq + 1>>, seq + 1, seq, TRUE)
         /\ UNCHANGED c2s
      \/ /\ seq + 1 \notin live
         /\ live # {}
         /\ pendingLive' = live
         /\ SendSyncRequest(seq)
         /\ UNCHANGED storeQ
      \/ /\ live = {}
         /\ pendingLive' = live
         /\ state' = "SYNC_IDLE"
         /\ applyingLive' = FALSE
         /\ UNCHANGED <<c2s, storeQ>>

-----------------------------------------------------------------------------
(* ChatSyncManager: frames from the server.                                *)

Receive(type) ==
  /\ s2c # <<>>
  /\ Head(s2c).type = type
  /\ s2c' = Tail(s2c)

(* handleChatLoginRsp emits sig_login_snapshot, then sig_chat_login_ready. *)
SlotStart ==
  /\ Receive("login")
  /\ checkpoint' = Head(s2c).snap.checkpoint
  /\ snapshot' = Head(s2c).snap
  /\ state' = "SYNC_WAIT_STATE"
  /\ hasMore' = FALSE
  /\ pullPending' = FALSE
  /\ applyingLive' = FALSE
  /\ pendingLive' = {}
  /\ timerOn' = TRUE
  /\ Post([op |-> "state"])
  /\ UNCHANGED <<lastSeq, markAfterSnapshot, conversations, serverVars, c2s,
                 resultQ, dbVars, faults>>

SlotUserMessageNotify ==
  /\ Receive("notify")
  /\ LET seq == Head(s2c).seq
     IN  CASE seq <= lastSeq ->
                UNCHANGED <<state, applyingLive, pendingLive, c2s, storeQ>>
           [] seq > lastSeq /\ state = "SYNC_IDLE" ->
                ApplyNextLiveIfPossible(lastSeq, pendingLive \cup {seq})
           [] seq > lastSeq /\ state # "SYNC_IDLE" ->
                /\ pendingLive' = pendingLive \cup {seq}
                /\ UNCHANGED <<state, applyingLive, c2s, storeQ>>
  /\ UNCHANGED <<lastSeq, checkpoint, snapshot, hasMore, pullPending,
                 markAfterSnapshot, conversations, timerOn, serverVars,
                 resultQ, dbVars, faults>>

SlotLoadChatThread ==
  /\ Receive("threads")
  /\ LET rsp == Head(s2c)
     IN  IF ~rsp.ok \/ state # "SYNC_BOOTSTRAP_THREADS"
           THEN UNCHANGED <<state, conversations, c2s, storeQ>>
           ELSE /\ conversations' = conversations \cup {rsp.page}
                /\ IF rsp.more
                     THEN /\ SendThreadListRequest(rsp.page + 1)
                          /\ UNCHANGED <<state, storeQ>>
                     ELSE /\ state' = "SYNC_WAIT_UPSERT"
                          /\ Post([op |-> "upsert",
                                   pages |-> conversations'])
                          /\ UNCHANGED c2s
  /\ UNCHANGED <<lastSeq, checkpoint, snapshot, hasMore, pullPending,
                 applyingLive, markAfterSnapshot, pendingLive, timerOn,
                 serverVars, resultQ, dbVars, faults>>

\* Mutant: an error response leaves the manager waiting for its page.
SlotSyncMessageRspStuck ==
  /\ Receive("sync")
  /\ LET rsp == Head(s2c)
     IN  IF state # "SYNC_WAIT_PAGE" \/ applyingLive \/ ~rsp.ok
           THEN UNCHANGED <<state, applyingLive, hasMore, storeQ>>
           ELSE /\ hasMore' = rsp.more
                /\ ApplyEnvelopePage(rsp.events, rsp.next, lastSeq, FALSE)
  /\ UNCHANGED <<lastSeq, checkpoint, snapshot, pullPending,
                 markAfterSnapshot, pendingLive, conversations, timerOn,
                 serverVars, c2s, resultQ, dbVars, faults>>

SlotSyncMessageRsp ==
  /\ Receive("sync")
  /\ LET rsp == Head(s2c)
     IN  IF state # "SYNC_WAIT_PAGE" \/ applyingLive
           THEN UNCHANGED <<state, applyingLive, hasMore, storeQ>>
           ELSE IF ~rsp.ok
           THEN /\ state' = "SYNC_IDLE"
                /\ UNCHANGED <<applyingLive, hasMore, storeQ>>
           ELSE /\ hasMore' = rsp.more
                /\ IF \/ rsp.next # LastOr(rsp.events, lastSeq)
                      \/ rsp.more /\ rsp.events = <<>>
                     THEN /\ state' = "SYNC_IDLE"
                          /\ UNCHANGED <<applyingLive, storeQ>>
                     ELSE ApplyEnvelopePage(rsp.events, rsp.next, lastSeq,
                                            FALSE)
  /\ UNCHANGED <<lastSeq, checkpoint, snapshot, pullPending,
                 markAfterSnapshot, pendingLive, conversations, timerOn,
                 serverVars, c2s, resultQ, dbVars, faults>>

-----------------------------------------------------------------------------
(* ChatSyncManager: results of store calls.  A result that comes in another *)
(* state than the one that waits for it is dropped.                        *)

Result(op) ==
  /\ resultQ # <<>>
  /\ Head(resultQ).op = op
  /\ resultQ' = Tail(resultQ)

SlotSyncStateLoaded ==
  /\ Result("state")
  /\ LET res == Head(resultQ)
     IN  IF state # "SYNC_WAIT_STATE"
           THEN UNCHANGED <<state, lastSeq, markAfterSnapshot, conversations,
                            c2s, storeQ>>
           ELSE IF ~res.ok
           THEN /\ state' = "SYNC_IDLE"
                /\ UNCHANGED <<lastSeq, markAfterSnapshot, conversations,
                               c2s, storeQ>>
           ELSE /\ lastSeq' = res.seq
                /\ IF res.boot
                     THEN /\ markAfterSnapshot' = FALSE
                          /\ state' = "SYNC_WAIT_SNAPSHOT"
                          /\ Post([op |-> "snapshot", snap |-> snapshot,
                                   replace |-> FALSE])
                          /\ UNCHANGED <<conversations, c2s>>
                     ELSE /\ conversations' = {}
                          /\ state' = "SYNC_BOOTSTRAP_THREADS"
                          /\ SendThreadListRequest(1)
                          /\ UNCHANGED <<markAfterSnapshot, storeQ>>
  /\ UNCHANGED <<checkpoint, snapshot, hasMore, pullPending, applyingLive,
                 pendingLive, timerOn, serverVars, s2c, dbVars, faults>>

SlotConversationsUpserted ==
  /\ Result("upsert")
  /\ IF state # "SYNC_WAIT_UPSERT"
       THEN UNCHANGED <<state, markAfterSnapshot, storeQ>>
       ELSE IF ~Head(resultQ).ok
       THEN /\ state' = "SYNC_IDLE"
            /\ UNCHANGED <<markAfterSnapshot, storeQ>>
       ELSE /\ markAfterSnapshot' = TRUE
            /\ state' = "SYNC_WAIT_SNAPSHOT"
            /\ Post([op |-> "snapshot", snap |-> snapshot, replace |-> TRUE])
  /\ UNCHANGED <<lastSeq, checkpoint, snapshot, hasMore, pullPending,
                 applyingLive, pendingLive, conversations, timerOn,
                 serverVars, c2s, s2c, dbVars, faults>>

SlotSnapshotApplied ==
  /\ Result("snapshot")
  /\ IF state # "SYNC_WAIT_SNAPSHOT"
       THEN UNCHANGED <<state, applyingLive, c2s, storeQ>>
       ELSE IF ~Head(resultQ).ok
       THEN /\ state' = "SYNC_IDLE"
            /\ UNCHANGED <<applyingLive, c2s, storeQ>>
       ELSE IF markAfterSnapshot
       THEN /\ state' = "SYNC_WAIT_MARK"
            /\ Post([op |-> "mark", seq |-> checkpoint])
            /\ UNCHANGED <<applyingLive, c2s>>
       ELSE /\ SendSyncRequest(lastSeq)
            /\ UNCHANGED storeQ
  /\ UNCHANGED <<lastSeq, checkpoint, snapshot, hasMore, pullPending,
                 markAfterSnapshot, pendingLive, conversations, timerOn,
                 serverVars, s2c, dbVars, faults>>

SlotBootstrapMarked ==
  /\ Result("mark")
  /\ IF state # "SYNC_WAIT_MARK"
       THEN UNCHANGED <<state, lastSeq, applyingLive, c2s>>
       ELSE IF ~Head(resultQ).ok
       THEN /\ state' = "SYNC_IDLE"
            /\ UNCHANGED <<lastSeq, applyingLive, c2s>>
       ELSE /\ lastSeq' = Head(resultQ).seq
            /\ SendSyncRequest(Head(resultQ).seq)
  /\ UNCHANGED <<checkpoint, snapshot, hasMore, pullPending,
                 markAfterSnapshot, pendingLive, conversations, timerOn,
                 serverVars, s2c, storeQ, dbVars, faults>>

(* After a page: the next page, or the pending notifications, or the pull  *)
(* that the timer asked for meanwhile, or rest.                            *)
SlotSyncPageApplied ==
  /\ Result("page")
  /\ LET res == Head(resultQ)
     IN  IF state # "SYNC_WAIT_PAGE"
           THEN UNCHANGED <<state, lastSeq, hasMore, pullPending,
                            applyingLive, pendingLive, c2s, storeQ>>
           ELSE IF ~res.ok
           THEN /\ state' = "SYNC_IDLE"
                /\ applyingLive' = FALSE
                /\ UNCHANGED <<lastSeq, hasMore, pullPending, pendingLive,
                               c2s, storeQ>>
           ELSE /\ lastSeq' = res.seq
                /\ IF ~applyingLive /\ hasMore
                     THEN /\ hasMore' = FALSE
                          /\ SendSyncRequest(res.seq)
                          /\ UNCHANGED <<pullPending, pendingLive, storeQ>>
                     ELSE IF pendingLive # {}
                     THEN /\ ApplyNextLiveIfPossible(res.seq, pendingLive)
                          /\ UNCHANGED <<hasMore, pullPending>>
                     ELSE IF pullPending
                     THEN /\ pullPending' = FALSE
                          /\ SendSyncRequest(res.seq)
                          /\ UNCHANGED <<hasMore, pendingLive, storeQ>>
                     ELSE /\ state' = "SYNC_IDLE"
                          /\ applyingLive' = FALSE
                          /\ UNCHANGED <<hasMore, pullPending, pendingLive,
                                         c2s, storeQ>>
  /\ UNCHANGED <<checkpoint, snapshot, markAfterSnapshot, conversations,
                 timerOn, serverVars, s2c, dbVars, faults>>

-----------------------------------------------------------------------------
(* ChatSyncManager: the timer and the connection.                          *)

SlotPeriodicSync ==
  /\ timerOn
  /\ IF state = "SYNC_IDLE"
       THEN SendSyncRequest(lastSeq) /\ UNCHANGED pullPending
       ELSE pullPending' = TRUE /\ UNCHANGED <<state, applyingLive, c2s>>
  /\ UNCHANGED <<lastSeq, checkpoint, snapshot, hasMore, markAfterSnapshot,
                 pendingLive, conversations, timerOn, serverVars, s2c,
                 storeQ, resultQ, dbVars, faults>>

LinkDown(kind) ==
  /\ kind \in LinkFaults
  /\ Fault
  /\ loginStep' = "down"
  /\ reply' = NoSnapshot
  /\ c2s' = <<>>
  /\ s2c' = <<>>
  /\ UNCHANGED <<log, notifyLeft>>

(* The connection breaks, in the login phase or later.                     *)
SlotConnectionClosed ==
  /\ loginStep # "down"
  /\ LinkDown("cut")
  /\ state' = "SYNC_IDLE"
  /\ pendingLive' = {}
  /\ timerOn' = FALSE
  /\ UNCHANGED <<lastSeq, checkpoint, snapshot, hasMore, pullPending,
                 applyingLive, markAfterSnapshot, conversations, storeQ,
                 resultQ, dbVars>>

(* The client closes the connection itself (it was kicked, or its user     *)
(* logs in anew): no signal tells ChatSyncManager.                         *)
SlotTcpClose ==
  /\ loginStep # "down"
  /\ LinkDown("close")
  /\ UNCHANGED <<syncVars, storeQ, resultQ, dbVars>>

(* The client process dies and is started again.                           *)
ClientCrash ==
  /\ LinkDown("crash")
  /\ state' = "SYNC_IDLE"
  /\ lastSeq' = 0
  /\ checkpoint' = 0
  /\ snapshot' = NoSnapshot
  /\ hasMore' = FALSE
  /\ pullPending' = FALSE
  /\ applyingLive' = FALSE
  /\ markAfterSnapshot' = FALSE
  /\ pendingLive' = {}
  /\ conversations' = {}
  /\ timerOn' = FALSE
  /\ storeQ' = <<>>
  /\ resultQ' = <<>>
  /\ UNCHANGED dbVars

-----------------------------------------------------------------------------
(* LocalChatWorker on the store thread: it takes the oldest call, runs it  *)
(* against SQLite and emits the result.  A call that fails changes nothing *)
(* (it is one statement or one transaction), except that the conversations *)
(* are upserted row by row.                                                *)

Execute(op, ok) ==
  /\ storeQ # <<>>
  /\ Head(storeQ).op = op
  /\ storeQ' = Tail(storeQ)
  /\ Outcome(ok, op, StoreFaults)
  /\ UNCHANGED <<serverVars, c2s, s2c, syncVars>>

Emit(result) == resultQ' = Append(resultQ, result)

GetSyncState(ok) ==
  /\ Execute("state", ok)
  /\ Emit([op |-> "state", ok |-> ok, seq |-> cursor, boot |-> bootstrapped])
  /\ UNCHANGED dbVars

UpsertConversations(ok) ==
  /\ Execute("upsert", ok)
  /\ \E stored \in SUBSET Head(storeQ).pages :
       /\ ok => stored = Head(storeQ).pages
       /\ threads' = threads \cup stored
  /\ Emit([op |-> "upsert", ok |-> ok])
  /\ UNCHANGED <<cursor, bootstrapped, applied, base>>

(* A first login replaces the friend tables, a later one merges into them. *)
ApplySnapshot(ok) ==
  /\ Execute("snapshot", ok)
  /\ LET call == Head(storeQ)
         kept == IF call.replace THEN applied \ FriendEvents ELSE applied
     IN  applied' = IF ok THEN kept \cup SnapshotEvents(call.snap) ELSE applied
  /\ Emit([op |-> "snapshot", ok |-> ok])
  /\ UNCHANGED <<cursor, bootstrapped, threads, base>>

MarkBootstrapComplete(ok) ==
  /\ Execute("mark", ok)
  /\ LET seq == Head(storeQ).seq
     IN  /\ cursor' = IF ok THEN seq ELSE cursor
         /\ base' = IF ok THEN seq ELSE base
         /\ Emit([op |-> "mark", ok |-> ok, seq |-> seq])
  /\ bootstrapped' = (bootstrapped \/ ok)
  /\ UNCHANGED <<threads, applied>>

\* Mutant: the cursor is written outside the transaction of the events.
ApplySyncPageSplit(ok) ==
  /\ Execute("page", ok)
  /\ LET call == Head(storeQ)
         fits == /\ ContinuesFrom(call.events, cursor)
                 /\ call.next = LastOr(call.events, cursor)
     IN  /\ cursor' = IF fits THEN call.next ELSE cursor
         /\ applied' = IF fits /\ ok
                         THEN applied \cup {call.events[i] :
                                              i \in DOMAIN call.events}
                         ELSE applied
         /\ Emit([op |-> "page", ok |-> fits /\ ok, seq |-> call.next])
  /\ UNCHANGED <<bootstrapped, threads, base>>

(* The page must continue the stored cursor; the events and the cursor are *)
(* then written in one transaction.                                        *)
ApplySyncPage(ok) ==
  /\ Execute("page", ok)
  /\ LET call == Head(storeQ)
         done == /\ ok
                 /\ ContinuesFrom(call.events, cursor)
                 /\ call.next = LastOr(call.events, cursor)
     IN  /\ cursor' = IF done THEN call.next ELSE cursor
         /\ applied' = IF done
                         THEN applied \cup {call.events[i] :
                                              i \in DOMAIN call.events}
                         ELSE applied
         /\ Emit([op |-> "page", ok |-> done, seq |-> call.next])
  /\ UNCHANGED <<bootstrapped, threads, base>>

-----------------------------------------------------------------------------
ServerNext ==
  \/ \E kind \in EventKinds : CommitEvent(kind)
  \/ \E i \in 1 .. Len(log) : DeliverUserEvent(i)
  \/ LoginReadCheckpoint
  \/ LoginReadApplyList
  \/ LoginReadFriendList
  \/ \E ok \in BOOLEAN : DealSyncMessage(ok) \/ GetUserThreadsHandler(ok)

ReceiveNext ==
  \/ SlotStart
  \/ SlotUserMessageNotify
  \/ SlotLoadChatThread
  \/ SlotSyncMessageRsp

ResultNext ==
  \/ SlotSyncStateLoaded
  \/ SlotConversationsUpserted
  \/ SlotSnapshotApplied
  \/ SlotBootstrapMarked
  \/ SlotSyncPageApplied

StoreNext(ok) ==
  \/ GetSyncState(ok)
  \/ UpsertConversations(ok)
  \/ ApplySnapshot(ok)
  \/ MarkBootstrapComplete(ok)
  \/ ApplySyncPage(ok)

Next ==
  \/ ServerNext
  \/ Connect
  \/ ReceiveNext
  \/ ResultNext
  \/ \E ok \in BOOLEAN : StoreNext(ok)
  \/ SlotPeriodicSync
  \/ SlotConnectionClosed
  \/ SlotTcpClose
  \/ ClientCrash

(* The client's event loops and the server's workers keep running, a timer *)
(* that is on fires, and a client that is offline logs in again.  Nothing  *)
(* is assumed of notifications, and a call is only retried by the code.    *)
Fairness ==
  /\ WF_vars(Connect)
  /\ WF_vars(LoginReadCheckpoint)
  /\ WF_vars(LoginReadApplyList)
  /\ WF_vars(LoginReadFriendList)
  /\ WF_vars(DealSyncMessage(TRUE) \/ GetUserThreadsHandler(TRUE))
  /\ WF_vars(ReceiveNext)
  /\ WF_vars(ResultNext)
  /\ WF_vars(StoreNext(TRUE))
  /\ WF_vars(SlotPeriodicSync)

Spec == Init /\ [][Next]_vars

FairSpec == Spec /\ Fairness

-----------------------------------------------------------------------------
(* Properties.                                                             *)

Pages == 1 .. ThreadPages

\* What frames, calls and results may hold when the log has n events.
Snapshots(n) == [checkpoint : 0 .. n, applies : 0 .. n, friends : 0 .. n]

RequestFrames(n) == [type : {"sync"}, after : 0 .. n]
                      \cup [type : {"threads"}, page : Pages]

ServerFrames(n) ==
  [type : {"login"}, snap : Snapshots(n)]
    \cup [type : {"notify"}, seq : 1 .. n]
    \cup [type : {"sync"}, ok : BOOLEAN, events : Seq(1 .. n), next : 0 .. n,
          more : BOOLEAN]
    \cup {f \in [type : {"threads"}, ok : BOOLEAN, page : Pages,
                 more : BOOLEAN] : f.more => f.page < ThreadPages}

Tasks(n) ==
  [op : {"state"}]
    \cup [op : {"upsert"}, pages : SUBSET Pages]
    \cup [op : {"snapshot"}, snap : Snapshots(n), replace : BOOLEAN]
    \cup [op : {"mark"}, seq : 0 .. n]
    \cup [op : {"page"}, events : Seq(1 .. n), next : 0 .. n]

Results(n) ==
  [op : {"state"}, ok : BOOLEAN, seq : 0 .. n, boot : BOOLEAN]
    \cup [op : {"upsert", "snapshot"}, ok : BOOLEAN]
    \cup [op : {"mark", "page"}, ok : BOOLEAN, seq : 0 .. n]

ServerTypeOK ==
  /\ log \in Seq(EventKinds)
  /\ Len(log) <= MaxEvents
  /\ notifyLeft \in [1 .. MaxEvents -> 0 .. MaxNotify]
  /\ loginStep \in {"down", "login", "checkpoint", "applies", "up"}
  /\ reply \in Snapshots(Len(log))

LinkTypeOK ==
  /\ c2s \in Seq(RequestFrames(Len(log)))
  /\ s2c \in Seq(ServerFrames(Len(log)))

SyncTypeOK ==
  /\ state \in States
  /\ lastSeq \in 0 .. Len(log)
  /\ checkpoint \in 0 .. Len(log)
  /\ snapshot \in Snapshots(Len(log))
  /\ pendingLive \subseteq 1 .. Len(log)
  /\ conversations \subseteq Pages

FlagsTypeOK ==
  /\ hasMore \in BOOLEAN
  /\ pullPending \in BOOLEAN
  /\ applyingLive \in BOOLEAN
  /\ markAfterSnapshot \in BOOLEAN
  /\ timerOn \in BOOLEAN
  /\ bootstrapped \in BOOLEAN

StoreTypeOK ==
  /\ storeQ \in Seq(Tasks(Len(log)))
  /\ resultQ \in Seq(Results(Len(log)))

DbTypeOK ==
  /\ cursor \in 0 .. Len(log)
  /\ threads \subseteq Pages
  /\ applied \subseteq 1 .. Len(log)
  /\ base \in 0 .. Len(log)

(* Every variable holds what the code can put there, and no event number   *)
(* anywhere, in memory, in the database or under way, is one that the      *)
(* server has not given to an event yet.                                   *)
TypeOK ==
  /\ ServerTypeOK
  /\ LinkTypeOK
  /\ SyncTypeOK
  /\ FlagsTypeOK
  /\ StoreTypeOK
  /\ DbTypeOK
  /\ faults \in 0 .. MaxFaults

(* The stored cursor is the largest contiguous event the client has        *)
(* applied: every message between the bootstrap checkpoint and the cursor  *)
(* is in the local tables, whatever was lost, repeated or reordered on the *)
(* way, and whenever the connection broke or the client died.              *)
NoSkippedMessage ==
  \A i \in base + 1 .. cursor : log[i] = "message" => i \in applied

(* The synchronisation implements EventDelivery: every step of the two     *)
(* client threads, the connection and the server is a commit, a delivery   *)
(* of the next events, a restoration of friend state, the one bootstrap,   *)
(* or nothing as far as the client's durable state goes.  So the cursor    *)
(* never moves back, no stored message is dropped, and no friend request   *)
(* or contact up to the cursor is missing, although a new database takes   *)
(* these from a snapshot read with three queries while others commit.      *)
Delivery == INSTANCE EventDelivery WITH Kinds <- EventKinds

ImplementsDelivery == Delivery!Spec

(* Every committed event reaches the client, although notifications may    *)
(* all be lost, connections break and calls fail a bounded number of times. *)
CatchUp == \A n \in 1 .. MaxEvents : Len(log) >= n ~> cursor >= n
=============================================================================
