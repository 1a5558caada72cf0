------------------------------- MODULE Outbox -------------------------------
(***************************************************************************)
(* Sending a message: from the outbox of the client to the server.         *)
(*                                                                         *)
(* A message that the user sends is committed to SQLite together with an   *)
(* outbox row, and only then registered with the OutboxDispatcher.  The    *)
(* dispatcher (TCP thread) sends it, repeats it, and when the server has   *)
(* answered has LocalChatWorker (store thread) settle it in a transaction; *)
(* only the committed result takes the message off the registry.  A        *)
(* resource message is first announced, then uploaded by the transfer      *)
(* engine.  Store calls and results, frames and upload results travel in   *)
(* queues; the process may die, the connection may break, the user may log *)
(* in again.                                                               *)
(***************************************************************************)
EXTENDS Naturals, Sequences, FiniteSets, FiniteSetsExt, Functions

CONSTANTS
  Messages,
  Resources,     \* the messages that carry a file
  Keys,          \* the messages in the order of their client_message_id
  None,          \* no message
  Mixes          \* bounds, one chosen per behaviour: the messages that the
                 \* server refuses for good, how many copies of a request
                 \* may be under way when it is repeated, how many faults of
                 \* which kinds (a subset of AllFaults) happen

AllFaults == {"cut", "relogin", "crash", "open", "store", "load", "read",
              "server", "source", "upload", "resourceCut", "resourceLogin"}

ASSUME MessagesAssumption ==
  /\ Resources \subseteq Messages
  /\ Keys \in Seq(Messages)
  /\ Range(Keys) = Messages
  /\ IsInjective(Keys)
  /\ None \notin Messages

ASSUME BoundsAssumption ==
  \A x \in Mixes : /\ x.refused \subseteq Messages
                   /\ x.copies \in Nat \ {0}
                   /\ x.faults \in Nat
                   /\ x.kinds \subseteq AllFaults

VARIABLES
  dbOpen, status, hasId, outbox,                \* database of the client
  calls, results,                               \* store thread, both ways
  registry, stage, action, waiting,             \* _entries: the entries ...
  known, loaded,                                \* ... message_id, resource
  uploading, resumePending,                     \* _uploading, _resume_pending
  connected, dbReady, resourceReady, restored, restoring, restoreWait,
  chatPage, linkUp, c2s, s2c,                   \* chat page, connection
  resourceUp, jobs, finished, source,           \* transfer engine, files
  refused, stored, published, events,           \* tables of the server
  copies, faults                                \* bounds, faults so far

dbVars == <<dbOpen, status, hasId, outbox>>
flagVars == <<connected, dbReady, resourceReady, restored, restoring,
              restoreWait>>
linkVars == <<chatPage, linkUp, c2s, s2c>>
engineVars == <<resourceUp, jobs, finished, source>>
serverVars == <<copies, refused, stored, published, events>>
entryVars == <<stage, known, loaded, uploading, resumePending>>
dispatchVars == <<registry, action, waiting>>
vars == <<dbVars, calls, results, dispatchVars, entryVars, flagVars, linkVars,
          engineVars, serverVars, faults>>

Stages == {"text", "metadata", "uploading"}
Actions == {"none", "confirm", "fail", "advance"}

FirstStage == [m \in Messages |-> IF m \in Resources THEN "metadata"
                                                     ELSE "text"]

\* A call of the store; id says whether it is given a valid message_id.
Call(op, m, id) == [op |-> op, message |-> m, id |-> id]
OpenCall == Call("open", None, FALSE)
LoadCall == Call("load", None, FALSE)

\* Copies of a message's requests, and answers, that are under way; a failed
\* call is answered without naming its message.
Copies(m, queue) ==
  Cardinality({i \in DOMAIN queue : queue[i].message \in {m, None}})

\* The stage of the message in outbox rows that hold it.
StageOf(rows, m) ==
  rows[CHOOSE i \in DOMAIN rows : rows[i].message = m].stage

\* The rows without that of m; client_message_id is their key.
Without(rows, m) ==
  LET at == {i \in DOMAIN rows : rows[i].message = m}
      i == CHOOSE j \in at : TRUE
  IN  IF at = {} THEN rows
                 ELSE SubSeq(rows, 1, i - 1) \o SubSeq(rows, i + 1, Len(rows))

FirstIndex(m, seq) == Min({i \in DOMAIN seq : seq[i] = m})

\* The list of the messages in set, ordered as they first occur in seq.
Ordered(set, seq) ==
  {list \in UNION {[1 .. n -> set] : n \in 0 .. Len(Keys)} :
     /\ Range(list) = set
     /\ \A i, j \in DOMAIN list :
          i < j => FirstIndex(list[i], seq) < FirstIndex(list[j], seq)}

Init ==
  /\ \E x \in Mixes :
       /\ refused = x.refused
       /\ copies = x.copies
       /\ faults = [count |-> 0, max |-> x.faults, kinds |-> x.kinds]
  /\ dbOpen = FALSE
  /\ status = [m \in Messages |-> "none"]
  /\ hasId = {}
  /\ outbox = <<>>
  /\ calls = <<>>
  /\ results = <<>>
  /\ registry = {}
  /\ stage = FirstStage
  /\ action = [m \in Messages |-> "none"]
  /\ waiting = {}
  /\ known = {}
  /\ loaded = {}
  /\ uploading = {}
  /\ resumePending = {}
  /\ connected = FALSE
  /\ dbReady = FALSE
  /\ resourceReady = FALSE
  /\ restored = FALSE
  /\ restoring = FALSE
  /\ restoreWait = FALSE
  /\ chatPage = FALSE
  /\ linkUp = FALSE
  /\ c2s = <<>>
  /\ s2c = <<>>
  /\ resourceUp = FALSE
  /\ jobs = {}
  /\ finished = <<>>
  /\ source = Resources
  /\ stored = {}
  /\ published = {}
  /\ events = <<>>

Fault(kind) ==
  /\ kind \in faults.kinds
  /\ faults.count < faults.max
  /\ faults' = [faults EXCEPT !.count = @ + 1]

-----------------------------------------------------------------------------
(* The dispatcher's procedures.                                            *)

\* Queue q with a call what[m] for each m of the list.
Issue(q, list, what) ==
  q \o [i \in DOMAIN list |-> Call(what[list[i]], list[i], list[i] \in known')]

Get(q, list) == Issue(q, list, [m \in Messages |-> "get"])

\* A frame written to a closed socket is dropped.
Transmit(list) ==
  c2s' = IF linkUp' THEN c2s \o [i \in DOMAIN list |-> [message |-> list[i]]]
                    ELSE c2s

\* dispatchDueEntries, with the registry, actions, waiting entries and store
\* queue that the slot has arrived at.  Entries whose action is under way
\* repeat it; the others are sent.  Those of the sequence first go first,
\* connection or not: dispatchRestoredFirstRound.
DispatchDueEntries(reg, act, wait, q, first) ==
  LET open == dbReady' /\ restored' /\ ~restoring'
      due == {m \in reg \ wait : open}
      pending == {m \in due : act[m] # "none"}
      idle == {m \in due \ pending : connected' \/ m \in Range(first)}
      announced == {m \in idle \cap loaded' : stage'[m] = "metadata"}
      lost == announced \ source
      what == [m \in Messages |-> IF m \in lost THEN "fail" ELSE act[m]]
      sent == (announced \ lost) \cup (idle \ Resources)
  IN  /\ registry' = reg
      /\ action' = what
      /\ waiting' = wait \cup pending \cup lost \cup sent
      /\ \E list \in Ordered(pending \cup lost, Keys) :
           calls' = Issue(q, list, what)
      /\ \E list \in Ordered(sent, first \o Keys) : Transmit(list)

\* beginAction: one store transaction, repeated until it has committed.
BeginAction(m, what) ==
  /\ action' = [action EXCEPT ![m] = what]
  /\ waiting' = waiting \cup {m}
  /\ calls' = Append(calls, Call(what, m, m \in known'))

\* requestRestore, with the flags that the slot has arrived at.
CanRestore ==
  connected' /\ dbReady' /\ ~restored /\ ~restoring /\ ~restoreWait'

\* startResourceUpload.  An upload that the engine already has goes on.
StartUploads(set) ==
  /\ known' = known \cup set
  /\ uploading' = IF resourceReady' THEN uploading \cup set ELSE uploading
  /\ jobs' = IF resourceReady' THEN jobs \cup set ELSE jobs

\* _entries, _uploading and _resume_pending are cleared.
ForgetEntries ==
  /\ registry' = {}
  /\ action' = [m \in Messages |-> "none"]
  /\ waiting' = {}
  /\ stage' = FirstStage
  /\ known' = {}
  /\ loaded' = {}
  /\ uploading' = {}
  /\ resumePending' = {}

\* resumeUploadingEntries: the uploads it starts, and the messages it has to
\* read from the database first.
Resumable ==
  {m \in registry \ resumePending :
     /\ resourceReady' /\ restored /\ ~restoring
     /\ stage[m] = "uploading"
     /\ action[m] = "none"}

\* Mutant: uploads are not resumed.
ResumeStartNone == {}

ResumeStart == (Resumable \cap loaded \cap known) \ uploading

ResumeQuery == Resumable \ (loaded \cap (known \cup uploading))

-----------------------------------------------------------------------------
(* The dispatcher's slots.                                                 *)

Opening ==
  \/ \E i \in DOMAIN calls : calls[i].op = "open"
  \/ \E i \in DOMAIN results : results[i].op = "open"

(* The user logs in: the login dialog opens the database ...               *)
OpenUserDb ==
  /\ ~linkUp
  /\ ~dbReady
  /\ ~Opening
  /\ calls' = Append(calls, OpenCall)
  /\ UNCHANGED <<dbVars, results, dispatchVars, entryVars, flagVars, linkVars,
                 engineVars, serverVars, faults>>

(* ... and the chat login succeeds: slot_start.  Entries that wait to be   *)
(* sent again need not wait any longer.                                    *)
SlotStart ==
  /\ ~linkUp
  /\ dbReady \/ Opening
  /\ linkUp' = TRUE
  /\ chatPage' = TRUE
  /\ connected' = TRUE
  /\ UNCHANGED <<dbReady, resourceReady, restored, restoreWait>>
  /\ \/ /\ ~restored
        /\ restoring' = (restoring \/ CanRestore)
        /\ calls' = IF CanRestore THEN Append(calls, LoadCall) ELSE calls
        /\ UNCHANGED <<dispatchVars, entryVars, jobs, c2s>>
     \/ /\ restored
        /\ StartUploads(ResumeStart)
        /\ resumePending' = resumePending \cup ResumeQuery
        /\ UNCHANGED <<restoring, stage, loaded>>
        /\ \E list \in Ordered(ResumeQuery, Keys) :
             DispatchDueEntries(registry, action,
               {m \in waiting : action[m] # "none"}, Get(calls, list), <<>>)
  /\ UNCHANGED <<dbVars, results, s2c, resourceUp, finished, source,
                 serverVars, faults>>

(* slot_scan_timeout, and the timers it looks at.                          *)
SlotScanTimeout ==
  /\ dbReady
  /\ UNCHANGED <<connected, dbReady, resourceReady, restored, restoreWait,
                 entryVars, chatPage, linkUp>>
  /\ restoring' = (restoring \/ CanRestore)
  /\ DispatchDueEntries(registry, action, waiting,
       IF CanRestore THEN Append(calls, LoadCall) ELSE calls, <<>>)
  /\ UNCHANGED <<dbVars, results, s2c, engineVars, serverVars, faults>>

RetryDue(m) ==
  /\ m \in waiting
  /\ Copies(m, c2s) + Copies(m, s2c) < copies
  /\ Copies(m, calls) + Copies(m, results) < copies
  /\ waiting' = waiting \ {m}
  /\ UNCHANGED <<dbVars, calls, results, registry, action, entryVars,
                 flagVars, linkVars, engineVars, serverVars, faults>>

RestoreDue ==
  /\ restoreWait
  /\ restoreWait' = FALSE
  /\ UNCHANGED <<dbVars, calls, results, dispatchVars, entryVars, connected,
                 dbReady, resourceReady, restored, restoring, linkVars,
                 engineVars, serverVars, faults>>

\* What an answer makes the dispatcher do: a transient error nothing, the
\* request is repeated anyhow.
Outcome(m, code) ==
  CASE code = "permanent" -> "fail"
    [] code = "ok" -> IF m \in Resources THEN "advance" ELSE "confirm"
    [] OTHER -> "none"

(* slot_text_msg_rsp and slot_resource_msg_meta_rsp.                       *)
MsgRsp ==
  /\ s2c # <<>>
  /\ s2c' = Tail(s2c)
  /\ LET m == Head(s2c).message
         what == Outcome(m, Head(s2c).code)
     IN  IF m \in registry /\ action[m] = "none" /\ what # "none"
           THEN /\ known' = IF what = "fail" THEN known ELSE known \cup {m}
                /\ BeginAction(m, what)
           ELSE UNCHANGED <<known, action, waiting, calls>>
  /\ UNCHANGED <<dbVars, results, registry, stage, loaded, uploading,
                 resumePending, flagVars, chatPage, linkUp, c2s, engineVars,
                 serverVars, faults>>

(* slot_transfer_finished and handleUploadFinished.                        *)
SlotTransferFinished ==
  /\ finished # <<>>
  /\ finished' = Tail(finished)
  /\ LET m == Head(finished).message
         heard == m \in uploading /\ m \in registry /\ action[m] = "none"
     IN  /\ known' = IF heard /\ Head(finished).ok THEN known \cup {m} ELSE known
         /\ IF heard
              THEN BeginAction(m, IF Head(finished).ok THEN "confirm"
                                                       ELSE "fail")
              ELSE UNCHANGED <<action, waiting, calls>>
         /\ uploading' = IF m \in registry THEN uploading ELSE uploading \ {m}
  /\ UNCHANGED <<dbVars, results, registry, stage, loaded, resumePending,
                 flagVars, linkVars, resourceUp, jobs, source, serverVars,
                 faults>>

(* The resource connection is authenticated: slot_resource_login_success.  *)
(* That it was lost before is not told to the dispatcher.                  *)
SlotResourceLoginSuccess ==
  /\ ~resourceUp
  /\ linkUp
  /\ resourceUp' = TRUE
  /\ resourceReady' = TRUE
  /\ StartUploads(ResumeStart)
  /\ resumePending' = resumePending \cup ResumeQuery
  /\ \E list \in Ordered(ResumeQuery, Keys) : calls' = Get(calls, list)
  /\ UNCHANGED <<dbVars, results, dispatchVars, stage, loaded, connected,
                 dbReady, restored, restoring, restoreWait, linkVars, finished,
                 source, serverVars, faults>>

(* slot_resource_login_failed.                                             *)
SlotResourceLoginFailed ==
  /\ ~resourceUp
  /\ linkUp
  /\ Fault("resourceLogin")
  /\ resourceReady' = FALSE
  /\ UNCHANGED <<dbVars, calls, results, dispatchVars, entryVars, connected,
                 dbReady, restored, restoring, restoreWait, linkVars,
                 engineVars, serverVars>>

-----------------------------------------------------------------------------
(* Results of the store.                                                   *)

Result(op) == results # <<>> /\ Head(results).op = op /\ results' = Tail(results)

(* slot_db_opened.  Opened again for the same user, nothing changes in     *)
(* memory; else the registry starts empty.                                 *)
SlotDbOpened ==
  /\ Result("open")
  /\ UNCHANGED <<connected, resourceReady>>
  /\ dbReady' = Head(results).ok
  /\ \/ /\ dbReady
        /\ UNCHANGED <<dispatchVars, entryVars, restored, restoreWait>>
     \/ /\ ~dbReady
        /\ restored' = FALSE
        /\ restoreWait' = FALSE
        /\ ForgetEntries
  /\ restoring' = ((dbReady /\ restoring) \/ CanRestore)
  /\ calls' = IF CanRestore THEN Append(calls, LoadCall) ELSE calls
  /\ UNCHANGED <<dbVars, linkVars, engineVars, serverVars, faults>>

\* A committed message that is not registered yet.
IsNew(r) == r.ok /\ r.message \notin registry

(* slot_send_enqueued_registered.                                          *)
SlotSendEnqueued ==
  /\ Result("enqueue")
  /\ UNCHANGED <<flagVars, stage, known, uploading, resumePending, chatPage,
                 linkUp>>
  /\ LET m == Head(results).message
     IN  \/ /\ ~IsNew(Head(results))
            /\ UNCHANGED <<dispatchVars, loaded, calls, c2s>>
         \/ /\ IsNew(Head(results))
            /\ loaded' = loaded \cup ({m} \cap Resources)
            /\ DispatchDueEntries(registry \cup {m}, action, waiting, calls, <<>>)
  /\ UNCHANGED <<dbVars, s2c, engineVars, serverVars, faults>>

(* slot_outbox_loaded: what is not registered yet is, the resources are    *)
(* read from the database, and everything due is sent.                     *)
SlotOutboxLoaded ==
  /\ Result("load")
  /\ UNCHANGED <<connected, dbReady, resourceReady, known, loaded, uploading,
                 chatPage, linkUp>>
  /\ LET rows == Head(results).rows
         order == [i \in DOMAIN rows |-> rows[i].message]
         entries == Range(order)
         new == entries \ registry
         query == (entries \cap Resources) \ resumePending
     IN  \/ /\ ~restoring
            /\ UNCHANGED <<restored, restoring, restoreWait, dispatchVars, stage,
                           resumePending, calls, c2s>>
         \/ /\ restoring
            /\ ~Head(results).ok
            /\ restoring' = FALSE
            /\ restoreWait' = TRUE
            /\ UNCHANGED <<restored, dispatchVars, stage, resumePending, calls,
                           c2s>>
         \/ /\ restoring
            /\ Head(results).ok
            /\ restoring' = FALSE
            /\ restoreWait' = FALSE
            /\ restored' = TRUE
            /\ stage' = [m \in Messages |-> IF m \in new
                           THEN StageOf(rows, m) ELSE stage[m]]
            /\ resumePending' = resumePending \cup query
            /\ \E list \in Ordered(query, Keys) :
                 DispatchDueEntries(registry \cup new, action, waiting,
                   Get(calls, list), order)
  /\ UNCHANGED <<dbVars, s2c, engineVars, serverVars, faults>>

(* slot_message_loaded.  A result that failed names no message, so it is   *)
(* not recognised.                                                         *)
SlotMessageLoaded ==
  /\ Result("get")
  /\ UNCHANGED <<flagVars, stage, chatPage, linkUp>>
  /\ LET m == Head(results).message
         asked == Head(results).ok /\ m \in resumePending
     IN  /\ resumePending' = IF asked THEN resumePending \ {m} ELSE resumePending
         /\ \/ /\ ~asked \/ m \notin registry
               /\ UNCHANGED <<dispatchVars, known, loaded, uploading, calls, c2s,
                              jobs>>
            \/ /\ asked
               /\ m \in registry
               /\ stage[m] = "uploading"
               /\ loaded' = loaded \cup {m}
               /\ StartUploads({m})
               /\ UNCHANGED <<dispatchVars, calls, c2s>>
            \/ /\ asked
               /\ m \in registry
               /\ stage[m] # "uploading"
               /\ loaded' = loaded \cup {m}
               /\ known' = IF Head(results).id THEN known \cup {m}
                                               ELSE known \ {m}
               /\ DispatchDueEntries(registry, action, waiting, calls, <<>>)
               /\ UNCHANGED <<uploading, jobs>>
  /\ UNCHANGED <<dbVars, s2c, resourceUp, finished, source, serverVars,
                 faults>>

\* The result of the transaction that the entry waits for, committed.
IsAwaited(r) ==
  r.ok /\ r.message \in registry /\ action[r.message] = r.op

(* slot_send_confirmed, slot_resource_confirmed, slot_send_failed_marked:  *)
(* the committed transaction takes the message off the registry.           *)
SlotSettled(op) ==
  /\ Result(op)
  /\ LET m == Head(results).message
     IN  IF IsAwaited(Head(results))
           THEN /\ registry' = registry \ {m}
                /\ uploading' = uploading \ {m}
                /\ action' = [action EXCEPT ![m] = "none"]
                /\ waiting' = waiting \ {m}
                /\ stage' = [stage EXCEPT ![m] = FirstStage[m]]
                /\ known' = known \ {m}
                /\ loaded' = loaded \ {m}
           ELSE UNCHANGED <<registry, uploading, action, waiting, stage, known,
                            loaded>>
  /\ UNCHANGED <<dbVars, calls, resumePending, flagVars, linkVars, engineVars,
                 serverVars, faults>>

(* slot_resource_stage_updated: the upload starts.                         *)
SlotStageUpdated ==
  /\ Result("advance")
  /\ UNCHANGED flagVars
  /\ LET m == Head(results).message
     IN  IF IsAwaited(Head(results))
           THEN /\ action' = [action EXCEPT ![m] = "none"]
                /\ stage' = [stage EXCEPT ![m] = "uploading"]
                /\ waiting' = waiting \ {m}
                /\ StartUploads({m})
           ELSE UNCHANGED <<action, stage, waiting, known, uploading, jobs>>
  /\ UNCHANGED <<dbVars, calls, registry, loaded, resumePending, linkVars,
                 resourceUp, finished, source, serverVars, faults>>

-----------------------------------------------------------------------------
(* The store thread: LocalChatWorker and LocalChatDb.                      *)

(* ChatPage hands a message to the store.                                  *)
Send(m) ==
  /\ chatPage
  /\ status[m] = "none"
  /\ \A i \in DOMAIN calls : calls[i].message # m
  /\ \A i \in DOMAIN results : results[i].message # m
  /\ calls' = Append(calls, Call("enqueue", m, FALSE))
  /\ UNCHANGED <<dbVars, results, dispatchVars, entryVars, flagVars, linkVars,
                 engineVars, serverVars, faults>>

\* The answer to the call, given the message read or written, the rows loaded.
Answer(ok, m, rows) ==
  /\ calls' = Tail(calls)
  /\ results' = Append(results,
       [op |-> Head(calls).op, ok |-> ok, message |-> m, rows |-> rows,
        id |-> Head(calls).op = "get" /\ m \in hasId])

\* A call that fails, for want of a row or for another reason: nothing is
\* written, and only enqueueSend still says which message it was about.
Refuse == Answer(FALSE, IF Head(calls).op = "enqueue" THEN Head(calls).message
                                                      ELSE None, <<>>)

Took(op) == calls # <<>> /\ Head(calls).op = op /\ (dbOpen \/ op = "open")

OpenDb ==
  /\ Took("open")
  /\ dbOpen' = TRUE
  /\ Answer(TRUE, None, <<>>)
  /\ UNCHANGED <<status, hasId, outbox>>

EnqueueSend ==
  /\ Took("enqueue")
  /\ LET m == Head(calls).message
     IN  /\ status' = [status EXCEPT ![m] = "sending"]
         /\ outbox' = Append(outbox, [message |-> m, stage |-> FirstStage[m]])
         /\ Answer(TRUE, m, <<>>)
  /\ UNCHANGED <<dbOpen, hasId>>

(* confirmTextSent needs a message_id, confirmResourceSent one in the row. *)
ConfirmSent ==
  /\ Took("confirm")
  /\ LET m == Head(calls).message
     IN  IF IF m \in Resources THEN m \in hasId ELSE Head(calls).id
           THEN /\ status' = [status EXCEPT ![m] = "sent"]
                /\ outbox' = Without(outbox, m)
                /\ hasId' = hasId \cup {m}
                /\ Answer(TRUE, m, <<>>)
                /\ UNCHANGED dbOpen
           ELSE Refuse /\ UNCHANGED dbVars

MarkSendFailed ==
  /\ Took("fail")
  /\ LET m == Head(calls).message
     IN  /\ status' = [status EXCEPT ![m] = "failed"]
         /\ outbox' = Without(outbox, m)
         /\ Answer(TRUE, m, <<>>)
  /\ UNCHANGED <<dbOpen, hasId>>

UpdateResourceStage ==
  /\ Took("advance")
  /\ LET m == Head(calls).message
     IN  IF Head(calls).id /\ \E i \in DOMAIN outbox : outbox[i].message = m
           THEN /\ hasId' = hasId \cup {m}
                /\ outbox' = [i \in DOMAIN outbox |->
                                IF outbox[i].message = m
                                  THEN [message |-> m, stage |-> "uploading"]
                                  ELSE outbox[i]]
                /\ Answer(TRUE, m, <<>>)
                /\ UNCHANGED <<dbOpen, status>>
           ELSE Refuse /\ UNCHANGED dbVars

GetMessageByClientId ==
  /\ Took("get")
  /\ Answer(TRUE, Head(calls).message, <<>>)
  /\ UNCHANGED dbVars

LoadOutbox ==
  /\ Took("load")
  /\ Answer(TRUE, None, outbox)
  /\ UNCHANGED dbVars

StoreWorker ==
  /\ \/ OpenDb
     \/ EnqueueSend
     \/ ConfirmSent
     \/ MarkSendFailed
     \/ UpdateResourceStage
     \/ GetMessageByClientId
     \/ LoadOutbox
  /\ UNCHANGED <<dispatchVars, entryVars, flagVars, linkVars, engineVars,
                 serverVars, faults>>

(* The database cannot be opened, read or written.                         *)
StoreFails ==
  /\ calls # <<>>
  /\ \/ Head(calls).op # "open" /\ ~dbOpen /\ UNCHANGED faults
     \/ Took("open") /\ ~dbOpen /\ Fault("open")
     \/ Took("load") /\ Fault("load")
     \/ Took("get") /\ Fault("read")
     \/ \E op \in {"enqueue", "confirm", "fail", "advance"} :
          Took(op) /\ Fault("store")
  /\ Refuse
  /\ UNCHANGED <<dbVars, dispatchVars, entryVars, flagVars, linkVars,
                 engineVars, serverVars>>

-----------------------------------------------------------------------------
(* The server, the transfer engine and what goes wrong.                    *)

Reply(m, code) == s2c' = Append(s2c, [message |-> m, code |-> code])

\* AddChatMsg: a text is published as it is stored, a resource when uploaded;
\* the key (sender, client_message_id) is unique.
\* Mutant: a repeated request is stored again.
StoreMessageAgain(m) ==
  /\ stored' = stored \cup {m}
  /\ published' = published \cup ({m} \ Resources)
  /\ events' = IF m \in Resources THEN events ELSE Append(events, m)
  /\ UNCHANGED <<copies, refused>>

StoreMessage(m) ==
  /\ stored' = stored \cup {m}
  /\ published' = published \cup ({m} \ Resources)
  /\ events' = IF m \in Resources \cup stored THEN events
                                              ELSE Append(events, m)
  /\ UNCHANGED <<copies, refused>>

(* DealChatTextMsg and DealCreateResourceMsg.  A message that is stored    *)
(* already is acknowledged and not stored again.  The transaction may      *)
(* fail, or commit and be reported as failed.                              *)
DealMessage ==
  /\ c2s # <<>>
  /\ c2s' = Tail(c2s)
  /\ LET m == Head(c2s).message
     IN  \/ /\ m \in refused
            /\ Reply(m, "permanent")
            /\ UNCHANGED <<serverVars, faults>>
         \/ /\ m \notin refused
            /\ StoreMessage(m)
            /\ Reply(m, "ok")
            /\ UNCHANGED faults
         \/ /\ m \notin refused
            /\ Fault("server")
            /\ StoreMessage(m) \/ UNCHANGED serverVars
            /\ Reply(m, "transient")
  /\ UNCHANGED <<dbVars, calls, results, dispatchVars, entryVars, flagVars,
                 chatPage, linkUp, engineVars>>

(* The engine uploads: the resource server publishes the message with the  *)
(* last chunk.                                                             *)
Publish(m) ==
  /\ resourceUp
  /\ m \in jobs \cap source
  /\ m \notin published
  /\ published' = published \cup {m}
  /\ events' = Append(events, m)
  /\ UNCHANGED <<dbVars, calls, results, dispatchVars, entryVars, flagVars,
                 linkVars, engineVars, copies, refused, stored, faults>>

\* How an upload may end: a published message needs no file any more.
\* Mutant: without the file it fails in any case.
UploadOutcomesStrict(m) ==
  {ok \in BOOLEAN : IF ok THEN m \in published \cap source
                          ELSE m \notin source}

UploadOutcomes(m) ==
  {ok \in BOOLEAN : IF ok THEN m \in published
                          ELSE m \notin published \cup source}

(* An upload ends, as it must or by an error that is final.                *)
UploadFinishes(m) ==
  /\ resourceUp
  /\ m \in jobs
  /\ jobs' = jobs \ {m}
  /\ \/ /\ \E ok \in UploadOutcomes(m) :
             finished' = Append(finished, [message |-> m, ok |-> ok])
        /\ UNCHANGED faults
     \/ /\ Fault("upload")
        /\ finished' = Append(finished, [message |-> m, ok |-> FALSE])
  /\ UNCHANGED <<dbVars, calls, results, dispatchVars, entryVars, flagVars,
                 linkVars, resourceUp, source, serverVars>>

LoseSource(m) ==
  /\ m \in source
  /\ Fault("source")
  /\ source' = source \ {m}
  /\ UNCHANGED <<dbVars, calls, results, dispatchVars, entryVars, flagVars,
                 linkVars, resourceUp, jobs, finished, serverVars>>

(* The chat connection breaks: slot_connection_closed.                     *)
SlotConnectionClosed ==
  /\ linkUp
  /\ Fault("cut")
  /\ linkUp' = FALSE
  /\ connected' = FALSE
  /\ c2s' = <<>>
  /\ s2c' = <<>>
  /\ UNCHANGED <<dbVars, calls, results, dispatchVars, entryVars, dbReady,
                 resourceReady, restored, restoring, restoreWait, chatPage,
                 engineVars, serverVars>>

(* The resource connection breaks and FileTcpMgr connects again by itself. *)
ResourceCut ==
  /\ resourceUp
  /\ Fault("resourceCut")
  /\ resourceUp' = FALSE
  /\ UNCHANGED <<dbVars, calls, results, dispatchVars, entryVars, flagVars,
                 linkVars, jobs, finished, source, serverVars>>

(* Back to the login page, where the same user logs in again: both         *)
(* connections are closed, the engine is reset, and results of the old     *)
(* login are recognised as such.  The dispatcher hears of none of it.      *)
Relogin ==
  /\ dbReady
  /\ Fault("relogin")
  /\ chatPage' = FALSE
  /\ linkUp' = FALSE
  /\ c2s' = <<>>
  /\ s2c' = <<>>
  /\ resourceUp' = FALSE
  /\ jobs' = {}
  /\ finished' = <<>>
  /\ calls' = Append(calls, OpenCall)
  /\ UNCHANGED <<dbVars, results, dispatchVars, entryVars, flagVars, source,
                 serverVars>>

(* The client dies.  The database and the files remain.                    *)
Crash ==
  /\ Fault("crash")
  /\ calls' = <<>>
  /\ results' = <<>>
  /\ ForgetEntries
  /\ connected' = FALSE
  /\ dbReady' = FALSE
  /\ resourceReady' = FALSE
  /\ restored' = FALSE
  /\ restoring' = FALSE
  /\ restoreWait' = FALSE
  /\ chatPage' = FALSE
  /\ linkUp' = FALSE
  /\ c2s' = <<>>
  /\ s2c' = <<>>
  /\ resourceUp' = FALSE
  /\ jobs' = {}
  /\ finished' = <<>>
  /\ dbOpen' = FALSE
  /\ UNCHANGED <<status, hasId, outbox, source, serverVars>>

-----------------------------------------------------------------------------

Dispatcher ==
  \/ SlotStart
  \/ SlotScanTimeout
  \/ \E m \in Messages : RetryDue(m)
  \/ RestoreDue
  \/ MsgRsp
  \/ SlotTransferFinished
  \/ SlotResourceLoginSuccess
  \/ SlotDbOpened
  \/ SlotSendEnqueued
  \/ SlotOutboxLoaded
  \/ SlotMessageLoaded
  \/ \E op \in {"confirm", "fail"} : SlotSettled(op)
  \/ SlotStageUpdated

Engine ==
  \E m \in Messages : Publish(m) \/ UploadFinishes(m)

Failure ==
  \/ SlotResourceLoginFailed
  \/ StoreFails
  \/ \E m \in Messages : LoseSource(m)
  \/ SlotConnectionClosed
  \/ ResourceCut
  \/ Relogin
  \/ Crash

Next ==
  \/ OpenUserDb
  \/ \E m \in Messages : Send(m)
  \/ Dispatcher
  \/ StoreWorker
  \/ DealMessage
  \/ Engine
  \/ Failure

Spec == Init /\ [][Next]_vars

Progress ==
  \/ OpenUserDb
  \/ Dispatcher
  \/ StoreWorker
  \/ DealMessage
  \/ Engine

(* The faults after which the code does not leave a message in the state   *)
(* "sending".  A login as the same user, a database that does not open and *)
(* a failed transaction or read may, and so may a failed login to the      *)
(* resource server once a request has been answered twice.                 *)
Recoverable ==
  /\ faults.kinds \cap {"relogin", "open", "store", "read"} = {}
  /\ copies > 1 => "resourceLogin" \notin faults.kinds

(* The user logs in whenever logged out, both threads and the server work, *)
(* both timers expire, uploads end.  Sending and failing may stop.         *)
FairSpec == Spec /\ WF_vars(Recoverable /\ Progress)

-----------------------------------------------------------------------------
(* Properties.                                                             *)

Rows == [message : Messages, stage : Stages]
Ops == {"open", "load", "enqueue", "get"} \cup (Actions \ {"none"})
CallType == [op : Ops, message : Messages \cup {None}, id : BOOLEAN]
ResultType == [op : Ops, ok : BOOLEAN, message : Messages \cup {None},
               rows : Seq(Rows), id : BOOLEAN]
RequestType == [message : Messages]
ReplyType == [message : Messages, code : {"ok", "permanent", "transient"}]
EndType == [message : Messages, ok : BOOLEAN]

DbTypeOK ==
  /\ dbOpen \in BOOLEAN
  /\ status \in [Messages -> {"none", "sending", "sent", "failed"}]
  /\ hasId \subseteq Messages
  /\ outbox \in Seq(Rows)

QueuesTypeOK == calls \in Seq(CallType) /\ results \in Seq(ResultType)

EntriesTypeOK ==
  /\ registry \subseteq Messages
  /\ stage \in [Messages -> Stages]
  /\ action \in [Messages -> Actions]
  /\ waiting \subseteq Messages
  /\ known \subseteq Messages
  /\ loaded \subseteq Messages
  /\ uploading \subseteq Messages
  /\ resumePending \subseteq Messages

FlagsTypeOK ==
  /\ connected \in BOOLEAN
  /\ dbReady \in BOOLEAN
  /\ resourceReady \in BOOLEAN
  /\ restored \in BOOLEAN
  /\ restoring \in BOOLEAN
  /\ restoreWait \in BOOLEAN

LinkTypeOK ==
  /\ chatPage \in BOOLEAN
  /\ linkUp \in BOOLEAN
  /\ c2s \in Seq(RequestType)
  /\ s2c \in Seq(ReplyType)

EngineTypeOK ==
  /\ resourceUp \in BOOLEAN
  /\ jobs \subseteq Messages
  /\ finished \in Seq(EndType)
  /\ source \subseteq Messages

ServerTypeOK ==
  /\ refused \subseteq Messages
  /\ stored \subseteq Messages
  /\ published \subseteq Messages
  /\ events \in Seq(Messages)

TypeOK ==
  /\ DbTypeOK
  /\ QueuesTypeOK
  /\ EntriesTypeOK
  /\ FlagsTypeOK
  /\ LinkTypeOK
  /\ EngineTypeOK
  /\ ServerTypeOK
  /\ faults.count \in 0 .. faults.max

(* What the sender sees is what became of the message: one that is shown   *)
(* as sent was published, one that is shown as failed was not, however     *)
(* often the process died or the answer was lost on the way.  The second   *)
(* half needs an engine that does not give up an upload by itself.  Stated *)
(* together with the types.                                                *)
StatusIsTrue ==
  /\ TypeOK
  /\ \A m \in Messages :
       /\ status[m] = "sent" => m \in published
       /\ status[m] = "failed" => m \notin published \/ "upload" \in faults.kinds

(* Repeated requests, uploads that start over and commits reported as      *)
(* failures do not give the receiver a message twice.                      *)
PublishedOnce == IsInjective(events)

(* A message in the outbox does not stay "sending" for ever.               *)
SendSettles ==
  Recoverable => <>[](\A m \in Messages : status[m] # "sending")
=============================================================================
