------------------------------ MODULE Transfer ------------------------------
(***************************************************************************)
(* The client's TransferEngine: uploads and downloads that share a         *)
(* connection, each with a window of chunks, answers it expects, answers   *)
(* it no longer wants, pauses, retries and a slot.                         *)
(*                                                                         *)
(* Offsets are counted in chunks. A connection keeps the frames of one     *)
(* transfer in order (one worker of the server serves a message), so each  *)
(* transfer has its own queue of requests and of answers. Time is          *)
(* abstract: a back-off may end at any moment, and a time-out may strike   *)
(* when an answer is awaited. HandleTimeout asks FileTcpMgr to connect     *)
(* again, which calls OnConnectionDown before it returns: one step here.   *)
(***************************************************************************)
EXTENDS Naturals, Sequences, FiniteSets, SequencesExt

CONSTANTS
  Uploads, Downloads,   \* messages, with one transfer each
  Together,             \* bound: sets of transfers the program starts
  Known,                \* uploads whose content the server has already
  Chunks,               \* chunks of a file
  Window,               \* max_inflight_chunks
  UploadSlots, DownloadSlots,
  RetryLimit,           \* chunk_retry_limit
  JsonLimit,            \* json_error_limit
  MaxFaults,            \* bound: faults in a behaviour
  Faults                \* their kinds

ASSUME TransferAssumption ==
  /\ Known \subseteq Uploads /\ Uploads \cap Downloads = {}
  /\ \A n \in {Chunks, Window, UploadSlots, DownloadSlots, RetryLimit, JsonLimit} :
       n \in Nat \ {0}
  /\ MaxFaults \in Nat
  /\ Faults \subseteq {"cut", "dead", "slow", "crash", "retry", "rollback", "mismatch",
                       "expire", "bad", "proof", "pause", "again", "logout", "quit"}

VARIABLES
  tr,        \* ResourceTransferRuntime of each message
  wait,      \* _upload_wait and _download_wait
  disk,      \* "<dest>.part" of each download
  link,      \* the connection: "down", "up", or "dead" and nobody knows
  req, rsp,  \* frames on the way, of each message
  server,    \* what ResourceServer holds of each upload
  faults

vars == <<tr, wait, disk, link, req, rsp, server, faults>>

Transfers == Uploads \cup Downloads

(* _conn_up: nobody is told when a connection dies.                        *)
up == link # "down"

Whole == [i \in 1..Chunks |-> i - 1]

(* InitRuntime.                                                            *)
NewRuntime ==
  [phase |-> "none", slot |-> FALSE, acked |-> 0, wire |-> 0, inflight |-> <<>>,
   stale |-> <<>>, asked |-> FALSE, paused |-> FALSE, noProof |-> FALSE, proof |-> FALSE,
   chunkErrors |-> 0, publishErrors |-> 0, jsonErrors |-> 0, hashed |-> 0,
   forgot |-> FALSE]  \* history: it dropped answers that can still come

Init ==
  /\ tr = [t \in Transfers |-> NewRuntime]
  /\ wait = [d \in {"up", "down"} |-> <<>>]
  /\ disk = [d \in Downloads |-> <<>>]
  /\ link = "down"
  /\ req = [t \in Transfers |-> <<>>] /\ rsp = [t \in Transfers |-> <<>>]
  /\ server = [u \in Uploads |-> [received |-> 0, status |-> "pending", challenge |-> FALSE,
                             noProof |-> FALSE]]
  /\ faults = 0

Fault(kind) == kind \in Faults /\ faults < MaxFaults /\ faults' = faults + 1

Final(r) == r.phase \in {"completed", "failed"}

(* FindActive.                                                             *)
Live(t) == tr[t].phase \notin {"none", "completed", "failed"}

Direction(t) == IF t \in Uploads THEN "up" ELSE "down"

Slots(t) == IF t \in Uploads THEN UploadSlots ELSE DownloadSlots

(* ActiveCount, of the transfers in the direction of t, in table f.        *)
ActiveCount(f, t) ==
  Cardinality({x \in Transfers : Direction(x) = Direction(t) /\ f[x].slot /\ ~Final(f[x])})

-----------------------------------------------------------------------------
(* What a handler does to a transfer: its runtime r and the frames it      *)
(* sends, in order.                                                        *)

Frame(k, i) == [k |-> k, at |-> i]

Do(r, out) == [r |-> r, out |-> out]

(* A query is sent: 1507 or 1509. Awaited answers of an upload become      *)
(* stale, those of a download are forgotten.                               *)
Query(t, r) ==
  Do([r EXCEPT !.proof = FALSE, !.phase = "querying", !.asked = TRUE,
               !.stale = IF t \in Uploads THEN @ \o r.inflight ELSE <<>>,
               !.inflight = <<>>],
     <<Frame(IF t \in Uploads THEN "progress" ELSE "info", 0)>>)

(* BeginQuery: without a connection, or paused, it waits to be called      *)
(* again.                                                                  *)
BeginQuery(t, r) ==
  IF up /\ ~r.paused THEN Query(t, r)
  ELSE Do([r EXCEPT !.proof = FALSE, !.phase = "querying", !.asked = FALSE], <<>>)

(* Mutant: the answers still to come are forgotten instead of remembered.  *)
RollbackForgetting(r, i) == [r EXCEPT !.inflight = <<>>, !.acked = i, !.wire = i]

(* RollbackUploadTo.                                                       *)
RollbackUploadTo(r, i) ==
  [r EXCEPT !.stale = @ \o r.inflight, !.inflight = <<>>, !.acked = i, !.wire = i]

ResyncUpload(t, r) == BeginQuery(t, RollbackUploadTo(r, r.acked))

ScheduleBackoff(r) == [r EXCEPT !.phase = "backoff"]

(* Pump and SendNextChunk: the window of an active transfer is filled.     *)
Pump(t, r) ==
  LET room == Window - Len(r.inflight)
      n == IF room <= 0 THEN 0
           ELSE IF room < Chunks - r.wire THEN room ELSE Chunks - r.wire
      next == [i \in 1..n |-> r.wire + i - 1]
      kind == IF t \in Uploads THEN "chunk" ELSE "get"
  IN IF up /\ r.phase = "active" /\ r.slot /\ ~r.paused
     THEN Do([r EXCEPT !.inflight = @ \o next, !.wire = @ + n],
             [i \in 1..n |-> Frame(kind, next[i])])
     ELSE Do(r, <<>>)

(* FailTransfer and CompleteTransfer: nothing else of a runtime is read    *)
(* again.                                                                  *)
Fail == Do([NewRuntime EXCEPT !.phase = "failed"], <<>>)
Complete == Do([NewRuntime EXCEPT !.phase = "completed"], <<>>)

(* An answer that cannot be understood; too many in a row end it.          *)
BadAnswer(r, otherwise) ==
  IF r.jsonErrors + 1 >= JsonLimit THEN Fail
  ELSE Do([otherwise EXCEPT !.jsonErrors = @ + 1], <<>>)

(* HandleUploadError.                                                      *)
HandleUploadError(t, r, e, i) ==
  CASE e = "final" -> Fail
    [] e \in {"retry", "mismatch"} -> Do(ScheduleBackoff(RollbackUploadTo(r, i)), <<>>)
    [] e = "rollback" ->
         LET back == RollbackUploadTo(r, i)
         IN IF r.chunkErrors + 1 >= RetryLimit
            THEN Do(ScheduleBackoff([back EXCEPT !.chunkErrors = 0]), <<>>)
            ELSE Pump(t, [back EXCEPT !.chunkErrors = @ + 1, !.phase = "active"])
    [] OTHER -> BadAnswer(r, ScheduleBackoff(RollbackUploadTo(r, r.acked)))

(* Mutant: all bytes are there, so it is done.                             *)
DoneWhenSent(r) == Complete

(* MaybeResendLastChunk: all bytes are there and the message is not.       *)
MaybeResendLastChunk(r) ==
  IF r.paused THEN Do(r, <<>>)
  ELSE IF r.publishErrors >= RetryLimit
  THEN Do(ScheduleBackoff([r EXCEPT !.publishErrors = 0]), <<>>)
  ELSE Do([r EXCEPT !.publishErrors = @ + 1, !.phase = "active",
                    !.inflight = Append(@, Chunks - 1)],
          <<Frame("chunk", Chunks - 1)>>)

(* HandleChunkUploadRsp: 1506.                                             *)
HandleChunkUploadRsp(t, r, m) ==
  LET popped == [r EXCEPT !.inflight = Tail(@)]
      good == [popped EXCEPT !.jsonErrors = 0, !.chunkErrors = 0,
                             !.acked = IF m.srv > @ THEN m.srv ELSE @]
  IN CASE r.phase = "querying" /\ r.inflight = <<>> /\ r.stale = <<>> -> Do(r, <<>>)
       [] r.stale # <<>> /\ m.at = Head(r.stale) -> Do([r EXCEPT !.stale = Tail(@)], <<>>)
       [] OTHER ->
          IF r.inflight = <<>> \/ m.at # Head(r.inflight)
          THEN IF r.inflight = <<>> /\ r.stale = <<>> /\ m.at < r.wire THEN Do(r, <<>>)
               ELSE ResyncUpload(t, r)
          ELSE CASE m.res = "bad" -> BadAnswer(popped, ScheduleBackoff(popped))
                 [] m.res \in {"final", "retry", "mismatch", "rollback"} ->
                      HandleUploadError(t, popped, m.res, m.srv)
                 [] m.res = "published" -> Complete
                 [] OTHER -> IF good.acked >= Chunks THEN MaybeResendLastChunk(good)
                             ELSE Pump(t, [good EXCEPT !.phase = "active"])

(* Mutant: an old 1508 stops the clock of the proof.                       *)
StopsClock(r) == Do([r EXCEPT !.asked = FALSE], <<>>)

(* A 1508 that comes while a proof is awaited answers an older 1507.       *)
LateProgress(r) == Do(r, <<>>)

(* HandleProgressRsp: 1508; with a challenge, SendInstantProof: 1513.      *)
HandleProgressRsp(t, r, m) ==
  LET q == [r EXCEPT !.asked = FALSE]
      here == [q EXCEPT !.acked = m.srv, !.wire = m.srv, !.phase = "active"]
      plain == [here EXCEPT !.jsonErrors = 0, !.publishErrors = 0]
  IN CASE r.proof -> LateProgress(r)
       [] ~r.proof /\ m.res \in {"final", "retry", "bad"} ->
            HandleUploadError(t, q, m.res, r.acked)
       [] ~r.proof /\ m.res = "published" -> Complete
       [] OTHER ->
          IF r.paused THEN Do(here, <<>>)
          ELSE IF m.res = "proof" /\ ~r.noProof
          THEN Do([RollbackUploadTo(here, here.acked) EXCEPT !.publishErrors = 0,
                     !.phase = "querying", !.proof = TRUE, !.asked = TRUE],
                  <<Frame("prove", 0)>>)
          ELSE IF m.srv >= Chunks THEN MaybeResendLastChunk(plain)
          ELSE Pump(t, plain)

(* HandleInstantProofRsp: 1514, only while a proof is awaited.             *)
HandleInstantProofRsp(t, r, m) ==
  LET q == [r EXCEPT !.proof = FALSE, !.asked = FALSE]
  IN CASE ~r.proof -> Do(r, <<>>)
       [] r.proof /\ m.res = "published" -> Complete
       [] r.proof /\ m.res = "invalid" -> ResyncUpload(t, [q EXCEPT !.noProof = TRUE])
       [] OTHER -> HandleUploadError(t, q, m.res, r.acked)

-----------------------------------------------------------------------------
(* Downloads. The bytes of "<dest>.part" come and go with the runtime: p   *)
(* is the list of the chunks in it.                                        *)

Keep(t, p, d) == [r |-> d.r, out |-> d.out, part |-> p]

(* OpenDownloadPart: the last chunk may be incomplete and is dropped; the  *)
(* running hash is only good for a file written from its start.            *)
OpenDownloadPart(t, r, p) ==
  LET resume == IF Len(p) > 0 THEN Len(p) - 1 ELSE 0
  IN Keep(t, SubSeq(p, 1, resume),
          Pump(t, [r EXCEPT !.acked = resume, !.wire = resume, !.inflight = <<>>,
                            !.stale = <<>>, !.phase = "active",
                            !.hashed = IF resume = 0 THEN 0 ELSE Chunks + 1]))

(* HandleDownInfoRsp: 1510.                                                *)
HandleDownInfoRsp(t, r, p, m) ==
  LET q == [r EXCEPT !.asked = FALSE]
  IN CASE m.res = "final" -> Keep(t, p, Fail)
       [] m.res = "bad" -> Keep(t, p, BadAnswer(q, ScheduleBackoff(q)))
       [] m.res = "retry" -> Keep(t, p, Do(ScheduleBackoff(q), <<>>))
       [] OTHER -> OpenDownloadPart(t, [q EXCEPT !.jsonErrors = 0], p)

(* FinishDownload: the whole hash is the running one, or the file's.       *)
FinishDownload(t, r, p) ==
  IF r.hashed = Chunks \/ (r.hashed > Chunks /\ p = Whole)
  THEN Keep(t, p, Complete)
  ELSE Keep(t, <<>>, Fail)

(* A chunk is written at its offset.                                       *)
WriteChunk(p, i) == IF i < Len(p) THEN [p EXCEPT ![i + 1] = i] ELSE Append(p, i)

(* The chunk at the head of the window arrived.                            *)
TakeChunk(t, r, p, m) ==
  LET popped == [r EXCEPT !.inflight = Tail(@)]
      got == [popped EXCEPT !.jsonErrors = 0, !.chunkErrors = 0, !.acked = m.at + 1,
                !.hashed = IF r.hashed = m.at THEN m.at + 1 ELSE Chunks + 1]
      written == WriteChunk(p, m.at)
      again == [popped EXCEPT !.chunkErrors = @ + 1, !.inflight = <<>>, !.wire = m.at,
                              !.stale = r.stale \o popped.inflight]
  IN IF m.res = "corrupt" \/ m.at # r.acked
     THEN IF r.chunkErrors + 1 >= RetryLimit THEN Keep(t, p, Fail)
          ELSE Keep(t, p, Pump(t, again))
     ELSE IF got.acked >= Chunks THEN FinishDownload(t, got, written)
     ELSE Keep(t, written, Pump(t, got))

(* HandleChunkDownRsp: 1512.                                               *)
HandleChunkDownRsp(t, r, p, m) ==
  CASE r.phase = "querying" /\ r.inflight = <<>> /\ r.stale = <<>> ->
         Keep(t, p, Do(r, <<>>))
    [] r.stale # <<>> /\ m.at = Head(r.stale) ->
         Keep(t, p, Do([r EXCEPT !.stale = Tail(@)], <<>>))
    [] OTHER ->
       CASE m.res = "final" -> Keep(t, p, Fail)
         [] m.res = "rollback" ->
              Keep(t, p, Do(ScheduleBackoff([r EXCEPT !.inflight = <<>>, !.stale = <<>>,
                                                      !.wire = r.acked]), <<>>))
         [] m.res = "bad" -> Keep(t, p, BadAnswer(r, ScheduleBackoff(r)))
         [] m.res = "retry" -> Keep(t, p, Do(ScheduleBackoff(r), <<>>))
         [] OTHER ->
            IF r.inflight # <<>> /\ m.at = Head(r.inflight) THEN TakeChunk(t, r, p, m)
            ELSE IF r.inflight = <<>> /\ r.stale = <<>> /\ m.at < r.wire
            THEN Keep(t, p, Do(r, <<>>))
            ELSE Keep(t, p, Do(ScheduleBackoff(r), <<>>))

-----------------------------------------------------------------------------
(* Slots. A table is the runtimes, the queues and the requests together.   *)

Table == [tr |-> tr, wait |-> wait, req |-> req]

(* What d decided for t; frames on a dead connection are lost.             *)
Put(T, t, d) ==
  [T EXCEPT !.tr[t] = d.r, !.req[t] = IF link = "up" THEN @ \o d.out ELSE @]

CanHaveSlot(T, t) ==
  T.tr[t].phase # "none" /\ ~Final(T.tr[t]) /\ ~T.tr[t].slot /\ ~T.tr[t].paused

(* PromoteWaiting, one turn of its loop: a free slot goes to the first     *)
(* that waits and is not paused; entries passed on the way that wait for   *)
(* nothing any more are dropped.                                           *)
PromoteFirst(T, dir) ==
  LET w == T.wait[dir]
      able == {i \in DOMAIN w : CanHaveSlot(T, w[i])}
      first == CHOOSE i \in able : \A j \in able : i <= j
      Waits(t) == ~Final(T.tr[t]) /\ ~T.tr[t].slot
      kept(s) == SelectSeq(s, Waits)
  IN IF w = <<>> \/ ActiveCount(T.tr, Head(w)) >= Slots(Head(w)) THEN T
     ELSE IF able = {} THEN [T EXCEPT !.wait[dir] = kept(w)]
     ELSE Put([T EXCEPT !.wait[dir] = kept(SubSeq(w, 1, first - 1))
                                        \o SubSeq(w, first + 1, Len(w))],
              w[first], BeginQuery(w[first], [T.tr[w[first]] EXCEPT !.slot = TRUE]))

PromoteWaiting(T, dir) ==
  FoldLeft(LAMBDA S, i : PromoteFirst(S, dir), T,
           [i \in 1..(IF dir = "up" THEN UploadSlots ELSE DownloadSlots) |-> i])

(* CompleteTransfer and FailTransfer end with PromoteWaiting.              *)
Settle(t, d) ==
  LET T == Put(Table, t, d)
  IN IF Final(d.r) THEN PromoteWaiting(T, Direction(t)) ELSE T

Becomes(T) == tr' = T.tr /\ wait' = T.wait /\ req' = T.req

Expected(t) == tr[t].stale \o tr[t].inflight

(* The chunks of an upload that are still to be answered, oldest first.    *)
Outstanding(t) ==
  LET Chunk(m) == m.k = "chunk"
      rs == SelectSeq(rsp[t], Chunk)
      qs == SelectSeq(req[t], Chunk)
  IN [i \in DOMAIN rs |-> rs[i].at] \o [i \in DOMAIN qs |-> qs[i].at]

-----------------------------------------------------------------------------
(* What the program asks of the engine.                                    *)

(* StartUpload, StartDownload. A transfer that is still live is left as it *)
(* is; one that ended may be started again.                                *)
Start(t) ==
  LET r == [NewRuntime EXCEPT !.phase = "queued", !.forgot = Outstanding(t) # <<>>]
      T == [Table EXCEPT !.tr[t] = r]
  IN /\ \E S \in Together : {t} \cup {x \in Transfers : tr[x].phase # "none"} \subseteq S
     /\ \/ tr[t].phase = "none" /\ UNCHANGED faults
        \/ tr[t].phase = "failed" /\ Fault("again")
     /\ Becomes(IF ActiveCount(T.tr, t) >= Slots(t)
                THEN [T EXCEPT !.wait[Direction(t)] = Append(@, t)]
                ELSE Put(T, t, BeginQuery(t, [r EXCEPT !.slot = TRUE])))
     /\ UNCHANGED <<disk, link, rsp, server>>

PauseTransfer(t) ==
  /\ Live(t) /\ ~tr[t].paused
  /\ Fault("pause")
  /\ tr' = [tr EXCEPT ![t].paused = TRUE]
  /\ UNCHANGED <<wait, disk, link, req, rsp, server>>

ResumeTransfer(t) ==
  LET r == [tr[t] EXCEPT !.paused = FALSE]
  IN /\ Live(t) /\ tr[t].paused
     /\ Becomes(IF ~r.slot THEN PromoteWaiting([Table EXCEPT !.tr[t] = r], Direction(t))
                ELSE Put(Table, t, IF t \in Uploads THEN ResyncUpload(t, r)
                                   ELSE BeginQuery(t, r)))
     /\ UNCHANGED <<disk, link, rsp, server, faults>>

-----------------------------------------------------------------------------
(* Answers and the clock.                                                  *)

(* OnFrame: the answer at the head goes to its transfer, if it is live.    *)
OnFrame(t) ==
  LET m == Head(rsp[t])
      r == tr[t]
      d == CASE m.k = "chunk" -> HandleChunkUploadRsp(t, r, m)
             [] m.k = "progress" -> HandleProgressRsp(t, r, m)
             [] OTHER -> HandleInstantProofRsp(t, r, m)
      e == IF m.k = "info" THEN HandleDownInfoRsp(t, r, disk[t], m)
           ELSE HandleChunkDownRsp(t, r, disk[t], m)
  IN /\ rsp[t] # <<>>
     /\ rsp' = [rsp EXCEPT ![t] = Tail(@)]
     /\ IF ~Live(t) THEN UNCHANGED <<tr, wait, req, disk>>
        ELSE IF t \in Uploads THEN Becomes(Settle(t, d)) /\ UNCHANGED disk
        ELSE Becomes(Settle(t, Do(e.r, e.out))) /\ disk' = [disk EXCEPT ![t] = e.part]
     /\ UNCHANGED <<link, server, faults>>

(* OnTick: a back-off ends.                                                *)
BackoffEnds(t) ==
  /\ tr[t].phase = "backoff" /\ up
  /\ Becomes(Put(Table, t, BeginQuery(t, tr[t])))
  /\ UNCHANGED <<disk, link, rsp, server, faults>>

(* OnConnectionDown.                                                       *)
Dropped(r) ==
  [r EXCEPT !.inflight = <<>>, !.stale = <<>>, !.wire = r.acked, !.asked = FALSE,
            !.proof = FALSE, !.forgot = FALSE]

NoFrames == [t \in Transfers |-> <<>>]

OnConnectionDown ==
  /\ link' = "down"
  /\ tr' = [t \in Transfers |-> IF Live(t) THEN Dropped(tr[t]) ELSE tr[t]]
  /\ req' = NoFrames /\ rsp' = NoFrames

(* A challenge is bound to the connection it was given on.                 *)
ChallengesLost == server' = [u \in Uploads |-> [server[u] EXCEPT !.challenge = FALSE]]

(* OnTick and HandleTimeout: the answer at the head of the window, or to   *)
(* a query, did not come. It may still be on its way.                      *)
HandleTimeout(t) ==
  LET r == tr[t]
  IN /\ \/ r.phase = "active" /\ r.inflight # <<>>
        \/ r.phase = "querying" /\ r.asked
     /\ \/ (link = "dead" \/ (req[t] = <<>> /\ rsp[t] = <<>>)) /\ UNCHANGED faults
        \/ link = "up" /\ Fault("slow")
     /\ IF r.paused
        THEN /\ tr' = [tr EXCEPT ![t] = [Dropped(r) EXCEPT !.proof = r.proof, !.forgot = TRUE]]
             /\ UNCHANGED <<link, req, rsp, server>>
        ELSE OnConnectionDown /\ ChallengesLost
     /\ UNCHANGED <<wait, disk>>

(* OnConnectionAuthenticated.                                              *)
OnConnectionAuthenticated ==
  LET asks(t) == tr[t].slot /\ Live(t) /\ ~tr[t].paused
  IN /\ link = "down"
     /\ link' = "up"
     /\ tr' = [t \in Transfers |-> IF asks(t) THEN Query(t, tr[t]).r ELSE tr[t]]
     /\ req' = [t \in Transfers |-> IF asks(t) THEN Query(t, tr[t]).out ELSE <<>>]
     /\ UNCHANGED <<wait, disk, rsp, server, faults>>

(* The connection is cut, and the client is told.                          *)
Cut ==
  /\ up /\ Fault("cut")
  /\ OnConnectionDown /\ ChallengesLost
  /\ UNCHANGED <<wait, disk>>

(* The connection dies, and nobody is told.                                *)
Dies ==
  /\ link = "up" /\ Fault("dead")
  /\ link' = "dead" /\ req' = NoFrames /\ rsp' = NoFrames
  /\ UNCHANGED <<tr, wait, disk, server>>

(* Reset at a log-out, or the program ends: then a chunk just written may  *)
(* be incomplete. What is completed is not asked for again.                *)
Reset ==
  /\ \/ Fault("logout") /\ UNCHANGED disk
     \/ /\ Fault("quit")
        /\ disk' = [d \in Downloads |-> IF disk[d] = <<>> \/ tr[d].phase = "completed"
                                        THEN disk[d] ELSE Append(Front(disk[d]), Chunks)]
  /\ tr' = [t \in Transfers |-> IF tr[t].phase = "completed" THEN tr[t] ELSE NewRuntime]
  /\ wait' = [d \in {"up", "down"} |-> <<>>]
  /\ link' = "down" /\ req' = NoFrames /\ rsp' = NoFrames
  /\ ChallengesLost

-----------------------------------------------------------------------------
(* ResourceServer, as far as the engine can tell: see ResourceUpload for   *)
(* what is behind these answers.                                           *)

Answer(m, e, i) == [k |-> m.k, at |-> m.at, res |-> e, srv |-> i]

(* A chunk is appended, known already, or too far on; the last one         *)
(* publishes the message.                                                  *)
ServeChunk(s, m) ==
  LET got == IF m.at = s.received THEN m.at + 1 ELSE s.received
      now == [s EXCEPT !.challenge = FALSE, !.noProof = TRUE, !.received = got]
  IN CASE s.status = "published" -> [s |-> s, a |-> Answer(m, "published", Chunks)]
       [] s.status = "failed" -> [s |-> s, a |-> Answer(m, "final", 0)]
       [] s.status = "pending" /\ m.at > s.received ->
            [s |-> now, a |-> Answer(m, "rollback", s.received)]
       [] s.status = "pending" /\ m.at <= s.received /\ got < Chunks ->
            [s |-> now, a |-> Answer(m, "pending", got)]
       [] OTHER -> [s |-> [now EXCEPT !.status = "published"],
                    a |-> Answer(m, "published", got)]

(* A challenge is only given to an upload that has sent nothing.           *)
ServeProgress(t, s, m) ==
  LET offer == t \in Known /\ s.received = 0 /\ ~s.noProof
  IN CASE s.status = "published" -> [s |-> s, a |-> Answer(m, "published", Chunks)]
       [] s.status = "failed" -> [s |-> s, a |-> Answer(m, "final", 0)]
       [] OTHER -> [s |-> [s EXCEPT !.challenge = @ \/ offer],
                    a |-> Answer(m, IF offer THEN "proof" ELSE "pending", s.received)]

ServeProof(s, m) ==
  CASE s.status = "published" -> [s |-> s, a |-> Answer(m, "published", Chunks)]
    [] s.status = "failed" -> [s |-> s, a |-> Answer(m, "final", 0)]
    [] s.status = "pending" /\ s.challenge ->
         [s |-> [s EXCEPT !.challenge = FALSE, !.status = "published"],
          a |-> Answer(m, "published", Chunks)]
    [] OTHER -> [s |-> s, a |-> Answer(m, "invalid", 0)]

Serve(t, s, m) ==
  CASE m.k = "chunk" -> ServeChunk(s, m)
    [] m.k = "progress" -> ServeProgress(t, s, m)
    [] OTHER -> ServeProof(s, m)

Gives(t, s, a) ==
  /\ server' = [server EXCEPT ![t] = s]
  /\ rsp' = [rsp EXCEPT ![t] = Append(@, a)]

(* The chunk with which CompleteResourceUpload is tried.                   *)
LastChunk(s, m) ==
  m.k = "chunk" /\ m.at = Chunks - 1 /\ s.received >= m.at /\ s.status = "pending"

(* What can go wrong on the way: something is busy or its outcome unknown, *)
(* the answer makes no sense, a new chunk, a repeated one on the disk or   *)
(* the whole file does not have its hash, the proof is wrong, the week is  *)
(* over.                                                                   *)
Trouble(t, s, m) ==
  \/ Fault("retry") /\ Gives(t, s, Answer(m, "retry", 0))
  \/ Fault("bad") /\ Gives(t, s, Answer(m, "bad", 0))
  \/ /\ LastChunk(s, m) /\ Fault("retry")
     /\ Gives(t, [s EXCEPT !.received = Chunks], Answer(m, "retry", Chunks))
  \/ /\ m.k = "chunk" /\ m.at <= s.received /\ s.status = "pending"
     /\ Fault("rollback")
     /\ Gives(t, [s EXCEPT !.received = m.at], Answer(m, "rollback", m.at))
  \/ /\ LastChunk(s, m) /\ Fault("mismatch")
     /\ Gives(t, [s EXCEPT !.received = 0], Answer(m, "mismatch", 0))
  \/ /\ m.k = "prove" /\ s.status = "pending"
     /\ Fault("proof")
     /\ Gives(t, [s EXCEPT !.challenge = FALSE, !.noProof = TRUE],
              Answer(m, "invalid", 0))
  \/ /\ s.status = "pending"
     /\ Fault("expire")
     /\ Gives(t, [s EXCEPT !.status = "failed", !.received = 0], Answer(m, "final", 0))

ServeUpload(t) ==
  LET m == Head(req[t])
      o == Serve(t, server[t], m)
  IN /\ link = "up" /\ req[t] # <<>>
     /\ req' = [req EXCEPT ![t] = Tail(@)]
     /\ \/ Gives(t, o.s, o.a) /\ UNCHANGED faults
        \/ Trouble(t, server[t], m)
     /\ UNCHANGED <<tr, wait, disk, link>>

ServeDownload(t) ==
  LET m == Head(req[t])
      Answers(e) == rsp' = [rsp EXCEPT ![t] = Append(@, Answer(m, e, 0))]
  IN /\ link = "up" /\ req[t] # <<>>
     /\ req' = [req EXCEPT ![t] = Tail(@)]
     /\ \/ Answers("ok") /\ UNCHANGED faults
        \/ Fault("retry") /\ Answers("retry")
        \/ Fault("bad") /\ Answers("bad")
        \/ Fault("expire") /\ Answers("final")
        \/ m.k = "get" /\ Fault("rollback") /\ Answers("rollback")
        \/ m.k = "get" /\ Fault("mismatch") /\ Answers("corrupt")
     /\ UNCHANGED <<tr, wait, disk, link, server>>

(* The server is restarted, and counts again from what is on its disk.     *)
Crash ==
  /\ up /\ Fault("crash")
  /\ OnConnectionDown
  /\ \E lost \in {0, 1} :
       server' = [u \in Uploads |->
         [server[u] EXCEPT !.challenge = FALSE, !.noProof = FALSE,
            !.received = IF server[u].status = "pending" /\ @ >= lost THEN @ - lost ELSE @]]
  /\ UNCHANGED <<wait, disk>>

-----------------------------------------------------------------------------
Next ==
  \/ \E t \in Transfers :
       \/ Start(t) \/ PauseTransfer(t) \/ ResumeTransfer(t)
       \/ OnFrame(t) \/ BackoffEnds(t) \/ HandleTimeout(t)
  \/ \E u \in Uploads : ServeUpload(u)
  \/ \E d \in Downloads : ServeDownload(d)
  \/ OnConnectionAuthenticated \/ Cut \/ Dies \/ Crash \/ Reset

Spec == Init /\ [][Next]_vars

(* The client's timer runs, frames are delivered and served, and the       *)
(* client connects again for as long as it is logged in. No step of these  *)
(* has to be preferred to another.                                         *)
Works ==
  /\ faults' = faults
  /\ \/ \E t \in Transfers : OnFrame(t) \/ BackoffEnds(t) \/ HandleTimeout(t)
     \/ \E u \in Uploads : ServeUpload(u)
     \/ \E d \in Downloads : ServeDownload(d)
     \/ OnConnectionAuthenticated

FairSpec == Spec /\ WF_vars(Works)

-----------------------------------------------------------------------------
Phases == {"none", "queued", "querying", "backoff", "active", "completed", "failed"}

(* The runtimes have their types; a window never holds more chunks than    *)
(* Pump and the one repeated last chunk allow, and there are never more    *)
(* transfers with a slot than slots (ActiveCount, PromoteWaiting).         *)
TypeOK ==
  /\ \A t \in Transfers :
       /\ tr[t].phase \in Phases
       /\ tr[t].acked \in 0..Chunks /\ tr[t].wire \in 0..Chunks
       /\ Len(tr[t].inflight) <= Window + 1
       /\ ActiveCount(tr, t) <= Slots(t)
       /\ tr[t].chunkErrors < RetryLimit /\ tr[t].jsonErrors < JsonLimit
       /\ tr[t].publishErrors <= RetryLimit
  /\ \A d \in Downloads : disk[d] \in Seq(0..Chunks) /\ Len(disk[d]) <= Chunks
  /\ link \in {"up", "dead", "down"} /\ faults \in 0..MaxFaults

(* A transfer that says it is complete is: the message of an upload is     *)
(* published, the file of a download is the file. Late, repeated and stale *)
(* answers, pauses and new connections do not make it otherwise.  Stated   *)
(* together with the types.                                                *)
CompletedIsTrue ==
  /\ TypeOK
  /\ \A t \in Transfers : tr[t].phase = "completed" =>
       IF t \in Uploads THEN server[t].status = "published" ELSE disk[t] = Whole

(* An upload expects exactly the answers that are still to come, in their  *)
(* order, whatever it rolled back, repeated or asked again: a late answer  *)
(* is never taken for the answer to a later chunk at the same place        *)
(* (RollbackUploadTo, BeginQuery and stale_offsets). One that was started  *)
(* again, or ran into a time-out while it was paused, forgot older ones.   *)
AnswersAccounted ==
  \A u \in Uploads : Live(u) /\ link = "up" =>
    IF tr[u].forgot THEN IsSuffix(Expected(u), Outstanding(u))
    ELSE Expected(u) = Outstanding(u)

(* Every transfer that is started ends, unless it is paused, or one of its *)
(* direction keeps a slot while it is paused, or all are forgotten at a    *)
(* log-out: there is always a later moment when none is under way.         *)
TransferSettles ==
  []<>(\A t \in Transfers :
         Live(t) => \E x \in Transfers : tr[x].paused /\ Direction(x) = Direction(t))
=============================================================================
