------------------------------ MODULE Sessions ------------------------------
(***************************************************************************)
(* The connections of ChatServer and of ResourceServer: CSession over      *)
(* SessionLifecycle, the connection table of CServer, the workers that run *)
(* the requests, and the order in which main() stops all of them.          *)
(*                                                                         *)
(* Every session has an IO thread, which runs the closures other threads   *)
(* post to it and the callbacks of its reads, writes and timer, one at a   *)
(* time. The logic workers are one FIFO queue, the workers behind them     *)
(* (delivery in ChatServer, file and download in ResourceServer) another.  *)
(* Accepts, the heartbeat sweep and the signal handler share the main      *)
(* thread. `kind' says which of the two servers runs.                      *)
(***************************************************************************)
EXTENDS Naturals, Sequences, FiniteSets, Functions

CONSTANTS Sessions,   \* connections that may be accepted
          Kinds,      \* a subset of {"chat", "resource"}
          QueueLimit, \* MAX_SENDQUE of ChatServer
          SendLimit,  \* kMaxSendQueFrames of ResourceServer
          TaskLimit,  \* kMaxSessionInflightTaskBytes, in frames
          MaxReads,   \* frames the clients send
          MaxFaults,  \* faults and outside events in a behaviour
          Faults      \* their kinds

ASSUME SessionsAssumption ==
  Kinds \subseteq {"chat", "resource"} /\ SendLimit \in Nat /\ TaskLimit \in Nat

VARIABLES kind,
          ses,        \* the CSession objects
          table,      \* CServer::_sessions
          logic,      \* the logic workers: queue and running task
          second,     \* the queue of the workers behind them
          online,     \* sessions published in UserMgr and Redis
          stage,      \* how far main() has stopped the server
          toClose,    \* sessions_copy of CServer::Stop
          owed,       \* requests taken and not yet answered on an open socket
          unanswered, \* sessions with a request that gets no answer, by design
          refused,    \* a drained task found the next queue closed
          reads, faults

history == <<owed, unanswered, refused>>
vars == <<kind, ses, table, logic, second, online, stage, toClose, history, reads, faults>>

NewSession == [life |-> "open", sock |-> "none", read |-> FALSE, routed |-> FALSE,
               bound |-> FALSE, posted |-> <<>>, queue |-> <<>>, writing |-> FALSE,
               timer |-> FALSE, pending |-> 0, inflight |-> 0, closer |-> "none",
               got |-> "none"]

Idle == [q |-> <<>>, run |-> <<>>]

Init ==
  /\ kind \in Kinds
  /\ ses = [s \in Sessions |-> NewSession]
  /\ table = {} /\ online = {} /\ toClose = {}
  /\ logic = Idle /\ second = <<>>
  /\ stage = "run"
  /\ owed = [s \in Sessions |-> 0]
  /\ unanswered = {} /\ refused = FALSE
  /\ reads = 0
  /\ faults = 0

Fault(f) == f \in Faults /\ faults < MaxFaults /\ faults' = faults + 1

IsOpen(c) == c.life = "open"

\* The thread that won BeginClose is inside Close() until FinishClose.
Free(thread) == \A s \in Sessions : ses[s].closer # thread

IoBusy(s) == ses[s].closer = "io" \/ ses[s].got # "none"

IoFree(s) == stage # "stopped" /\ ~IoBusy(s) /\ ses[s].sock # "none"

Ingress == stage \in {"run", "closing"}

-----------------------------------------------------------------------------
(* CSession: what its methods do to the object.                            *)

\* BeginClose, under _send_lock and _lifecycle_mtx: one thread wins.
BeginClose(c, thread) ==
  IF c.life \in {"open", "draining"}
  THEN [c EXCEPT !.life = "closing", !.closer = thread] ELSE c

\* The closure of Close() on the IO thread. Reads and writes are cancelled.
CompleteClose(c) ==
  [c EXCEPT !.sock = "closed", !.life = "closed", !.read = FALSE, !.timer = FALSE]

Enqueue(c, f) == [c EXCEPT !.queue = Append(@, f), !.writing = TRUE]

\* ReleaseSendBudget, by the guard of a closure that queued nothing.
UnusedKept(c) == c

Unused(c) == IF kind = "resource" THEN [c EXCEPT !.pending = @ - 1] ELSE c

\* Send and SendAndClose on the caller's thread: ResourceServer reserves the
\* budget of the frame first, and closes when there is none.
Send(c, f, thread) ==
  IF kind = "chat" THEN [c EXCEPT !.posted = Append(@, f)]
  ELSE IF c.pending >= SendLimit THEN BeginClose(c, thread)
  ELSE [c EXCEPT !.posted = Append(@, f), !.pending = @ + 1]

\* The closure of Send on the IO thread. ChatServer drops at a full queue.
QueueFull(c) == kind = "chat" /\ Len(c.queue) > QueueLimit

RunSend(c, f) ==
  IF ~IsOpen(c) \/ c.sock = "closed" THEN Unused(c)
  ELSE IF QueueFull(c) THEN c
  ELSE Enqueue(c, f)

\* The closure of SendAndClose on the IO thread.
RunTerm(c) ==
  IF c.sock = "closed" THEN BeginClose(Unused(c), "io")
  ELSE IF ~IsOpen(c) THEN Unused(c)
  ELSE Enqueue([c EXCEPT !.life = "draining", !.timer = TRUE], "term")

\* Frames still to be written are forgotten and their budget returned.
ClearSendQueue(c) == [c EXCEPT !.queue = <<>>, !.pending = @ - Len(c.queue)]

\* HandleWrite: the next frame, or the end of a drained session.
HandleWrite(c) ==
  LET popped == [c EXCEPT !.queue = Tail(@), !.writing = Len(c.queue) > 1,
                          !.pending = IF kind = "resource" THEN @ - 1 ELSE @]
  IN  IF popped.queue = <<>> /\ c.life = "draining" THEN BeginClose(popped, "io") ELSE popped

HandleWriteError(c) ==
  LET ended == [c EXCEPT !.writing = FALSE]
  IN  BeginClose(IF kind = "resource" THEN ClearSendQueue(ended) ELSE ended, "io")

\* TrySetUserId, TrySetAuth: once, and only while open.
TrySetUserId(c) == [c EXCEPT !.bound = IsOpen(c) \/ @]

-----------------------------------------------------------------------------
(* The main thread: accept, heartbeat sweep.                               *)

\* StartAccept makes the session object: connections are interchangeable.
HandleAccept(s) ==
  /\ stage = "run" /\ Free("main") /\ ses[s].sock = "none"
  /\ s = CHOOSE x \in Sessions : ses[x].sock = "none"
  /\ ses' = [ses EXCEPT ![s].sock = "open", ![s].posted = <<"start">>]
  /\ table' = table \union {s}
  /\ UNCHANGED <<kind, logic, second, online, stage, toClose, history, reads, faults>>

\* on_timer: a session whose client was silent for too long.
HeartbeatExpired(s) ==
  /\ kind = "chat" /\ stage = "run" /\ Free("main") /\ s \in table /\ IsOpen(ses[s])
  /\ Fault("silent")
  /\ ses' = [ses EXCEPT ![s] = BeginClose(@, "main")]
  /\ UNCHANGED <<kind, table, logic, second, online, stage, toClose, history, reads>>

-----------------------------------------------------------------------------
(* Close() after BeginClose, on whatever thread: the socket on the IO      *)
(* thread, the connection table, and the presence of a bound user through  *)
(* its logic worker or, when that takes no more tasks, at once. The login  *)
(* holds the lock of the user from the bind to the published keys.         *)

Publishing(s) == logic.run # <<>> /\ Head(logic.run) = <<"publish", s>>

FinishClose(s) ==
  LET c == [ses[s] EXCEPT !.closer = "none"]
      cleanup == kind = "chat" /\ c.bound
  IN  /\ ses[s].closer # "none"
      /\ ses' = [ses EXCEPT ![s] =
                   IF ses[s].closer = "io" THEN CompleteClose(c)
                   ELSE [c EXCEPT !.posted = Append(@, "close")]]
      /\ table' = table \ {s}
      /\ owed' = [owed EXCEPT ![s] = 0]
      /\ \/ ~cleanup /\ UNCHANGED <<logic, online>>
         \/ cleanup /\ Ingress
            /\ logic' = [logic EXCEPT !.q = Append(@, <<"cleanup", s>>)] /\ UNCHANGED online
         \/ cleanup /\ ~Ingress /\ ~Publishing(s)
            /\ online' = online \ {s} /\ UNCHANGED logic
      /\ UNCHANGED <<kind, second, stage, toClose, unanswered, refused, reads, faults>>

-----------------------------------------------------------------------------
(* The IO thread of a session.                                             *)

RunPosted(s) ==
  LET c == [ses[s] EXCEPT !.posted = Tail(@)]
      op == Head(ses[s].posted)
  IN  /\ IoFree(s) /\ ses[s].posted # <<>>
      /\ ses' = [ses EXCEPT ![s] =
                   CASE op = "start" -> [c EXCEPT !.read = IsOpen(c)]
                     [] op = "close" -> CompleteClose(c)
                     [] op = "term"  -> RunTerm(c)
                     [] op \in {"rsp", "push"} -> RunSend(c, op)
                     [] OTHER        -> c]
      /\ unanswered' = IF op = "rsp" /\ IsOpen(c) /\ QueueFull(c)
                       THEN unanswered \union {s} ELSE unanswered
      /\ UNCHANGED <<kind, table, logic, second, online, stage, toClose, owed, refused,
                     reads, faults>>

\* AsyncReadHead and AsyncReadBody up to the check that the session is open:
\* a frame with a bad head, a login (of the uid the connection is routed by, or
\* of another), a request. The rest of the callback follows in PostMsgToQue.
AsyncRead(s, f) ==
  /\ IoFree(s) /\ ses[s].read /\ ses[s].sock = "open" /\ reads < MaxReads
  /\ IF f \in {"bad", "other"} THEN Fault("badFrame") ELSE UNCHANGED faults
  /\ reads' = reads + 1
  /\ ses' = [ses EXCEPT ![s].read = FALSE, ![s].got = IF IsOpen(ses[s]) THEN f ELSE "none"]
  /\ UNCHANGED <<kind, table, logic, second, online, stage, toClose, history>>

\* ChatServer: routed by uid, or refused with a last frame.
ChatRead(s, f) ==
  LET c == [ses[s] EXCEPT !.got = "none", !.routed = @ \/ f = "login"]
      more == [c EXCEPT !.read = TRUE]
  IN  IF f = "bad" \/ (f = "request" /\ ~c.routed)
      THEN ses' = [ses EXCEPT ![s] = BeginClose(c, "io")] /\ UNCHANGED <<logic, owed>>
      ELSE IF f = "other" \/ ~Ingress
      THEN ses' = [ses EXCEPT ![s] = Send(c, "term", "io")] /\ UNCHANGED <<logic, owed>>
      ELSE /\ ses' = [ses EXCEPT ![s] = more]
           /\ logic' = [logic EXCEPT !.q = Append(@, <<f, s>>)]
           /\ owed' = [owed EXCEPT ![s] = @ + 1]

\* ResourceServer: the frame counts against the session until its task is
\* gone; a stopping worker drops the task, and the count with it.
ResourceRead(s, f) ==
  LET c == [ses[s] EXCEPT !.got = "none"]
  IN  IF f \in {"bad", "other"} \/ c.inflight >= TaskLimit
      THEN ses' = [ses EXCEPT ![s] = BeginClose(c, "io")] /\ UNCHANGED <<logic, owed>>
      ELSE /\ ses' = [ses EXCEPT ![s] = [c EXCEPT !.read = TRUE,
                                                  !.inflight = IF Ingress THEN @ + 1 ELSE @]]
           /\ logic' = IF Ingress THEN [logic EXCEPT !.q = Append(@, <<f, s>>)] ELSE logic
           /\ owed' = [owed EXCEPT ![s] = @ + 1]

PostMsgToQue(s) ==
  /\ ses[s].got # "none"
  /\ IF kind = "chat" THEN ChatRead(s, ses[s].got) ELSE ResourceRead(s, ses[s].got)
  /\ UNCHANGED <<kind, table, second, online, stage, toClose, unanswered, refused, reads, faults>>

ioFrame == <<kind, table, logic, second, online, stage, toClose, unanswered, refused, reads>>

\* The connection breaks under a read.
ReadError(s) ==
  /\ IoFree(s) /\ ses[s].read /\ ses[s].sock = "open" /\ Fault("cut")
  /\ ses' = [ses EXCEPT ![s] = BeginClose([@ EXCEPT !.read = FALSE], "io")]
  /\ UNCHANGED <<ioFrame, owed>>

WriteDone(s) ==
  /\ IoFree(s) /\ ses[s].writing /\ ses[s].sock = "open"
  /\ ses' = [ses EXCEPT ![s] = HandleWrite(@)]
  /\ owed' = [owed EXCEPT ![s] = IF Head(ses[s].queue) = "rsp" /\ @ > 0 THEN @ - 1 ELSE @]
  /\ UNCHANGED <<ioFrame, faults>>

\* The connection breaks under a write, or Close() has cancelled it.
WriteError(s) ==
  /\ IoFree(s) /\ ses[s].writing
  /\ \/ ses[s].sock = "open" /\ Fault("cut")
     \/ ses[s].sock = "closed" /\ UNCHANGED faults
  /\ ses' = [ses EXCEPT ![s] = HandleWriteError(@)]
  /\ UNCHANGED <<ioFrame, owed>>

\* _drain_timer: the client does not read.
DrainTimeout(s) ==
  /\ IoFree(s) /\ ses[s].timer
  /\ ses' = [ses EXCEPT ![s] = BeginClose([@ EXCEPT !.timer = FALSE], "io")]
  /\ UNCHANGED <<ioFrame, owed, faults>>

-----------------------------------------------------------------------------
(* The workers. A task is <<what, session>>; run holds the running one.    *)

workerFrame == <<kind, table, stage, toClose, owed, reads>>

\* RunLoop: the next task; a request of a session that is no longer open is
\* dropped, and the quota token dies with it.
RunLoop ==
  LET t == Head(logic.q)
      s == t[2]
      drop == t[1] \in {"login", "request"} /\ ~IsOpen(ses[s])
  IN  /\ logic.run = <<>> /\ logic.q # <<>> /\ Free("logic")
      /\ logic' = [q |-> Tail(logic.q), run |-> IF drop THEN <<>> ELSE <<t>>]
      /\ ses' = IF drop /\ kind = "resource"
                THEN [ses EXCEPT ![s].inflight = @ - 1] ELSE ses
      /\ UNCHANGED <<workerFrame, second, online, unanswered, refused, faults>>

Task(what, s) == logic.run = <<<<what, s>>>> /\ Free("logic")

\* The quota token of a task of ResourceServer goes with its last holder.
Return(c) == IF kind = "resource" THEN [c EXCEPT !.inflight = @ - 1] ELSE c

TaskDone(s, c) == ses' = [ses EXCEPT ![s] = Return(c)] /\ logic' = [logic EXCEPT !.run = <<>>]

\* LoginHandler with the check of DispatchClientMessage before it, up to the
\* bind. A session that is not open any more gets its answer dropped.
LoginHandler(s) ==
  /\ Task("login", s) /\ kind = "chat"
  /\ \/ ses[s].bound /\ TaskDone(s, Send(ses[s], "term", "logic"))
     \/ ~ses[s].bound /\ TaskDone(s, Send(ses[s], "rsp", "logic"))
     \/ /\ ~ses[s].bound /\ IsOpen(ses[s])
        /\ ses' = [ses EXCEPT ![s] = TrySetUserId(@)]
        /\ logic' = [logic EXCEPT !.run = <<<<"publish", s>>>>]
  /\ UNCHANGED <<workerFrame, second, online, unanswered, refused, faults>>

Publish(s) ==
  /\ Task("publish", s)
  /\ online' = online \union {s}
  /\ TaskDone(s, Send(ses[s], "rsp", "logic"))
  /\ UNCHANGED <<workerFrame, second, unanswered, refused, faults>>

\* handleResourceLogin: refused or bound; a second login gets no answer.
handleResourceLogin(s) ==
  /\ Task("login", s) /\ kind = "resource"
  /\ \/ TaskDone(s, Send(ses[s], "rsp", "logic")) /\ UNCHANGED unanswered
     \/ /\ IsOpen(ses[s]) /\ ~ses[s].bound
        /\ TaskDone(s, Send(TrySetUserId(ses[s]), "rsp", "logic")) /\ UNCHANGED unanswered
     \/ /\ ~IsOpen(ses[s]) \/ ses[s].bound
        /\ TaskDone(s, ses[s]) /\ unanswered' = unanswered \union {s}
  /\ UNCHANGED <<workerFrame, second, online, refused, faults>>

\* PostDelivery, FileSystem::PostChunkToQue: refused once that queue stops.
SecondOpen == stage \in {"run", "closing", "logic"}

PostSecond(t) ==
  /\ second' = IF SecondOpen THEN Append(second, t) ELSE second
  /\ refused' = (refused \/ ~SecondOpen)

\* A request of ChatServer: an error without a bound user, else an answer,
\* and an event for another server through PostDelivery.
DispatchSilently(s) ==
  /\ Task("request", s) /\ kind = "chat"
  /\ TaskDone(s, IF ses[s].bound THEN Send(ses[s], "rsp", "logic") ELSE ses[s])
  /\ \/ UNCHANGED <<second, refused>>
     \/ ses[s].bound /\ PostSecond(<<"deliver", s>>)
  /\ UNCHANGED <<workerFrame, online, unanswered, faults>>

DispatchClientMessage(s) ==
  /\ Task("request", s) /\ kind = "chat"
  /\ TaskDone(s, Send(ses[s], "rsp", "logic"))
  /\ \/ UNCHANGED <<second, refused>>
     \/ ses[s].bound /\ PostSecond(<<"deliver", s>>)
  /\ UNCHANGED <<workerFrame, online, unanswered, faults>>

\* A request of ResourceServer: refused with a last frame before the login,
\* answered at once, or handed with its quota token to a file worker.
task_callback(s) ==
  /\ Task("request", s) /\ kind = "resource"
  /\ \/ /\ ~ses[s].bound /\ TaskDone(s, Send(ses[s], "term", "logic"))
        /\ UNCHANGED <<second, refused>>
     \/ /\ ses[s].bound /\ TaskDone(s, Send(ses[s], "rsp", "logic"))
        /\ UNCHANGED <<second, refused>>
     \/ /\ ses[s].bound /\ logic' = [logic EXCEPT !.run = <<>>]
        /\ PostSecond(<<"file", s>>)
        /\ ses' = IF SecondOpen THEN ses ELSE [ses EXCEPT ![s] = Return(@)]
  /\ UNCHANGED <<workerFrame, online, unanswered, faults>>

CleanupUserPresence(s) ==
  /\ Task("cleanup", s)
  /\ online' = online \ {s}
  /\ logic' = [logic EXCEPT !.run = <<>>]
  /\ UNCHANGED <<workerFrame, ses, second, unanswered, refused, faults>>

\* NotifyKickUser, NotifyUserMessage, DeliverUserEvent: another thread posts
\* to the user's worker, which sends the session its last frame or an event.
\* The RPC server stops before the workers.
PostToUser(s, what) ==
  /\ kind = "chat" /\ Ingress /\ s \in online /\ Fault(what)
  /\ logic' = [logic EXCEPT !.q = Append(@, <<what, s>>)]
  /\ UNCHANGED <<workerFrame, ses, second, online, unanswered, refused>>

NotifyUser(s, what) ==
  /\ Task(what, s)
  /\ ses' = IF s \in online
            THEN [ses EXCEPT ![s] = Send(@, IF what = "kick" THEN "term" ELSE "push", "logic")]
            ELSE ses
  /\ logic' = [logic EXCEPT !.run = <<>>]
  /\ UNCHANGED <<workerFrame, second, online, unanswered, refused, faults>>

\* A delivery; or a file task, which answers, or throws into RunGuarded.
SecondTask ==
  LET t == Head(second)
      s == t[2]
  IN  /\ second # <<>> /\ Free("second")
      /\ second' = Tail(second)
      /\ IF t[1] = "deliver" THEN UNCHANGED <<ses, unanswered, faults>>
         ELSE \/ /\ ses' = [ses EXCEPT ![s] = Return(Send(@, "rsp", "second"))]
                 /\ UNCHANGED <<unanswered, faults>>
              \/ /\ Fault("throw") /\ unanswered' = unanswered \union {s}
                 /\ ses' = [ses EXCEPT ![s] = Return(@)]
      /\ UNCHANGED <<workerFrame, logic, online, refused>>

-----------------------------------------------------------------------------
(* The signal handler of main(), on the main thread.                       *)

stopFrame == <<kind, table, logic, second, online, history, reads, faults>>

\* CServer::Stop: no more accepts, every registered session is closed.
StopServer ==
  /\ stage = "run" /\ Free("main") /\ "stop" \in Faults
  /\ stage' = "closing" /\ toClose' = table
  /\ UNCHANGED <<stopFrame, ses>>

StopWaitsForOthers(s) ==
  /\ stage = "closing" /\ s \in toClose /\ Free("main")
  /\ ses[s].life \in {"open", "draining"}
  /\ toClose' = toClose \ {s}
  /\ ses' = [ses EXCEPT ![s] = BeginClose(@, "main")]
  /\ UNCHANGED <<stopFrame, stage>>

StopClose(s) ==
  /\ stage = "closing" /\ s \in toClose /\ Free("main")
  /\ toClose' = toClose \ {s}
  /\ ses' = [ses EXCEPT ![s] = BeginClose(@, "main")]
  /\ UNCHANGED <<stopFrame, stage>>

\* LogicSystem::Stop, then the workers behind, each drained and joined.
StopAllAtOnce ==
  /\ stage = "closing" /\ toClose = {} /\ Free("main")
  /\ stage' = "second"
  /\ UNCHANGED <<stopFrame, ses, toClose>>

StopLogic ==
  /\ stage = "closing" /\ toClose = {} /\ Free("main")
  /\ stage' = "logic"
  /\ UNCHANGED <<stopFrame, ses, toClose>>

StopSecond ==
  /\ stage = "logic" /\ logic = Idle /\ Free("logic")
  /\ stage' = "second"
  /\ UNCHANGED <<stopFrame, ses, toClose>>

\* AsioIOServicePool::Drain: a barrier behind what the IO threads have to do.
Drain ==
  /\ stage = "second" /\ second = <<>> /\ Free("second")
  /\ stage' = "drain"
  /\ ses' = [s \in Sessions |-> IF ses[s].sock = "none" THEN ses[s]
                                ELSE [ses[s] EXCEPT !.posted = Append(@, "barrier")]]
  /\ UNCHANGED <<stopFrame, toClose>>

StopIo ==
  /\ stage = "drain" /\ \A s \in Sessions : "barrier" \notin Range(ses[s].posted)
  /\ stage' = "stopped"
  /\ UNCHANGED <<stopFrame, ses, toClose>>

-----------------------------------------------------------------------------
IoStep == \E s \in Sessions : RunPosted(s) \/ PostMsgToQue(s) \/ DrainTimeout(s) \/ FinishClose(s)

LogicStep ==
  \/ RunLoop
  \/ \E s \in Sessions : LoginHandler(s) \/ Publish(s) \/ handleResourceLogin(s)
       \/ DispatchClientMessage(s) \/ task_callback(s) \/ CleanupUserPresence(s)
       \/ NotifyUser(s, "kick") \/ NotifyUser(s, "push")

StopStep ==
  (\E s \in Sessions : StopClose(s)) \/ StopLogic \/ StopSecond \/ Drain \/ StopIo

Next ==
  \/ \E s \in Sessions :
       \/ HandleAccept(s) \/ HeartbeatExpired(s)
       \/ PostToUser(s, "kick") \/ PostToUser(s, "push")
       \/ \E f \in {"login", "request", "bad", "other"} : AsyncRead(s, f)
       \/ ReadError(s) \/ WriteDone(s) \/ WriteError(s)
  \/ IoStep \/ LogicStep \/ SecondTask \/ StopServer \/ StopStep

Spec == Init /\ [][Next]_vars

\* The threads of the server run while they have something to do, which is a
\* bounded number of steps; clients need neither send nor read.
FairSpec == Spec /\ WF_vars(IoStep \/ LogicStep \/ SecondTask \/ StopStep)

-----------------------------------------------------------------------------
Ops == {"start", "close", "term", "rsp", "push", "barrier"}
TaskNames == {"login", "request", "publish", "cleanup", "kick", "push"}

CSession ==
  [life : {"open", "draining", "closing", "closed"}, sock : {"none", "open", "closed"},
   read : BOOLEAN, routed : BOOLEAN, bound : BOOLEAN, posted : Seq(Ops),
   queue : Seq({"rsp", "push", "term"}), writing : BOOLEAN, timer : BOOLEAN,
   pending : 0..SendLimit, inflight : 0..TaskLimit,
   closer : {"none", "io", "logic", "second", "main"},
   got : {"none", "login", "request", "bad", "other"}]

TypeOK ==
  /\ kind \in Kinds
  /\ ses \in [Sessions -> CSession]
  /\ table \subseteq Sessions /\ online \subseteq Sessions /\ toClose \subseteq Sessions
  /\ logic.q \in Seq(TaskNames \X Sessions)
  /\ second \in Seq({"deliver", "file"} \X Sessions)
  /\ stage \in {"run", "closing", "logic", "second", "drain", "stopped"}

Count(seq, P) == Cardinality({i \in DOMAIN seq : seq[i] \in P})

Own(s) == {<<n, s>> : n \in {"login", "request", "file"}}

TasksOf(s) == Count(logic.q, Own(s)) + Count(logic.run, Own(s)) + Count(second, Own(s))

(* What a ResourceServer session is charged for is what it holds. Its send *)
(* budget is exactly the frames that wait for its IO thread or in its      *)
(* queue, whatever mix of full queues, failed writes, last frames and      *)
(* closes got it there; its task quota exactly its frames in the logic and *)
(* file queues, as the token of SessionTaskQuota goes with the task        *)
(* through both and dies once, also for a dropped or a throwing task.      *)
(* Stated together with the types.                                         *)
ChargesExact ==
  /\ TypeOK
  /\ kind = "resource" => \A s \in Sessions :
       /\ ses[s].pending = Len(ses[s].queue) + Count(ses[s].posted, {"rsp", "term"})
       /\ ses[s].inflight = TasksOf(s)

(* A session that is open and has nothing more to do has answered every    *)
(* request it took. The exceptions of the code are a ChatServer queue that *)
(* was full, a task of ResourceServer that threw, a repeated 1501.         *)
AnsweredOrClosed ==
  \A s \in Sessions :
    (/\ IsOpen(ses[s]) /\ ~IoBusy(s) /\ ses[s].posted = <<>> /\ ses[s].queue = <<>>
     /\ TasksOf(s) = 0 /\ logic.run # <<<<"publish", s>>>>)
    => owed[s] = 0 \/ s \in unanswered

(* A stop is clean. While the logic workers drain, the workers behind them *)
(* still take tasks (LogicSystem::Stop, FileSystem). When main() is past   *)
(* the IO pool every socket is closed, the connection table is empty and   *)
(* no user is left online, whoever closed the session and however far its  *)
(* login was.                                                              *)
StoppedIsClean ==
  /\ ~refused
  /\ stage = "stopped" =>
       /\ table = {} /\ online = {}
       /\ \A s \in Sessions : ses[s].sock # "none" => ses[s].life = "closed"

(* A stop that has begun comes to its end: no thread that main() joins     *)
(* waits for one that is already gone.                                     *)
StopEnds == stage = "closing" ~> stage = "stopped"
=============================================================================
