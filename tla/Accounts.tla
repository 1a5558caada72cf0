------------------------------ MODULE Accounts ------------------------------
(* Accounts: GateServer's HTTP connections, the bounded executor its handlers
   run on, the handlers for verification codes, registration, password reset,
   login and reassignment, VarifyServer behind the first, and the client's
   register dialog; composed with Directory, which serves the last two.

   A password is named by the connection that set it, 0 for the one there from
   the start; a verification code by its number, whose address is in issued. *)
EXTENDS Directory, Functions

CONSTANTS
  Emails, Names,  \* addresses and user names
  Workers,        \* threads of the executor
  Countdown       \* seconds the register dialog shows its success page

ASSUME WorkersAssumption == Workers \in Nat \ {0} /\ Countdown \in Nat
ASSUME NamesAssumption == Names # {} /\ Emails # {} /\ IsFiniteSet(Emails)

VARIABLES
  gate,         \* the process: "up", "draining" (LogicSystem::Stop), "stopped"
  con,          \* the HTTP connections
  queue,        \* HandlerExecutor: _task_que
  running,      \*   the tasks on a worker
  outstanding,  \*   _outstanding
  users,        \* the table users
  codes,        \* code_<email> in Redis
  issued,       \* history: the address of each code
  mailed,       \* the code in the last mail to each address
  varify,       \* the calls of GetVarifyCode, at most one for a connection
  dialog        \* the register dialog: its page and _countdown

gateVars == <<gate, con, queue, running, outstanding>>
dirData == <<chat, registry, lease, token, call, mix>>
dataVars == <<users, codes, issued, mailed, varify>>
vars == <<dirVars, gateVars, dataVars, dialog>>

NoRequest == [url |-> "none", email |-> None, name |-> None, code |-> 0, pwd |-> 0,
              token |-> 0, body |-> "good", mine |-> FALSE]

(* out is the answer made, got what the client sees.  during is history: the
   earlier connections whose work was still going on when this one came; hit
   records a database failure.                                              *)
NoCon == [st |-> "free", open |-> FALSE, req |-> NoRequest, pc |-> "none",
          out |-> "none", got |-> "none", during |-> {}, hit |-> FALSE]

NoVarify == [pc |-> "none", code |-> 0, error |-> "none"]

AccInit ==
  /\ gate = "up"
  /\ con = [c \in Conns |-> NoCon]
  /\ queue = <<>> /\ running = {} /\ outstanding = 0
  /\ users = {[uid |-> 1, name |-> CHOOSE n \in Names : TRUE,
               email |-> CHOOSE e \in Emails : TRUE, pwd |-> 0]}
  /\ issued = CHOOSE s \in [1 .. Cardinality(Emails) -> Emails] : Range(s) = Emails
  /\ codes = [e \in Emails |-> [code |-> CHOOSE k \in DOMAIN issued : issued[k] = e,
                                live |-> mix.kept, ttl |-> TRUE]]
  /\ mailed = [e \in Emails |-> codes[e].code]
  /\ varify = [c \in Conns |-> NoVarify]
  /\ dialog = [page |-> "form", left |-> Countdown]

Init == DirInit /\ AccInit

-----------------------------------------------------------------------------
(* The HTTP connection and the executor.                                   *)

Request(url, e, n, k, p, t, body) ==
  [url |-> url, email |-> e, name |-> n, code |-> k, pwd |-> p, token |-> t,
   body |-> body, mine |-> url = "register" /\ dialog.page = "form"]

AnEmail == CHOOSE e \in Emails : TRUE
AName == CHOOSE n \in Names : TRUE

\* What the client's dialogs and its reconnection send on connection c.
VarifyRequests == {Request("varify", e, None, 0, 0, 0, "good") : e \in Emails}
RegisterRequests(c) ==
  {Request("register", e, n, mailed[e], c, 0, "good") : e \in Emails, n \in Names}
ResetRequests(c) ==
  {Request("reset", e, n, mailed[e], c, 0, "good") : e \in Emails, n \in Names}
LoginRequests(c) == {Request("login", AnEmail, None, 0, p, 0, "good") : p \in 0..c}
ReassignRequests == {Request("reassign", None, None, 0, 0, t, "good") : t \in 1..Issued}

Requests(c) ==
  UNION {VarifyRequests, RegisterRequests(c), ResetRequests(c), LoginRequests(c), ReassignRequests}

(* What else may come: the test paths, a path there is not, a code that is not
   the address's, and bodies the dialogs do not send ("broken" is no JSON,
   "partial" lacks a field, "mismatch" has two different passwords).        *)
OddRequests(c) ==
  {Request(u, AnEmail, AName, 0, 0, 0, "good") : u \in {"procedure", "get_test", "unknown"}}
  \union {Request(u, AnEmail, n, mailed[e], c, 0, "good") :
            u \in {"register", "reset"}, n \in Names, e \in Emails \ {AnEmail}}
  \union {Request(u, AnEmail, AName, 0, 0, 1, b) :
            u \in {"varify", "register", "reset", "login", "reassign", "procedure"},
            b \in {"broken", "partial"}}
  \union {Request("register", AnEmail, AName, 0, 0, 0, "mismatch")}

\* Work for connection d is going on, in the Gate or behind it.
Unfinished(d) ==
  \/ con[d].st \notin {"free", "end"}
  \/ varify[d].pc \notin {"none", "done"}
  \/ call[d].pc \notin {"none", "done"}

\* CServer::Start and HttpConnection::Start.
Accept(c) ==
  /\ gate = "up"
  /\ con[c].st = "free"
  /\ \A d \in Conns : d < c => con[d].st # "free"
  /\ con' = [con EXCEPT ![c].st = "reading", ![c].open = TRUE,
                        ![c].during = {d \in Conns : Unfinished(d)}]
  /\ UNCHANGED <<gate, queue, running, outstanding, dirVars, dataVars, dialog>>

\* HandlerExecutor::Post, when there is room.
Post(c) ==
  /\ queue' = Append(queue, c)
  /\ outstanding' = outstanding + 1

(* Dispatch: an unknown path is 404; a stopping or a full executor is 503; any
   other request goes to the executor.                                      *)
Dispatch(c, r) ==
  \/ /\ r.url = "unknown"
     /\ con' = [con EXCEPT ![c].req = r, ![c].st = "write", ![c].out = "404"]
     /\ UNCHANGED <<queue, outstanding>>
  \/ /\ r.url # "unknown"
     /\ gate = "draining" \/ outstanding >= mix.capacity
     /\ con' = [con EXCEPT ![c].req = r, ![c].st = "write", ![c].out = "503"]
     /\ UNCHANGED <<queue, outstanding>>
  \/ /\ r.url # "unknown"
     /\ gate = "up" /\ outstanding < mix.capacity
     /\ con' = [con EXCEPT ![c].req = r, ![c].st = "queued"]
     /\ Post(c)

HandleReq(c) ==
  /\ con[c].st = "reading" /\ con[c].open
  /\ gate # "stopped"
  /\ \E r \in Requests(c) \union OddRequests(c) :
       /\ r.url \in mix.urls
       /\ IF r \in Requests(c) THEN UNCHANGED faults ELSE Fault("odd")
       /\ Dispatch(c, r)
  /\ UNCHANGED <<gate, running, dirData, dataVars, dialog>>

(* CheckDeadline: sixty seconds after the connection came its socket is closed,
   whatever stage it is at; a pending read or write then ends.              *)
CheckDeadline(c) ==
  /\ con[c].open
  /\ con[c].st \notin {"free", "end"}
  /\ IF con[c].st = "reading" THEN UNCHANGED faults ELSE Fault("deadline")
  /\ con' = [con EXCEPT ![c].open = FALSE,
                        ![c].st = IF @ \in {"reading", "write"} THEN "end" ELSE @,
                        ![c].got = IF con[c].st \in {"reading", "write"} THEN "broken" ELSE @]
  /\ UNCHANGED <<gate, queue, running, outstanding, dataVars, dialog>>
  /\ UNCHANGED dirData

FirstStep(r) ==
  CASE r.url \in {"register", "reset"} -> "code"
    [] r.url = "login"                 -> "pwd"
    [] r.url = "varify"                -> "varify"
    [] r.url = "reassign"              -> "status"
    [] OTHER                           -> "query"

\* RunLoop takes a task.
RunLoop(c) ==
  /\ gate # "stopped"
  /\ queue # <<>> /\ Head(queue) = c
  /\ Cardinality(running) < Workers
  /\ queue' = Tail(queue)
  /\ running' = running \union {c}
  /\ con' = [con EXCEPT ![c].st = "handler", ![c].pc = FirstStep(con[c].req)]
  /\ UNCHANGED <<gate, outstanding, dirVars, dataVars, dialog>>

\* RunLoop, after the task: the count goes down, whatever the task did.
TaskEnds(c) ==
  /\ c \in running
  /\ con[c].st \in {"post", "write", "end"}
  /\ running' = running \ {c}
  /\ outstanding' = outstanding - 1
  /\ UNCHANGED <<gate, con, queue, dirVars, dataVars, dialog>>

WriteResponse(c) == con' = [con EXCEPT ![c].st = "write"]

PostBackAnswer(c) ==
  /\ gate # "stopped"
  /\ con[c].st = "post" /\ con[c].out # "500"
  /\ IF con[c].open THEN WriteResponse(c)
     ELSE con' = [con EXCEPT ![c].st = "end", ![c].got = "broken"]
  /\ UNCHANGED <<gate, queue, running, outstanding, dirVars, dataVars, dialog>>

(* The task posted back to the socket's executor: a response is written unless
   the deadline has closed the socket.                                      *)
PostBack(c) ==
  /\ gate # "stopped"
  /\ con[c].st = "post"
  /\ IF con[c].open THEN WriteResponse(c)
     ELSE con' = [con EXCEPT ![c].st = "end", ![c].got = "broken"]
  /\ UNCHANGED <<gate, queue, running, outstanding, dirVars, dataVars, dialog>>

ChangeTipPage == dialog' = [dialog EXCEPT !.page = "tip"]

\* RegisterDialog::initHttpHandlers; a dialog that was left is deleted.
DialogAnswered(c) ==
  IF con[c].req.mine /\ con[c].out = "ok" /\ dialog.page # "login"
  THEN ChangeTipPage ELSE UNCHANGED dialog

\* The response is written and the connection shut down; the client has it.
Written(c) ==
  /\ gate # "stopped"
  /\ con[c].st = "write"
  /\ con' = [con EXCEPT ![c].st = "end", ![c].open = FALSE, ![c].got = con[c].out]
  /\ DialogAnswered(c)
  /\ UNCHANGED <<gate, queue, running, outstanding, dirVars, dataVars>>

-----------------------------------------------------------------------------
(* Stopping: LogicSystem::Stop lets the workers empty the queue and joins them,
   then the IO threads are stopped with whatever they have not sent.  The
   accepting thread is the one that waits.                                  *)

StopSignal ==
  /\ gate = "up"
  /\ Fault("stop")
  /\ gate' = "draining"
  /\ UNCHANGED <<con, queue, running, outstanding, dataVars, dialog>>
  /\ UNCHANGED dirData

ConsCut ==
  con' = [c \in Conns |->
            IF con[c].st \in {"free", "end"} THEN con[c]
            ELSE [con[c] EXCEPT !.st = "end", !.open = FALSE, !.got = "broken"]]

Stopped ==
  /\ gate = "draining"
  /\ queue = <<>> /\ running = {}
  /\ gate' = "stopped"
  /\ ConsCut
  /\ UNCHANGED <<queue, running, outstanding, dirVars, dataVars, dialog>>

-----------------------------------------------------------------------------
(* The handlers.  Their steps are the calls they make to Redis, MySQL and the
   two services behind the Gate.                                            *)

Finish(c, out) ==
  con' = [con EXCEPT ![c].st = "post", ![c].pc = "none", ![c].out = out]

FinishHit(c, out) ==
  con' = [con EXCEPT ![c].st = "post", ![c].pc = "none", ![c].out = out, ![c].hit = TRUE]

GoOn(c, pc) == con' = [con EXCEPT ![c].pc = pc]

At(c, pc) == con[c].st = "handler" /\ con[c].pc = pc /\ con[c].req.body = "good"

execVars == <<gate, queue, running, outstanding, dialog>>

(* A body that does not parse, or lacks a field, is an error; three of the
   handlers take their fields unchecked, and end with an exception instead. *)
ParseFails(c) ==
  /\ con[c].st = "handler"
  /\ con[c].req.body # "good"
  /\ Finish(c, CASE con[c].req.body = "mismatch" -> "PasswdErr"
                 [] /\ con[c].req.body = "partial"
                    /\ con[c].req.url \in {"register", "reset", "login"} -> "500"
                 [] OTHER -> "Error_Json")
  /\ UNCHANGED <<execVars, dirVars, dataVars>>

Row(n) == {u \in users : u.name = n}
RowOf(e) == {u \in users : u.email = e}

\* /get_test, /test_procedure: nothing is changed; the second reads a row.
Query(c) ==
  /\ At(c, "query")
  /\ Finish(c, "ok")
  /\ UNCHANGED <<execVars, dirVars, dataVars>>

(* /user_register, /reset_pwd: the code kept for the address.  A failed read
   answers as an expired code does.                                         *)
CheckCode(c) ==
  /\ At(c, "code")
  /\ LET kept == codes[con[c].req.email]
     IN \/ /\ ~kept.live
           /\ Finish(c, "VarifyExpired")
           /\ UNCHANGED faults
        \/ /\ kept.live
           /\ Fault("redis")
           /\ Finish(c, "VarifyExpired")
        \/ /\ kept.live
           /\ IF kept.code # con[c].req.code THEN Finish(c, "VarifyCodeErr")
              ELSE GoOn(c, IF con[c].req.url = "register" THEN "select" ELSE "email")
           /\ UNCHANGED faults
  /\ UNCHANGED <<execVars, dirData, dataVars>>

(* RegUserTransaction: both checks read the snapshot its first SELECT takes.  A
   failure rolls back; when the rollback fails too the exception leaves the
   handler.                                                                 *)
SelectUser(c) ==
  /\ At(c, "select")
  /\ \/ /\ IF RowOf(con[c].req.email) \union Row(con[c].req.name) # {}
           THEN Finish(c, "UserExist") ELSE GoOn(c, "insert")
        /\ UNCHANGED faults
     \/ /\ Fault("mysql")
        /\ \E out \in {"UserExist", "500"} : FinishHit(c, out)
  /\ UNCHANGED <<execVars, dirData, dataVars>>

NewRow(c) == [uid |-> Cardinality(users) + 1, name |-> con[c].req.name,
              email |-> con[c].req.email, pwd |-> con[c].req.pwd]

InsertUncommitted(c) ==
  /\ At(c, "insert")
  /\ IF RowOf(con[c].req.email) \union Row(con[c].req.name) # {}
     THEN Finish(c, "UserExist") /\ UNCHANGED <<users, faults>>
     ELSE /\ Finish(c, "ok")
          /\ \/ users' = users \union {NewRow(c)} /\ UNCHANGED faults
             \/ Fault("mysql") /\ UNCHANGED users
  /\ UNCHANGED <<execVars, dirData, codes, issued, mailed, varify>>

(* RegUserTransaction: the INSERT is where the table's unique keys decide; it
   waits for the transaction that holds the key.  The answer to a lost COMMIT
   says nothing of whether the row is there.                                *)
InsertUser(c) ==
  /\ At(c, "insert")
  /\ LET taken == RowOf(con[c].req.email) \union Row(con[c].req.name) # {}
     IN \/ /\ IF taken THEN Finish(c, "UserExist") /\ UNCHANGED users
              ELSE Finish(c, "ok") /\ users' = users \union {NewRow(c)}
           /\ UNCHANGED faults
        \/ /\ Fault("mysql")
           /\ \E out \in {"UserExist", "500"} : FinishHit(c, out)
           /\ users' \in IF taken THEN {users} ELSE {users, users \union {NewRow(c)}}
  /\ UNCHANGED <<execVars, dirData, codes, issued, mailed, varify>>

EmailUnchecked(c) ==
  /\ At(c, "email")
  /\ GoOn(c, "update")
  /\ UNCHANGED <<execVars, dirVars, dataVars>>

\* /reset_pwd: CheckEmail, then UpdatePwd by name, which counts no rows.
CheckEmail(c) ==
  /\ At(c, "email")
  /\ \/ /\ IF \E u \in Row(con[c].req.name) : u.email = con[c].req.email
           THEN GoOn(c, "update") ELSE Finish(c, "EmailNotMatch")
        /\ UNCHANGED faults
     \/ Fault("mysql") /\ FinishHit(c, "EmailNotMatch")
  /\ UNCHANGED <<execVars, dirData, dataVars>>

UpdatePwd(c) ==
  /\ At(c, "update")
  /\ LET updated == {IF u.name = con[c].req.name THEN [u EXCEPT !.pwd = con[c].req.pwd] ELSE u :
                       u \in users}
     IN \/ /\ users' = updated
           /\ Finish(c, "ok")
           /\ UNCHANGED faults
        \/ /\ Fault("mysql")
           /\ FinishHit(c, "PasswdUpFailed")
           /\ users' \in {users, updated}
  /\ UNCHANGED <<execVars, dirData, codes, issued, mailed, varify>>

\* /user_login: CheckPwd.  A failed read answers as a wrong password does.
CheckPwd(c) ==
  /\ At(c, "pwd")
  /\ \/ /\ IF \E u \in RowOf(con[c].req.email) : u.pwd = con[c].req.pwd
           THEN GoOn(c, "status") ELSE Finish(c, "PasswdInvalid")
        /\ UNCHANGED faults
     \/ Fault("mysql") /\ FinishHit(c, "PasswdInvalid")
  /\ UNCHANGED <<execVars, dirData, dataVars>>

LoginUid(c) ==
  IF con[c].req.url = "login" THEN (CHOOSE u \in RowOf(con[c].req.email) : TRUE).uid ELSE 1

\* StatusGrpcClient::GetChatServer; a service out of reach fails the call.
AskStatus(c) ==
  /\ At(c, "status")
  /\ \/ Ask(c, LoginUid(c), con[c].req.token) /\ GoOn(c, "statusWait") /\ UNCHANGED faults
     \/ Fault("rpc") /\ Finish(c, "RPCFailed") /\ UNCHANGED call
  /\ UNCHANGED <<execVars, chat, registry, lease, token, mix, dataVars>>

PassedOn(url) ==
  {"ok", "NoAvailableChatServer"}
  \union IF url = "reassign" THEN {"TokenInvalid", "UidInvalid"} ELSE {}

(* The answer of StatusServer, of whose errors the handlers pass on some; or
   the three seconds the call waits are over, while StatusServer goes on.   *)
StatusAnswers(c) ==
  /\ At(c, "statusWait")
  /\ \/ /\ call[c].pc = "done"
        /\ Finish(c, IF call[c].error \in PassedOn(con[c].req.url)
                     THEN call[c].error ELSE "RPCFailed")
        /\ UNCHANGED faults
     \/ /\ call[c].pc # "done"
        /\ Fault("rpc")
        /\ Finish(c, "RPCFailed")
  /\ UNCHANGED <<execVars, dirData, dataVars>>

\* /get_varifycode: VerifyGrpcClient::GetVarifyCode.
AskVarify(c) ==
  /\ At(c, "varify")
  /\ \/ /\ varify' = [varify EXCEPT ![c].pc = "get"]
        /\ GoOn(c, "varifyWait")
        /\ UNCHANGED faults
     \/ Fault("rpc") /\ Finish(c, "RPCFailed") /\ UNCHANGED varify
  /\ UNCHANGED <<execVars, dirData, users, codes, issued, mailed>>

VarifyAnswers(c) ==
  /\ At(c, "varifyWait")
  /\ \/ /\ varify[c].pc = "done"
        /\ Finish(c, varify[c].error)
        /\ UNCHANGED faults
     \/ /\ varify[c].pc # "done"
        /\ Fault("rpc")
        /\ Finish(c, "RPCFailed")
  /\ UNCHANGED <<execVars, dirData, dataVars>>

user_register(c) ==
  con[c].req.url = "register" /\ (CheckCode(c) \/ SelectUser(c) \/ InsertUser(c))
reset_pwd(c) == con[c].req.url = "reset" /\ (CheckCode(c) \/ CheckEmail(c) \/ UpdatePwd(c))
user_login(c) == con[c].req.url = "login" /\ (CheckPwd(c) \/ AskStatus(c) \/ StatusAnswers(c))
reassign_chat(c) == con[c].req.url = "reassign" /\ (AskStatus(c) \/ StatusAnswers(c))
get_varifycode(c) == con[c].req.url = "varify" /\ (AskVarify(c) \/ VarifyAnswers(c))

HandlerStep(c) ==
  \/ ParseFails(c) \/ Query(c) \/ user_register(c) \/ reset_pwd(c) \/ user_login(c)
  \/ reassign_chat(c) \/ get_varifycode(c)

-----------------------------------------------------------------------------
(* VarifyServer: GetVarifyCode gives way to other calls at every await.    *)

Address(c) == con[c].req.email

varifyRest == <<gateVars, dirData, users, dialog>>

NewCode(c) ==
  /\ varify' = [varify EXCEPT ![c].pc = "set", ![c].code = Len(issued) + 1]
  /\ issued' = Append(issued, Address(c))

(* GetRedis: the code there is sent again.  A failed read counts as no code, so
   a new one is made.                                                       *)
GetRedis(c) ==
  /\ varify[c].pc = "get"
  /\ LET kept == codes[Address(c)]
     IN \/ /\ kept.live
           /\ varify' = [varify EXCEPT ![c].pc = "mail", ![c].code = kept.code]
           /\ UNCHANGED <<issued, faults>>
        \/ ~kept.live /\ NewCode(c) /\ UNCHANGED faults
        \/ kept.live /\ Fault("redis") /\ NewCode(c)
  /\ UNCHANGED <<varifyRest, codes, mailed>>

VarifyDone(c, error) ==
  varify' = [varify EXCEPT ![c].pc = "done", ![c].error = error]

SetIgnored(c) ==
  /\ varify[c].pc = "set"
  /\ \/ /\ codes' = [codes EXCEPT ![Address(c)] =
                       [code |-> varify[c].code, live |-> TRUE, ttl |-> FALSE]]
        /\ UNCHANGED faults
     \/ Fault("redis") /\ UNCHANGED codes
  /\ varify' = [varify EXCEPT ![c].pc = "expire"]
  /\ UNCHANGED <<varifyRest, issued, mailed>>

\* SetRedisExpire: SET, then EXPIRE; either may fail.
SetRedis(c) ==
  /\ varify[c].pc = "set"
  /\ \/ /\ codes' = [codes EXCEPT ![Address(c)] =
                       [code |-> varify[c].code, live |-> TRUE, ttl |-> FALSE]]
        /\ varify' = [varify EXCEPT ![c].pc = "expire"]
        /\ UNCHANGED faults
     \/ /\ Fault("redis")
        /\ VarifyDone(c, "RedisErr")
        /\ UNCHANGED codes
  /\ UNCHANGED <<varifyRest, issued, mailed>>

RedisExpire(c) ==
  /\ varify[c].pc = "expire"
  /\ \/ /\ codes' = [codes EXCEPT ![Address(c)].ttl = TRUE]
        /\ varify' = [varify EXCEPT ![c].pc = "mail"]
        /\ UNCHANGED faults
     \/ /\ Fault("redis")
        /\ VarifyDone(c, "RedisErr")
        /\ UNCHANGED codes
  /\ UNCHANGED <<varifyRest, issued, mailed>>

SendMail(c) ==
  /\ varify[c].pc = "mail"
  /\ \/ /\ mailed' = [mailed EXCEPT ![Address(c)] = varify[c].code]
        /\ VarifyDone(c, "ok")
        /\ UNCHANGED faults
     \/ /\ Fault("mail")
        /\ VarifyDone(c, "Exception")
        /\ UNCHANGED mailed
  /\ UNCHANGED <<varifyRest, codes, issued>>

VarifyStep(c) == GetRedis(c) \/ SetRedis(c) \/ RedisExpire(c) \/ SendMail(c)

\* Redis drops a code ten minutes after it was made.
CodeExpires(e) ==
  /\ codes[e].live /\ codes[e].ttl
  /\ Fault("expire")
  /\ codes' = [codes EXCEPT ![e].live = FALSE]
  /\ UNCHANGED <<varifyRest, issued, mailed, varify>>

-----------------------------------------------------------------------------
(* The register dialog.                                                    *)

\* The timer of the success page: one second less, and at zero the login page.
Tick ==
  /\ dialog.page = "tip"
  /\ dialog' = IF dialog.left = 0 THEN [dialog EXCEPT !.page = "login"]
               ELSE [dialog EXCEPT !.left = @ - 1]
  /\ UNCHANGED <<gateVars, dirVars, dataVars>>

\* The return and cancel buttons.
ReturnClicked ==
  /\ dialog.page # "login"
  /\ Fault("return")
  /\ dialog' = [dialog EXCEPT !.page = "login"]
  /\ UNCHANGED <<gateVars, dirData, dataVars>>

-----------------------------------------------------------------------------
gateDialog == <<gateVars, dataVars, dialog>>

GateStep(c) ==
  \/ Accept(c) \/ HandleReq(c) \/ CheckDeadline(c) \/ RunLoop(c) \/ TaskEnds(c)
  \/ PostBack(c) \/ Written(c) \/ HandlerStep(c) \/ VarifyStep(c)

Next ==
  \/ \E c \in Conns : GateStep(c)
  \/ \E c \in Conns : StatusStep(c) /\ UNCHANGED gateDialog
  \/ \E s \in Servers : ServerStep(s) /\ UNCHANGED gateDialog
  \/ \E u \in Users : TokenExpires(u) /\ UNCHANGED gateDialog
  \/ \E e \in Emails : CodeExpires(e)
  \/ StopSignal \/ Stopped \/ Tick \/ ReturnClicked

Spec == Init /\ [][Next]_vars

(* What goes on by itself: threads, services and timers.  A client may never
   connect or send, and a server that is down may stay down.                *)
Progress ==
  \/ \E c \in Conns :
       \/ RunLoop(c) \/ TaskEnds(c) \/ PostBack(c) \/ Written(c)
       \/ HandlerStep(c) \/ VarifyStep(c)
       \/ con[c].st = "reading" /\ CheckDeadline(c)
       \/ StatusStep(c) /\ UNCHANGED gateDialog
  \/ \E s \in Servers :
       /\ ReportLease(s) \/ Leave(s) \/ (chat[s].st # "up" /\ LeaseExpires(s))
       /\ UNCHANGED gateDialog
  \/ Stopped \/ Tick

FairSpec == Spec /\ WF_vars(Progress)

-----------------------------------------------------------------------------
TypeOK ==
  /\ gate \in {"up", "draining", "stopped"}
  /\ \A c \in Conns :
       /\ con[c].st \in {"free", "reading", "queued", "handler", "post", "write", "end"}
       /\ con[c].st = "queued" <=> \E i \in DOMAIN queue : queue[i] = c
  /\ outstanding \in Nat
  /\ \A u \in users : u.uid \in Users /\ u.name \in Names /\ u.email \in Emails
  /\ \A e \in Emails : codes[e].code \in DOMAIN issued /\ mailed[e] \in DOMAIN issued
  /\ dialog.left \in 0..Countdown
  /\ \A s \in Servers : lease[s] = None \/ lease[s] \in 0..MaxFaults
  /\ faults \in 0..MaxFaults

(* An account has one owner. No two share a name or an address, although
   registration looks first and inserts later; and a password is set only by a
   request that proved itself with a code made for the address of that very
   account, for registration and for reset.  Stated together with the types. *)
OneOwner ==
  /\ TypeOK
  /\ \A u, v \in users : u # v => u.name # v.name /\ u.email # v.email /\ u.uid # v.uid
  /\ \A u \in users : u.pwd # 0 => issued[con[u.pwd].req.code] = u.email

(* The answers of registration and reset are true: after success the account
   is there; a name or address said to be taken is taken, unless the database
   failed.                                                                  *)
AnswerIsTrue ==
  \A c \in Conns :
    LET r == con[c].req
    IN /\ con[c].out = "ok" /\ r.url = "register" =>
            \E u \in users : u.name = r.name /\ u.email = r.email
       /\ con[c].out = "ok" /\ r.url = "reset" => Row(r.name) # {}
       /\ con[c].out = "UserExist" /\ ~con[c].hit =>
            Row(r.name) \union RowOf(r.email) # {}

\* d may rightly replace what c made: it came later, or was going on beside it.
Beside(d, c) == d # c /\ (d > c \/ d \in con[c].during)

(* A client told that its code is in the mail can use that code: it is the one
   kept for the address, now or until it expired, unless another request for
   the address came later or overlapped.                                    *)
MailedWorks ==
  \A c \in Conns :
    con[c].req.url = "varify" /\ con[c].out = "ok" /\ con[c].req.body = "good" =>
      \/ codes[Address(c)].code = varify[c].code
      \/ \E d \in Conns : Beside(d, c) /\ con[d].req.url = "varify" /\ Address(d) = Address(c)

(* The token a login was answered with stays the user's token, until its day is
   over, unless another login of the user came later or overlapped.  A login the
   Gate gave up on is still at work in StatusServer, and overlaps what comes after it.         *)
TokenHonoured ==
  \A c \in Conns :
    con[c].req.url = "login" /\ con[c].out = "ok" =>
      \/ token[call[c].uid] \in {call[c].wrote, 0}
      \/ \E d \in Conns : Beside(d, c) /\ con[d].req.url = "login" /\ call[d].wrote # 0

(* Every connection ends: its request is answered, its deadline passes while
   it waits for the request, or the Gate stops.  A registration that succeeded
   brings its user to the login page, by the timer, or because they left the
   dialog before.                                                           *)
RequestEnds ==
  <>[](\A c \in Conns :
         /\ con[c].st \in {"free", "end"}
         /\ con[c].req.mine /\ con[c].got = "ok" => dialog.page = "login")
=============================================================================
