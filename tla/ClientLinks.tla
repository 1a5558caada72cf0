---------------------------- MODULE ClientLinks ----------------------------
(***************************************************************************)
(* How the client logs in, keeps its two connections and logs out: the     *)
(* MainWindow and LoginDialog (GUI thread), the TcpMgr with the part of    *)
(* OutboxDispatcher that starts uploads (TCP thread), and the FileTcpMgr   *)
(* (File thread).                                                          *)
(*                                                                         *)
(* A signal to another thread is posted to that thread's event queue:      *)
(* qGui, qTcp, qFile. A QMessageBox runs an event loop of its own: the     *)
(* handler that shows it goes on when the user dismisses it, and every     *)
(* other event of the GUI thread may be handled meanwhile. GateServer,     *)
(* ChatServer and ResourceServer appear as what they answer; a token is    *)
(* the number of the login that obtained it. Time is abstract: an armed    *)
(* timer may fire at any moment. A QTcpSocket is "down", "connecting",     *)
(* "up" or "closing" (closed by us with bytes still to be written).        *)
(***************************************************************************)
EXTENDS Naturals, Sequences, SequencesExt

CONSTANTS
  Users,
  None,        \* no user, no server info
  Attempts,    \* reconnect attempts of MainWindow (3 in the code)
  MaxLogins,   \* bound: clicks on the login button
  MaxElsewhere,  \* bound: logins of other devices
  MaxPending,  \* bound: events and boxes of the GUI when a timer fires
  MaxFaults,   \* bound: faults in a behaviour
  Faults       \* their kinds

ASSUME LinksAssumption ==
  /\ None \notin Users
  /\ Attempts \in Nat \ {0} /\ MaxLogins \in Nat /\ MaxElsewhere \in Nat /\ MaxPending \in Nat
  /\ MaxFaults \in Nat
  /\ Faults \subseteq {"gate", "refuse", "chatRefuse", "noRoute", "cut", "half",
                       "linger", "forget", "resource", "resRefuse", "redis", "upload"}

VARIABLES
  main,     \* MainWindow: page, and its reconnect attempts
  box,      \* message boxes on the screen, the innermost last
  dialog,   \* the LoginDialog of the login page
  creds,    \* UserMgr: uid and token
  chat,     \* TcpMgr
  outbox,   \* what OutboxDispatcher consults before it starts an upload
  dbOpen,   \* the user whose database was opened, until the outbox is told
  file,     \* FileTcpMgr
  engine,   \* owners of the transfers the engine holds
  http,     \* requests to GateServer
  qGui, qTcp, qFile,
  server,   \* tokens in Redis; the chat connection, seen from ChatServer
  reasons,  \* history: why a login or a resource connection may stay stuck
  logins, kicks, faults

guiVars == <<main, box, dialog>>
tcpVars == <<chat, outbox, dbOpen>>
fileVars == <<file, engine>>
queues == <<qGui, qTcp, qFile>>
bounds == <<logins, kicks, faults>>
vars == <<guiVars, creds, tcpVars, fileVars, http, queues, server, reasons, bounds>>

NewDialog == [enabled |-> TRUE, si |-> None]

NewMain == [page |-> "login", timer |-> FALSE, attempt |-> 0, inProgress |-> FALSE,
            http |-> FALSE, tcp |-> FALSE]

NewChat == [sock |-> "down", manual |-> FALSE, reconnecting |-> FALSE,
            notified |-> FALSE, info |-> None, half |-> FALSE]

NewFile == [sock |-> "down", manual |-> FALSE, auth |-> FALSE, uid |-> None,
            token |-> 0, armed |-> FALSE, watch |-> FALSE, asked |-> FALSE, rsp |-> "none"]

NewOutbox == [connected |-> FALSE, uid |-> None, restored |-> FALSE, ready |-> FALSE]

Init ==
  /\ main = NewMain /\ box = <<>> /\ dialog = NewDialog
  /\ creds = [uid |-> None, token |-> 0]
  /\ chat = NewChat /\ outbox = NewOutbox /\ dbOpen = None
  /\ file = NewFile /\ engine = {}
  /\ http = <<>> /\ qGui = <<>> /\ qTcp = <<>> /\ qFile = <<>>
  /\ server = [token |-> [u \in Users |-> 0], other |-> {}, bound |-> None,
               req |-> <<>>, rsp |-> <<>>]
  /\ reasons = {} /\ logins = 0 /\ kicks = 0 /\ faults = 0

Fault(kind) ==
  /\ kind \in Faults /\ faults < MaxFaults
  /\ faults' = faults + 1

Signal(s) == [s |-> s, si |-> None]

(* Both sides forget what was on the way when the chat connection ends.    *)
Hangup == [server EXCEPT !.bound = None, !.req = <<>>, !.rsp = <<>>]

-----------------------------------------------------------------------------
(* GUI thread: MainWindow                                                  *)

CancelReconnect(m) ==
  [m EXCEPT !.timer = FALSE, !.attempt = 0, !.inProgress = FALSE, !.http = FALSE, !.tcp = FALSE]

OfflineLogin ==
  IF main.page = "login"
  THEN main' = CancelReconnect(main) /\ UNCHANGED <<creds, dialog>>
  ELSE /\ main' = [CancelReconnect(main) EXCEPT !.page = "login"]
       /\ creds' = [creds EXCEPT !.token = 0]
       /\ dialog' = NewDialog

Show(b) ==
  /\ main' = CancelReconnect(main)
  /\ box' = Append(box, b)

(* Mutant: a refused token does not close the chat connection.             *)
DismissKeepsChat ==
  /\ box # <<>>
  /\ box' = Front(box)
  /\ OfflineLogin
  /\ qTcp' = IF Last(box) = "token" THEN qTcp ELSE Append(qTcp, Signal("close"))
  /\ qFile' = IF Last(box) = "offline" THEN qFile ELSE Append(qFile, Signal("close"))
  /\ UNCHANGED <<tcpVars, fileVars, http, qGui, server, reasons, bounds>>

(* The user dismisses the innermost box, and the handler that showed it    *)
(* closes the connections and returns to the login page. SlotOffline       *)
(* leaves the resource connection alone. A login under way is closed too.  *)
Dismiss ==
  /\ box # <<>>
  /\ box' = Front(box)
  /\ OfflineLogin
  /\ qTcp' = Append(qTcp, Signal("close"))
  /\ qFile' = IF Last(box) = "offline" THEN qFile ELSE Append(qFile, Signal("close"))
  /\ reasons' = IF main.page = "login" /\ (~dialog.enabled \/ chat.sock # "down" \/ qTcp # <<>>)
                THEN reasons \cup {"boxed"} ELSE reasons
  /\ UNCHANGED <<tcpVars, fileVars, http, qGui, server, bounds>>

FailReconnectAttempt(m) ==
  LET n == [m EXCEPT !.http = FALSE, !.tcp = FALSE]
  IN CASE ~n.inProgress -> main' = n /\ UNCHANGED box
       [] n.inProgress /\ n.attempt >= Attempts -> Show("exhausted")
       [] OTHER -> main' = [n EXCEPT !.timer = TRUE] /\ UNCHANGED box

AttemptReconnect ==
  /\ main.timer
  /\ LET m == [main EXCEPT !.timer = FALSE]
     IN IF ~m.inProgress \/ m.http \/ m.tcp \/ m.page # "chat"
        THEN main' = m /\ UNCHANGED <<box, http>>
        ELSE LET n == [m EXCEPT !.attempt = @ + 1]
             IN IF creds.uid = None \/ creds.token = 0
                THEN FailReconnectAttempt(n) /\ UNCHANGED http
                ELSE /\ main' = [n EXCEPT !.http = TRUE]
                     /\ http' = Append(http, [kind |-> "reassign", uid |-> creds.uid,
                                              token |-> creds.token, ans |-> "none"])
                     /\ UNCHANGED box
  /\ UNCHANGED <<dialog, creds, tcpVars, fileVars, queues, server, reasons, bounds>>

(* SlotReconnectHttpFinish: the answer of /reassign_chat, or none.         *)
SlotReconnectHttpFinish(ans) ==
  IF ~main.inProgress \/ ~main.http \/ main.page # "chat"
  THEN UNCHANGED <<main, box, qTcp>>
  ELSE IF ans = "ok"
       THEN /\ main' = [main EXCEPT !.http = FALSE, !.tcp = TRUE]
            /\ qTcp' = Append(qTcp, Signal("reconnect"))
            /\ UNCHANGED box
       ELSE FailReconnectAttempt(main) /\ UNCHANGED qTcp

SlotReconnectFinished(ok) ==
  IF ~main.inProgress \/ ~main.tcp \/ main.page # "chat"
  THEN UNCHANGED <<main, box>>
  ELSE IF ok THEN main' = CancelReconnect(main) /\ UNCHANGED box
             ELSE FailReconnectAttempt(main)

(* SlotExcepConOffline: reconnect from the chat page, give up elsewhere.   *)
SlotExcepConOffline ==
  IF main.page # "chat"
  THEN Show("closed") /\ reasons' = reasons \cup {"early"}
  ELSE /\ UNCHANGED reasons
       /\ IF main.inProgress THEN UNCHANGED <<main, box>>
          ELSE IF creds.uid = None \/ creds.token = 0 THEN Show("exhausted")
          ELSE /\ main' = [CancelReconnect(main) EXCEPT !.inProgress = TRUE, !.timer = TRUE]
               /\ UNCHANGED box

(* SlotResourceTokenInvalid: ResourceServer answered 2010.                 *)
SlotResourceTokenInvalid ==
  IF main.page # "chat"
  THEN /\ main' = CancelReconnect(main)
       /\ reasons' = reasons \cup {"ignored2010"}
       /\ UNCHANGED box
  ELSE Show("token") /\ UNCHANGED reasons

SlotSwitchChat ==
  main' = [CancelReconnect(main) EXCEPT !.page = "chat"]

(* The user leaves the login page for the one that resets the password     *)
(* and returns: SlotSwitchReset, SlotSwitchLogin2.                         *)
SlotSwitchReset ==
  /\ main.page = "login" /\ box = <<>>
  /\ Fault("forget")
  /\ main' = [CancelReconnect(main) EXCEPT !.page = "reset"]
  /\ UNCHANGED <<box, dialog, creds, tcpVars, fileVars, http, queues, server, reasons, logins, kicks>>

SlotSwitchLogin2 ==
  /\ main.page = "reset" /\ box = <<>>
  /\ main' = [CancelReconnect(main) EXCEPT !.page = "login"]
  /\ dialog' = NewDialog
  /\ UNCHANGED <<box, creds, tcpVars, fileVars, http, queues, server, reasons, bounds>>

-----------------------------------------------------------------------------
(* GUI thread: LoginDialog                                                 *)

(* Users are interchangeable: the first login is of one of them.           *)
on_login_btn_clicked(u) ==
  /\ main.page = "login" /\ box = <<>> /\ dialog.enabled
  /\ logins < MaxLogins /\ logins' = logins + 1
  /\ logins = 0 => u = CHOOSE v \in Users : TRUE
  /\ dialog' = [dialog EXCEPT !.enabled = FALSE]
  /\ http' = Append(http, [kind |-> "login", uid |-> u, token |-> 0, ans |-> "none"])
  /\ UNCHANGED <<main, box, creds, tcpVars, fileVars, queues, server, reasons, kicks, faults>>

(* slot_login_mod_finish: the answer of /user_login. Without one the       *)
(* buttons stay disabled.                                                  *)
slot_login_mod_finish(h) ==
  CASE main.page # "login" -> UNCHANGED <<dialog, dbOpen, qTcp, reasons>>
    [] main.page = "login" /\ h.ans = "down" ->
         reasons' = reasons \cup {"gate"} /\ UNCHANGED <<dialog, dbOpen, qTcp>>
    [] main.page = "login" /\ h.ans = "error" ->
         dialog' = [dialog EXCEPT !.enabled = TRUE] /\ UNCHANGED <<dbOpen, qTcp, reasons>>
    [] OTHER ->
         LET si == [uid |-> h.uid, token |-> h.token]
         IN /\ dialog' = [dialog EXCEPT !.si = si]
            /\ dbOpen' = h.uid
            /\ qTcp' = Append(qTcp, [s |-> "connect", si |-> si])
            /\ UNCHANGED reasons

slot_http_finish ==
  \E i \in DOMAIN http :
    /\ http[i].ans # "none"
    /\ http' = RemoveAt(http, i)
    /\ IF http[i].kind = "login"
       THEN slot_login_mod_finish(http[i]) /\ UNCHANGED <<main, box>>
       ELSE SlotReconnectHttpFinish(http[i].ans) /\ UNCHANGED <<dialog, dbOpen, reasons>>
    /\ UNCHANGED <<creds, chat, outbox, fileVars, qGui, qFile, server, bounds>>

EnableBtn ==
  dialog' = IF main.page = "login" THEN [dialog EXCEPT !.enabled = TRUE] ELSE dialog

(* slot_tcp_con_finish(true): send ID_CHAT_LOGIN. A dialog that made no    *)
(* login has no _si, and the process dies.                                 *)
Dies == main.page = "login" /\ dialog.si = None

OnGui ==
  /\ qGui # <<>>
  /\ ~(Head(qGui) = "conOk" /\ Dies)
  /\ qGui' = Tail(qGui)
  /\ qTcp' = IF Head(qGui) = "conOk" /\ main.page = "login"
             THEN Append(qTcp, [s |-> "login", si |-> dialog.si]) ELSE qTcp
  /\ CASE Head(qGui) = "conOk" -> UNCHANGED <<main, box, dialog, reasons>>
       [] Head(qGui) \in {"conFail", "loginFailed", "resDown"} ->
            EnableBtn /\ UNCHANGED <<main, box, reasons>>
       [] Head(qGui) = "switchChat" -> SlotSwitchChat /\ UNCHANGED <<box, dialog, reasons>>
       [] Head(qGui) = "offline" -> Show("offline") /\ UNCHANGED <<dialog, reasons>>
       [] Head(qGui) = "closed" -> SlotExcepConOffline /\ UNCHANGED dialog
       [] Head(qGui) \in {"recOk", "recFail"} ->
            SlotReconnectFinished(Head(qGui) = "recOk") /\ UNCHANGED <<dialog, reasons>>
       [] Head(qGui) = "token2010" -> SlotResourceTokenInvalid /\ UNCHANGED dialog
  /\ UNCHANGED <<creds, tcpVars, fileVars, http, qFile, server, bounds>>

(* The process starts again.                                               *)
Restart ==
  /\ qGui # <<>> /\ Head(qGui) = "conOk" /\ Dies
  /\ main' = NewMain /\ box' = <<>> /\ dialog' = NewDialog
  /\ creds' = [uid |-> None, token |-> 0]
  /\ chat' = NewChat /\ outbox' = NewOutbox /\ dbOpen' = None
  /\ file' = NewFile /\ engine' = {} /\ server' = Hangup
  /\ http' = <<>> /\ qGui' = <<>> /\ qTcp' = <<>> /\ qFile' = <<>>
  /\ UNCHANGED <<reasons, bounds>>

-----------------------------------------------------------------------------
(* TCP thread: TcpMgr. A handler maps the TcpMgr to the one it leaves and  *)
(* the signals it emits to the GUI.                                        *)

Quiet(c) == [c |-> c, out |-> <<>>]

(* Mutant: MainWindow is not told.                                         *)
ReconnectFailsSilently(c) ==
  [c |-> [c EXCEPT !.reconnecting = FALSE, !.manual = TRUE, !.sock = "down"], out |-> <<>>]

FinishReconnectFailure(c) ==
  [c |-> [c EXCEPT !.reconnecting = FALSE, !.manual = TRUE, !.sock = "down"],
   out |-> <<"recFail">>]

(* handleWriteFailure, and the handler of disconnected outside a           *)
(* reconnection: tell once.                                                *)
HandleWriteFailure(c) ==
  IF c.manual \/ c.notified THEN Quiet([c EXCEPT !.sock = "down"])
  ELSE [c |-> [c EXCEPT !.sock = "down", !.notified = TRUE], out |-> <<"closed">>]

Disconnected(c) ==
  IF c.reconnecting /\ ~c.manual THEN FinishReconnectFailure(c) ELSE HandleWriteFailure(c)

(* The error of a connection that could not be made.                       *)
ConnectError(c, told) ==
  LET d == [c EXCEPT !.sock = "down"]
  IN IF c.reconnecting THEN FinishReconnectFailure(d)
     ELSE IF c.manual \/ c.notified \/ ~told THEN Quiet(d)
     ELSE [c |-> d, out |-> <<"conFail">>]

(* The TcpMgr becomes r.c. OutboxDispatcher is told of a lost connection   *)
(* in the same thread.                                                     *)
Becomes(r) ==
  /\ chat' = r.c
  /\ qGui' = qGui \o r.out
  /\ outbox' = [outbox EXCEPT !.connected = @ /\ r.out # <<"closed">>]
  /\ server' = IF r.c.sock = "up" THEN server ELSE Hangup

(* slot_tcp_connect keeps the half frame of an earlier connection; Qt      *)
(* refuses connectToHost unless the socket is down.                        *)
slot_tcp_connect(si) ==
  /\ chat' = [chat EXCEPT !.manual = FALSE, !.reconnecting = FALSE, !.notified = FALSE,
                !.info = si, !.sock = IF @ = "down" THEN "connecting" ELSE @]
  /\ reasons' = IF chat.sock = "down" THEN reasons ELSE reasons \cup {"busy"}
  /\ UNCHANGED <<outbox, qGui, server, faults>>

slot_tcp_close ==
  /\ \/ /\ chat' = [chat EXCEPT !.manual = TRUE, !.reconnecting = FALSE, !.sock = "down"]
        /\ UNCHANGED faults
     \/ /\ chat.sock = "up" /\ Fault("linger")
        /\ chat' = [chat EXCEPT !.manual = TRUE, !.reconnecting = FALSE, !.sock = "closing"]
  /\ server' = Hangup
  /\ UNCHANGED <<outbox, qGui, reasons>>

slot_reconnect_chat ==
  /\ IF chat.info = None \/ chat.sock # "down"
     THEN qGui' = Append(qGui, "recFail") /\ UNCHANGED chat
     ELSE /\ chat' = [chat EXCEPT !.half = FALSE, !.manual = FALSE, !.notified = FALSE,
                        !.reconnecting = TRUE, !.sock = "connecting"]
          /\ UNCHANGED qGui
  /\ UNCHANGED <<outbox, server, reasons, faults>>

(* slot_send_data with the login of LoginDialog.                           *)
SendLogin(si) ==
  /\ IF chat.sock \in {"up", "connecting"}
     THEN /\ server' = [server EXCEPT !.req = Append(@, si)]
          /\ UNCHANGED <<chat, qGui, outbox>>
     ELSE Becomes(HandleWriteFailure(chat))
  /\ UNCHANGED <<reasons, faults>>

OnTcp ==
  /\ qTcp # <<>>
  /\ qTcp' = Tail(qTcp)
  /\ CASE Head(qTcp).s = "connect" -> slot_tcp_connect(Head(qTcp).si)
       [] Head(qTcp).s = "close" -> slot_tcp_close
       [] Head(qTcp).s = "reconnect" -> slot_reconnect_chat
       [] Head(qTcp).s = "login" -> SendLogin(Head(qTcp).si)
       [] Head(qTcp).s = "resReady" ->
            /\ outbox' = [outbox EXCEPT !.ready = TRUE]
            /\ UNCHANGED <<chat, qGui, server, reasons, faults>>
  /\ UNCHANGED <<guiVars, creds, dbOpen, fileVars, http, qFile, logins, kicks>>

tcpFrame == <<guiVars, creds, dbOpen, fileVars, http, qTcp, qFile, logins, kicks>>

(* The socket's signals.                                                   *)
ChatConnected ==
  /\ chat.sock = "connecting"
  /\ chat' = [chat EXCEPT !.sock = "up", !.notified = FALSE]
  /\ IF chat.reconnecting
     THEN server' = [server EXCEPT !.req = Append(@, chat.info)] /\ UNCHANGED qGui
     ELSE qGui' = Append(qGui, "conOk") /\ UNCHANGED server
  /\ UNCHANGED <<tcpFrame, outbox, reasons, faults>>

ChatError ==
  /\ chat.sock = "connecting"
  /\ \/ Fault("chatRefuse") /\ Becomes(ConnectError(chat, TRUE)) /\ UNCHANGED reasons
     \/ /\ Fault("noRoute") /\ Becomes(ConnectError(chat, FALSE))
        /\ reasons' = reasons \cup {"noRoute"}
  /\ UNCHANGED tcpFrame

ChatDisconnected ==
  /\ \/ chat.sock = "closing" /\ UNCHANGED faults /\ Becomes(Disconnected(chat))
     \/ chat.sock = "up" /\ Fault("cut") /\ Becomes(Disconnected(chat))
     \/ chat.sock = "up" /\ Fault("half") /\ Becomes(Disconnected([chat EXCEPT !.half = TRUE]))
     \/ /\ chat.sock = "up" /\ server.rsp # <<>> /\ Head(server.rsp).r = "fin"
        /\ UNCHANGED faults /\ Becomes(Disconnected(chat))
  /\ UNCHANGED <<tcpFrame, reasons>>

(* requestRestore: the registry is loaded once the user is connected and   *)
(* the database open. That it takes time is left to StartResourceUpload.   *)
RequestRestore(o) == [o EXCEPT !.restored = @ \/ (o.connected /\ o.uid # None)]

(* handleChatLoginRsp, of a first login and of a reconnection.             *)
LoginOk(uid) ==
  /\ outbox' = RequestRestore([outbox EXCEPT !.connected = TRUE])
  /\ IF chat.reconnecting
     THEN /\ chat' = [chat EXCEPT !.reconnecting = FALSE, !.manual = FALSE, !.notified = FALSE]
          /\ qGui' = Append(qGui, "recOk")
          /\ UNCHANGED <<creds, qFile>>
     ELSE /\ creds' = [uid |-> uid, token |-> chat.info.token]
          /\ qGui' = Append(qGui, "switchChat")
          /\ qFile' = Append(qFile, [s |-> "connect", si |-> chat.info])
          /\ UNCHANGED chat

OnChatFrame ==
  /\ chat.sock = "up" /\ server.rsp # <<>> /\ Head(server.rsp).r # "fin"
  /\ LET f == Head(server.rsp)
         rest == [server EXCEPT !.rsp = Tail(@)]
     IN CASE chat.half ->  \* parsed as the rest of the half frame
               /\ reasons' = reasons \cup {"half"} /\ server' = rest
               /\ UNCHANGED <<chat, outbox, creds, qGui, qFile>>
          [] ~chat.half /\ f.r = "ok" -> LoginOk(f.uid) /\ server' = rest /\ UNCHANGED reasons
          [] ~chat.half /\ f.r = "fail" /\ chat.reconnecting ->
               /\ Becomes(FinishReconnectFailure(chat))
               /\ UNCHANGED <<creds, qFile, reasons>>
          [] ~chat.half /\ f.r = "fail" /\ ~chat.reconnecting ->
               /\ qGui' = Append(qGui, "loginFailed") /\ server' = rest
               /\ UNCHANGED <<chat, outbox, creds, qFile, reasons>>
          [] ~chat.half /\ f.r = "kick" ->
               /\ qGui' = Append(qGui, "offline") /\ server' = rest
               /\ UNCHANGED <<chat, outbox, creds, qFile, reasons>>
  /\ UNCHANGED <<guiVars, dbOpen, fileVars, http, qTcp, bounds>>

(* OutboxDispatcher: slot_db_opened, and an upload it starts when an       *)
(* answer or a stored row asks for it (counted with the faults).           *)
slot_db_opened ==
  /\ dbOpen # None /\ dbOpen' = None
  /\ outbox' = RequestRestore(
       IF outbox.uid = dbOpen THEN outbox
       ELSE [outbox EXCEPT !.uid = dbOpen, !.restored = FALSE])
  /\ UNCHANGED <<guiVars, creds, chat, fileVars, http, queues, server, reasons, bounds>>

StartResourceUpload ==
  /\ outbox.ready /\ outbox.restored
  /\ Fault("upload")
  /\ qFile' = Append(qFile, [s |-> "start", si |-> [uid |-> outbox.uid, token |-> 0]])
  /\ UNCHANGED <<guiVars, creds, tcpVars, fileVars, http, qGui, qTcp, server, reasons,
                 logins, kicks>>

-----------------------------------------------------------------------------
(* File thread: FileTcpMgr. A handler maps the FileTcpMgr to the one it    *)
(* leaves and the failures it tells the login page.                        *)

ScheduleReconnect(f) == IF f.manual THEN f ELSE [f EXCEPT !.armed = TRUE]

Lost(f) == [f EXCEPT !.auth = FALSE, !.watch = FALSE, !.asked = FALSE, !.rsp = "none"]

(* The handler of disconnected.                                            *)
FileDown(f) ==
  IF f.manual THEN [f |-> Lost(f), out |-> <<>>]
  ELSE [f |-> ScheduleReconnect(Lost(f)), out |-> IF f.auth THEN <<>> ELSE <<"resDown">>]

(* QTcpSocket::abort emits disconnected when a connection was open.        *)
Abort(f) ==
  LET d == [f EXCEPT !.sock = "down"]
  IN IF f.sock \in {"up", "closing"} THEN FileDown(d) ELSE [f |-> d, out |-> <<>>]

(* resetConnection and scheduleReconnect.                                  *)
ResetAndSchedule(f) ==
  LET r == Abort(Lost(f)) IN [f |-> ScheduleReconnect(r.f), out |-> r.out]

FileBecomes(r) ==
  /\ file' = r.f
  /\ qGui' = IF r.out # <<>> /\ ~(qGui # <<>> /\ Last(qGui) = "resDown")
             THEN qGui \o r.out ELSE qGui

(* slot_tcp_close.                                                         *)
FileClosed(f, sock) ==
  [Lost(f) EXCEPT !.manual = TRUE, !.armed = FALSE, !.uid = None, !.token = 0, !.sock = sock]

FileClose ==
  /\ engine' = {}
  /\ \/ file' = FileClosed(file, "down") /\ UNCHANGED faults
     \/ file.sock = "up" /\ Fault("linger") /\ file' = FileClosed(file, "closing")
  /\ UNCHANGED qGui

(* slot_tcp_connect: the same user on a live socket is ignored, another    *)
(* user closes first. There is one ResourceServer, so the address is       *)
(* always the same.                                                        *)
FileConnect(si) ==
  IF si.uid = file.uid /\ file.sock \in {"up", "connecting"}
  THEN UNCHANGED <<file, engine, qGui, faults>>
  ELSE \E sock \in {"down", "closing"} :
         LET switch == file.uid # None /\ si.uid # file.uid
             closed == IF switch THEN FileClosed(file, sock) ELSE file
             r == Abort([closed EXCEPT !.uid = si.uid, !.token = si.token,
                           !.manual = FALSE, !.watch = TRUE])
         IN /\ IF sock = "down" THEN UNCHANGED faults
               ELSE switch /\ file.sock = "up" /\ Fault("linger")
            /\ engine' = IF switch THEN {} ELSE engine
            /\ FileBecomes([r EXCEPT !.f.sock = "connecting"])

OnFile ==
  /\ qFile # <<>>
  /\ qFile' = Tail(qFile)
  /\ CASE Head(qFile).s = "connect" -> FileConnect(Head(qFile).si)
       [] Head(qFile).s = "close" -> FileClose
       [] Head(qFile).s = "start" ->
            /\ engine' = engine \cup {Head(qFile).si.uid}
            /\ UNCHANGED <<file, qGui, faults>>
  /\ UNCHANGED <<guiVars, creds, tcpVars, http, qTcp, server, reasons, logins, kicks>>

fileFrame == <<guiVars, creds, tcpVars, engine, http, qFile, server, reasons, logins, kicks>>

(* connected: send ID_RESOURCE_LOGIN_REQ with the token kept since         *)
(* slot_tcp_connect.                                                       *)
FileConnected ==
  /\ file.sock = "connecting"
  /\ file' = [file EXCEPT !.sock = "up", !.auth = FALSE, !.asked = TRUE, !.watch = TRUE]
  /\ UNCHANGED <<fileFrame, qGui, qTcp, faults>>

(* Mutant: a refused connection is reset but not scheduled.                *)
FileErrorGivesUp ==
  /\ file.sock = "connecting" /\ Fault("resRefuse")
  /\ FileBecomes([f |-> Abort(Lost(file)).f, out |-> <<"resDown">>])
  /\ UNCHANGED <<fileFrame, qTcp>>

FileError ==
  /\ file.sock = "connecting" /\ Fault("resRefuse")
  /\ FileBecomes([f |-> ResetAndSchedule(file).f, out |-> <<"resDown">>])
  /\ UNCHANGED <<fileFrame, qTcp>>

(* The connection ends, or the engine asks for a new one.                  *)
FileDisconnected ==
  /\ \/ file.sock = "up" /\ Fault("resource") /\ FileBecomes(ResetAndSchedule(file))
     \/ file.sock = "closing" /\ FileBecomes(Abort(file)) /\ UNCHANGED faults
  /\ UNCHANGED <<fileFrame, qTcp>>

(* No answer to the login in time.                                         *)
AuthTimer ==
  /\ file.watch /\ Fault("resource")
  /\ IF file.manual \/ file.auth THEN file' = [file EXCEPT !.watch = FALSE] /\ UNCHANGED qGui
     ELSE FileBecomes(ResetAndSchedule(file))
  /\ UNCHANGED <<fileFrame, qTcp>>

(* A back-off does not end while the answer to a login is on its way: it   *)
(* doubles up to 30 seconds, and AuthTimer stands for the late answer.     *)
slot_reconnect_timeout ==
  /\ file.armed /\ ~file.asked /\ file.rsp = "none"
  /\ Len(qGui) + Len(box) < MaxPending
  /\ LET f == [file EXCEPT !.armed = FALSE]
     IN IF f.manual \/ f.uid = None THEN file' = f /\ UNCHANGED qGui
        ELSE FileBecomes([Abort(f) EXCEPT !.f.sock = "connecting"])
  /\ UNCHANGED <<fileFrame, qTcp, faults>>

HandleResourceLoginRsp ==
  /\ file.sock = "up" /\ file.rsp # "none"
  /\ LET f == [file EXCEPT !.rsp = "none", !.watch = FALSE]
     IN IF file.rsp = "ok"
        THEN /\ file' = [f EXCEPT !.auth = TRUE]
             /\ qTcp' = IF Contains(qTcp, Signal("resReady")) THEN qTcp
                        ELSE Append(qTcp, Signal("resReady"))
             /\ UNCHANGED qGui
        ELSE /\ file' = [f EXCEPT !.auth = FALSE]
             /\ qGui' = Append(qGui, "token2010") /\ UNCHANGED qTcp
  /\ UNCHANGED <<fileFrame, faults>>

-----------------------------------------------------------------------------
(* The servers, as far as the client sees them.                            *)

(* GateServer: /user_login issues a token, /reassign_chat verifies one.    *)
(* The answer may be lost on its way.                                      *)
Gate ==
  \E i \in DOMAIN http :
    /\ http[i].ans = "none"
    /\ \/ /\ http[i].kind = "login"
          /\ LET u == http[i].uid
                 n == server.token[u] + 1
             IN /\ server' = [server EXCEPT !.token[u] = n]
                /\ \/ UNCHANGED faults
                      /\ http' = [http EXCEPT ![i].ans = "ok", ![i].token = n]
                   \/ Fault("gate") /\ http' = [http EXCEPT ![i].ans = "down"]
       \/ /\ http[i].kind = "login" /\ Fault("refuse")
          /\ http' = [http EXCEPT ![i].ans = "error"]
          /\ UNCHANGED server
       \/ /\ http[i].kind = "reassign"
          /\ \/ /\ http' = [http EXCEPT ![i].ans =
                              IF http[i].token = server.token[http[i].uid] THEN "ok" ELSE "error"]
                /\ UNCHANGED faults
             \/ Fault("gate") /\ http' = [http EXCEPT ![i].ans = "down"]
          /\ UNCHANGED server
    /\ UNCHANGED <<guiVars, creds, tcpVars, fileVars, queues, reasons, logins, kicks>>

serverFrame == <<guiVars, creds, tcpVars, http, queues, reasons, logins>>

(* ChatServer serves a login; a second one on a bound session is refused   *)
(* and the session closed.                                                 *)
ChatLogin ==
  /\ chat.sock = "up" /\ server.req # <<>>
  /\ LET si == Head(server.req)
         s == [server EXCEPT !.req = Tail(@)]
     IN server' =
          CASE s.bound # None ->
                 [s EXCEPT !.rsp = @ \o <<[r |-> "fail", uid |-> si.uid], [r |-> "fin", uid |-> si.uid]>>]
            [] s.bound = None /\ si.token = s.token[si.uid] ->
                 [s EXCEPT !.bound = si.uid, !.rsp = Append(@, [r |-> "ok", uid |-> si.uid])]
            [] OTHER -> [s EXCEPT !.rsp = Append(@, [r |-> "fail", uid |-> si.uid])]
  /\ UNCHANGED <<serverFrame, fileVars, kicks, faults>>

(* Another device logs in: first GateServer replaces the token, later      *)
(* ChatServer kicks the session it finds.                                  *)
Elsewhere(u) ==
  /\ server.token[u] > 0 /\ kicks < MaxElsewhere /\ kicks' = kicks + 1
  /\ server' = [server EXCEPT !.token[u] = @ + 1, !.other = @ \cup {u}]
  /\ UNCHANGED <<serverFrame, fileVars, faults>>

Kick(u) ==
  /\ u \in server.other
  /\ server' =
       LET s == [server EXCEPT !.other = @ \ {u}]
       IN IF s.bound # u THEN s
          ELSE [s EXCEPT !.bound = None,
                  !.rsp = @ \o <<[r |-> "kick", uid |-> u], [r |-> "fin", uid |-> u]>>]
  /\ UNCHANGED <<serverFrame, fileVars, kicks, faults>>

(* ResourceServer compares the token with the one in Redis.                *)
ResourceLogin ==
  /\ file.sock = "up" /\ file.asked
  /\ \/ /\ UNCHANGED faults
        /\ file' = [file EXCEPT !.asked = FALSE, !.rsp =
                      IF file.token = server.token[file.uid] THEN "ok" ELSE "invalid"]
     \/ Fault("redis") /\ file' = [file EXCEPT !.asked = FALSE, !.rsp = "invalid"]
  /\ UNCHANGED <<serverFrame, engine, server, kicks>>

-----------------------------------------------------------------------------
(* What each thread and the servers do of their own accord.                *)
GuiStep == Dismiss \/ AttemptReconnect \/ slot_http_finish \/ OnGui \/ Restart
           \/ SlotSwitchLogin2

TcpStep == OnTcp \/ ChatConnected \/ (ChatDisconnected /\ faults' = faults) \/ OnChatFrame
           \/ slot_db_opened

FileStep == OnFile \/ FileConnected \/ (FileDisconnected /\ faults' = faults)
            \/ slot_reconnect_timeout \/ HandleResourceLoginRsp

ServerStep == Gate \/ ChatLogin \/ (\E u \in Users : Kick(u))

Next ==
  \/ Dismiss \/ AttemptReconnect \/ slot_http_finish \/ OnGui \/ Restart
  \/ SlotSwitchReset \/ SlotSwitchLogin2
  \/ OnTcp \/ ChatConnected \/ ChatError \/ ChatDisconnected \/ OnChatFrame
  \/ slot_db_opened \/ StartResourceUpload
  \/ OnFile \/ FileConnected \/ FileError \/ FileDisconnected \/ AuthTimer
  \/ slot_reconnect_timeout \/ HandleResourceLoginRsp
  \/ Gate \/ ChatLogin \/ ResourceLogin
  \/ \E u \in Users : on_login_btn_clicked(u) \/ Elsewhere(u) \/ Kick(u)

Spec == Init /\ [][Next]_vars

(* Each thread handles its events, the servers answer, and the user        *)
(* dismisses a message box.                                                *)
FairSpec ==
  Spec /\ WF_vars(GuiStep) /\ WF_vars(TcpStep) /\ WF_vars(FileStep)
       /\ WF_vars(ServerStep) /\ WF_vars(ResourceLogin)

-----------------------------------------------------------------------------
Info == [uid : Users, token : 0..(MaxLogins + MaxElsewhere)]

TypeOK ==
  /\ main.page \in {"login", "chat", "reset"} /\ main.attempt \in 0..Attempts
  /\ \A i \in DOMAIN box : box[i] \in {"offline", "closed", "token", "exhausted"}
  /\ dialog.si \in Info \cup {None}
  /\ chat.sock \in {"down", "connecting", "up", "closing"}
  /\ file.sock \in {"down", "connecting", "up", "closing"}
  /\ engine \subseteq Users
  /\ \A i \in DOMAIN qTcp : qTcp[i].s \in {"connect", "close", "reconnect", "login", "resReady"}
  /\ \A i \in DOMAIN qFile : qFile[i].s \in {"connect", "close", "start"}
  /\ server.bound \in Users \cup {None}
  /\ main.http => main.inProgress /\ ~main.tcp
  /\ main.timer => main.inProgress /\ ~main.http /\ ~main.tcp

Calm == box = <<>> /\ qGui = <<>> /\ qTcp = <<>> /\ qFile = <<>>

(* With nothing left to handle, the page and the chat connection agree. A  *)
(* chat page has a connection that is logged in, or a reconnection under   *)
(* way: no disconnect is lost between the flags of TcpMgr and those of     *)
(* MainWindow. Behind a login page whose button is enabled no session is   *)
(* logged in: every way out of the chat page closes the connection, and a  *)
(* reconnection under way does not come back. The exceptions are a box     *)
(* dismissed while a login was under way, whose handler closes what that   *)
(* login made, and an answer lost to the half frame of an old connection.  *)
(* Stated together with the types.                                         *)
PageAgrees ==
  /\ TypeOK
  /\ Calm =>
       /\ main.page = "chat" => main.inProgress \/ chat.sock = "up" \/ "boxed" \in reasons
       /\ main.page = "login" /\ dialog.enabled /\ server.req = <<>> /\ server.rsp = <<>> =>
            server.bound = None \/ "half" \in reasons

(* The engine works for the user the resource connection is logged in as,  *)
(* for no other: slot_tcp_connect drops the transfers of the user before.  *)
(* The code does not keep this (README, section 6).                        *)
TransfersUnderOwner == file.auth => engine \subseteq {file.uid}

(* An attempt to connect ends: a reconnection always, and a login at the   *)
(* chat page or with its button enabled again. The exceptions for a login  *)
(* are known: GateServer did not answer, the connection was lost before    *)
(* the answer, the host was unreachable, the last connection was still     *)
(* open or left half a frame.                                              *)
AttemptsEnd ==
  /\ []<>(~main.inProgress)
  /\ []<>(\/ main.page # "login" \/ dialog.enabled
          \/ reasons \cap {"gate", "early", "noRoute", "busy", "half", "boxed"} # {})

(* At the chat page the resource connection logs in again after every      *)
(* loss, except when the refusal of a token was ignored at the login page  *)
(* and when a box was dismissed while the login was under way.             *)
ResourceReturns ==
  []<>(\/ main.page # "chat" \/ main.inProgress \/ file.auth
       \/ reasons \cap {"ignored2010", "boxed"} # {})

=============================================================================
