------------------------------ MODULE Avatars ------------------------------
(* Avatars and the profiles that name them.  The client uploads an avatar in
   numbered pieces (1601) and fetches avatars in numbered pieces (1603); the
   file and download workers of ResourceServer serve them with their place
   kept in Redis; the last piece changes the user's row in MySQL and the
   profile in Redis, which ChatServer reads and fills as well.  One user and
   their client are modelled, and a contact whose avatar is published.       *)
EXTENDS Naturals, SequencesExt

CONSTANTS
  Mine,         \* the names generateUniqueIconName gives the user's avatars
  Theirs,       \* the name of the contact's avatar
  Default,      \* the avatar of the client's resources, ":/res/head_1.jpg"
  Readers,      \* searches for the user, on ChatServer's workers
  Chunks,       \* pieces of an avatar: its size over MAX_FILE_LEN, rounded up
  Mixes,        \* bounds, one chosen per behaviour: the names used, how many
                \* searches and requests to show (asks), how many faults of
                \* which kinds ("cut", "crash", "redis", "mysql", "disk", "expire")
  None

ASSUME ChunksAssumption == Chunks \in Nat \ {0} /\ Theirs \notin Mine

VARIABLES
  page,      \* the client: "login", "opening" (logged in), "chat"
  link,      \* the connection to ResourceServer is authenticated
  icon,      \* UserMgr: the user's avatar
  chosen,    \* names given to avatars so far
  uploads,   \* UserMgr::_name_to_upload_info
  loading,   \* UserMgr::_name_to_download_info
  local,     \* each name's file in the client's avatars directory, or None
  toServer, toClient,  \* frames on the connection
  files,     \* each user's directory on the server: the files, or None
  upInfo,    \* Redis: the names that have a key file_upload_<name>
  downInfo,  \* Redis: file_download_<name>, or None
  writes,    \* FileWorker: each name's task, or None
  reads,     \* DownloadWorker: each name's tasks
  db,        \* users.avatar_key
  base,      \* Redis: the avatar in ubaseinfo_<uid>, or None
  byName,    \* Redis: the avatar in nameinfo_<name>, or None
  readers,   \* ChatServer: each profile read in progress, or None
  excused,   \* transfers whose next frame was refused or lost
  torn,      \* names fetched while incomplete, or written short
  fetched,   \* names whose last piece the client has stored
  why,       \* what may have left ubaseinfo_<uid> out of date
  doubt,     \* uploads overlapped, or MySQL refused an avatar
  mix, asks, faults

client == <<page, link, icon, chosen, uploads, loading, local>>
wire   == <<toServer, toClient>>
server == <<files, upInfo, downInfo, writes, reads>>
stored == <<db, base, byName>>
ghosts == <<excused, torn, fetched, why, doubt>>
vars   == <<client, wire, server, stored, readers, ghosts, mix, asks, faults>>

Names   == Mine \cup {Theirs}
Icons   == Mine \cup {Default}
Users   == {"me", "contact"}
Profile == Readers \cup {"login"}      \* the user's own login reads it too
Whole   == [k \in 1..Chunks |-> k]

Fault(f) == f \in mix.kinds /\ faults < mix.faults /\ faults' = faults + 1
Asked == asks < mix.asks /\ asks' = asks + 1

Init ==
  /\ page = "login" /\ link = FALSE
  /\ icon = Default /\ chosen = {} /\ uploads = {} /\ loading = {}
  /\ local = [n \in Names |-> None]
  /\ toServer = <<>> /\ toClient = <<>>
  /\ files = [u \in Users |-> [n \in Names |->
                IF u = "contact" /\ n = Theirs THEN Whole ELSE None]]
  /\ upInfo = {} /\ downInfo = [n \in Names |-> None]
  /\ writes = [n \in Names |-> None] /\ reads = [n \in Names |-> <<>>]
  /\ db = Default /\ base = None /\ byName = None
  /\ readers = [r \in Profile |-> None]
  /\ excused = {} /\ torn = {} /\ fetched = {} /\ why = {} /\ doubt = FALSE
  /\ mix \in Mixes /\ asks = 0 /\ faults = 0

-----------------------------------------------------------------------------
(* The client.  A frame sent before the resource login, or after the
   connection broke, is dropped by slot_send_data.                           *)
UpFrame(n, k)   == [req |-> "up", name |-> n, seq |-> k]
DownFrame(n, k) == [req |-> "down", name |-> n, seq |-> k]
Of(frame) == <<frame.req, frame.name>>

Send(frames) == toServer' = IF link THEN toServer \o frames ELSE toServer
Dropped(frames) == IF link THEN {} ELSE {Of(frames[i]) : i \in DOMAIN frames}

(* LoadHeadIcon of each page: nothing while the name is being fetched.       *)
LoadFrames(n) == IF n \in loading THEN <<>> ELSE <<DownFrame(n, 1)>>

(* slot_up_load.  The picture is saved in another directory than the one
   slot_reset_head looks into, so the handler ends by asking the server for
   the avatar whose first piece it has just sent.                            *)
Upload(n) ==
  LET frames == <<UpFrame(n, 1)>> \o LoadFrames(n) IN
  /\ page = "chat"
  /\ n \in mix.names \ chosen
  /\ chosen' = chosen \cup {n}
  /\ icon' = n
  /\ uploads' = uploads \cup {n}
  /\ loading' = loading \cup {n}
  /\ Send(frames)
  /\ excused' = excused \cup Dropped(frames)
  /\ doubt' = (doubt \/ uploads # {})
  /\ UNCHANGED <<page, link, local, toClient, server, stored, readers, torn,
                 fetched, why, asks, faults>>

(* What a page does for an avatar it cannot load: one that is not there, or
   one Qt refuses because it is not whole.                                   *)
LoadHeadIcon(n) ==
  /\ loading' = loading \cup {n}
  /\ Send(LoadFrames(n))
  /\ excused' = excused \cup Dropped(LoadFrames(n))

ShowIcon(n) ==
  /\ page = "chat"
  /\ n \in {icon, Theirs} \ {Default}
  /\ n \notin loading
  /\ local[n] # Whole
  /\ Asked
  /\ LoadHeadIcon(n)
  /\ UNCHANGED <<page, link, icon, chosen, uploads, local, toClient, server, stored,
                 readers, torn, fetched, why, doubt, faults>>

(* SlotSwitchChat builds the chat page, whose constructor shows the avatar:
   before the resource connection or after it, which starts at the same time. *)
OpenChat ==
  /\ page = "opening"
  /\ page' = "chat"
  /\ IF icon = Default \/ local[icon] = Whole
       THEN UNCHANGED <<loading, toServer, excused>>
       ELSE \/ LoadHeadIcon(icon)
            \/ local[icon] # None /\ UNCHANGED <<loading, toServer, excused>>
  /\ UNCHANGED <<link, icon, chosen, uploads, local, toClient, server, stored, readers,
                 torn, fetched, why, doubt, asks, faults>>

Connect ==
  /\ page \in {"opening", "chat"}
  /\ ~link
  /\ link' = TRUE
  /\ UNCHANGED <<page, icon, chosen, uploads, loading, local, wire, server, stored, readers,
                 ghosts, asks, faults>>

(* The connection is gone: what is under way on the server goes on, and its
   answers are for a session that is closed.                                 *)
Orphan ==
  /\ link' = FALSE
  /\ toServer' = <<>> /\ toClient' = <<>>
  /\ writes' = [n \in Names |->
       IF writes[n] = None THEN None ELSE [writes[n] EXCEPT !.live = FALSE]]
  /\ reads' = [n \in Names |->
       [i \in DOMAIN reads[n] |-> [reads[n][i] EXCEPT !.live = FALSE]]]

Cut ==
  /\ link /\ Fault("cut")
  /\ Orphan
  /\ excused' = excused \cup ({"up"} \X uploads) \cup ({"down"} \X loading)
  /\ UNCHANGED <<page, icon, chosen, uploads, loading, local, files, upInfo, downInfo, stored,
                 readers, torn, fetched, why, doubt, asks>>

(* The client ends and starts again: its files stay, its tables do not.      *)
Restart ==
  /\ page = "chat" /\ Fault("crash")
  /\ Orphan
  /\ page' = "login" /\ icon' = Default
  /\ uploads' = {} /\ loading' = {} /\ excused' = {}
  /\ doubt' = (doubt \/ uploads # {} \/ why # {})
  /\ UNCHANGED <<chosen, local, files, upInfo, downInfo, stored, readers, torn, fetched,
                 why, asks>>

-----------------------------------------------------------------------------
(* ResourceServer.  The session's logic worker takes its frames in order.  An
   upload notes its place in Redis and goes to the file worker of its name, a
   download straight to the download worker of its name.                     *)
UpAnswer(n, k, ok) == [rsp |-> "up", name |-> n, seq |-> k, ok |-> ok]
DownAnswer(n, k, piece, total) ==
  [rsp |-> "down", name |-> n, seq |-> k, ok |-> TRUE, piece |-> piece,
   last |-> k >= total, total |-> total]
DownError(n) == [rsp |-> "down", name |-> n, seq |-> 0, ok |-> FALSE]

Answer(live, m) == toClient' = IF live THEN Append(toClient, m) ELSE toClient

GetFileInfo(n) == n \in upInfo
SetFileInfo(n) == upInfo' = upInfo \cup {n}

handleUploadHeadIcon ==
  LET m == Head(toServer) IN
  /\ toServer # <<>> /\ m.req = "up"
  /\ toServer' = Tail(toServer)
  /\ \/ /\ m.seq = 1 \/ GetFileInfo(m.name)
        /\ SetFileInfo(m.name)
        /\ writes' = [writes EXCEPT ![m.name] =
             [seq |-> m.seq, step |-> "open", row |-> None, live |-> TRUE]]
        /\ UNCHANGED <<toClient, faults>>
     \/ /\ m.seq # 1 /\ ~GetFileInfo(m.name)
        /\ Answer(TRUE, UpAnswer(m.name, m.seq, FALSE))
        /\ UNCHANGED <<upInfo, writes, faults>>
     \/ /\ Fault("redis")
        /\ Answer(TRUE, UpAnswer(m.name, m.seq, FALSE))
        /\ UNCHANGED <<upInfo, writes>>
  /\ UNCHANGED <<client, files, downInfo, reads, stored, readers, ghosts, asks>>

handleDownloadFile ==
  LET m == Head(toServer) IN
  /\ toServer # <<>> /\ m.req = "down"
  /\ toServer' = Tail(toServer)
  /\ reads' = [reads EXCEPT ![m.name] = Append(@, [seq |-> m.seq, live |-> TRUE])]
  /\ UNCHANGED <<client, toClient, files, upInfo, downInfo, writes, stored, readers, ghosts,
                 asks, faults>>

LastButOne(k) == k + 1 >= Chunks

\* The mark the client puts on the frame of the last piece.
IsLast(k) == k = Chunks

(* The file worker.  Piece 1 empties the file, the others are appended.      *)
Put(n, f) == files' = [files EXCEPT !["me"][n] = f]
Goto(n, step) == writes' = [writes EXCEPT ![n].step = step]
Callback(n, ok) ==
  /\ writes' = [writes EXCEPT ![n] = None]
  /\ Answer(writes[n].live, UpAnswer(n, writes[n].seq, ok))
At(n, step) == writes[n] # None /\ writes[n].step = step

OpenFile(n) ==
  /\ At(n, "open")
  /\ \/ /\ Put(n, IF writes[n].seq = 1 THEN <<>> ELSE files["me"][n])
        /\ Goto(n, "write")
        /\ UNCHANGED <<toClient, faults>>
     \/ Fault("disk") /\ Callback(n, FALSE) /\ UNCHANGED files
  /\ UNCHANGED <<client, toServer, upInfo, downInfo, reads, stored, readers, ghosts, asks>>

WritePiece(n) ==
  /\ At(n, "write")
  /\ \/ /\ Put(n, Append(files["me"][n], writes[n].seq))
        /\ IF IsLast(writes[n].seq)
             THEN Goto(n, "update") /\ UNCHANGED toClient
             ELSE Callback(n, TRUE)
        /\ UNCHANGED faults
     \/ Fault("disk") /\ Callback(n, FALSE) /\ UNCHANGED files
  /\ UNCHANGED <<client, toServer, upInfo, downInfo, reads, stored, readers, ghosts, asks>>

(* After the last piece: the row, whose update may fail unnoticed, ...       *)
FillsBase(r) == readers[r] # None /\ readers[r].step = "set" /\ readers[r].key = "uid"
Filling == {r \in Profile : FillsBase(r)} \cup {n \in Names : At(n, "set")}

UpdateHeadInfo(n) ==
  /\ At(n, "update")
  /\ Goto(n, "read")
  /\ \/ /\ db' = n
        /\ why' = IF Filling = {} THEN why ELSE why \cup {"overlap"}
        /\ UNCHANGED <<doubt, faults>>
     \/ Fault("mysql") /\ doubt' = TRUE /\ UNCHANGED <<db, why>>
  /\ UNCHANGED <<client, wire, files, upInfo, downInfo, reads, base, byName, readers,
                 excused, torn, fetched, asks>>

(* ... the profile as it is now; when that fails nobody is answered, ...     *)
GetUser(n) ==
  /\ At(n, "read")
  /\ \/ /\ writes' = [writes EXCEPT ![n].step = "set", ![n].row = db]
        /\ UNCHANGED <<excused, why, faults>>
     \/ /\ Fault("mysql")
        /\ writes' = [writes EXCEPT ![n] = None]
        /\ excused' = IF writes[n].live THEN excused \cup {<<"up", n>>} ELSE excused
        /\ why' = why \cup {"mysql"}
  /\ UNCHANGED <<client, wire, files, upInfo, downInfo, reads, stored, readers, torn, fetched,
                 doubt, asks>>

(* ... and ubaseinfo_<uid>, whose failure is not noticed either.  A value that
   is current, with nobody about to write another, clears the suspicion.     *)
SetBase(who, value) ==
  /\ base' = value
  /\ why' = IF value = db /\ Filling \subseteq {who} THEN {} ELSE why

ProfileSkipped(n) ==
  /\ At(n, "set")
  /\ Callback(n, TRUE)
  /\ UNCHANGED <<client, toServer, files, upInfo, downInfo, reads, stored, readers, ghosts,
                 asks, faults>>

SetProfile(n) ==
  /\ At(n, "set")
  /\ Callback(n, TRUE)
  /\ \/ SetBase(n, writes[n].row) /\ UNCHANGED faults
     \/ Fault("redis") /\ why' = why \cup {"redis"} /\ UNCHANGED base
  /\ UNCHANGED <<client, toServer, files, upInfo, downInfo, reads, db, byName, readers,
                 excused, torn, fetched, doubt, asks>>

(* The download worker, in one step: while it runs the file can only grow and
   no one else touches the key of its name.  It looks in the directory of the
   user who asks.  The size is taken with piece 1 and kept in Redis.         *)
Place(k, total) == [seq |-> k, total |-> total]
Expects(n, k) == downInfo[n] # None /\ downInfo[n].seq = k
Refuse(n) == Answer(Head(reads[n]).live, DownError(n))

(* SetDownLoadInfo and DelDownLoadInfo, whose failures are ignored.          *)
Note(n, place) == downInfo' = [downInfo EXCEPT ![n] = place]
Deliver(n, k, total) ==
  /\ Answer(Head(reads[n]).live, DownAnswer(n, k, files["me"][n][k], total))
  /\ \/ Note(n, IF k >= total THEN None ELSE Place(k + 1, total)) /\ UNCHANGED faults
     \/ Fault("redis") /\ UNCHANGED downInfo

(* Piece 1 is refused when the file is still empty.  A later piece is within
   the size: the key of a file that was read to its end is gone.             *)
FirstPiece(n, total) ==
  \/ total = 0 /\ Refuse(n) /\ Note(n, Place(1, total)) /\ UNCHANGED faults
  \/ total > 0 /\ Deliver(n, 1, total)
  \/ /\ total > 0 /\ Fault("redis") /\ Note(n, Place(1, total))
     /\ Answer(Head(reads[n]).live, DownAnswer(n, 1, files["me"][n][1], total))

LaterUnanswered(n, k) ==
  \/ Expects(n, k) /\ Deliver(n, k, downInfo[n].total)
  \/ ~Expects(n, k) /\ UNCHANGED <<toClient, downInfo, faults>>

LaterPiece(n, k) ==
  \/ Expects(n, k) /\ Deliver(n, k, downInfo[n].total)
  \/ ~Expects(n, k) /\ Refuse(n) /\ UNCHANGED <<downInfo, faults>>
  \/ Fault("redis") /\ Refuse(n) /\ UNCHANGED downInfo

task_callback(n) ==
  LET k == Head(reads[n]).seq
      f == files["me"][n] IN
  /\ reads[n] # <<>>
  /\ reads' = [reads EXCEPT ![n] = Tail(@)]
  /\ \/ f = None /\ Refuse(n) /\ UNCHANGED <<downInfo, faults>>
     \/ f # None /\ Fault("disk") /\ Refuse(n) /\ UNCHANGED downInfo
     \/ f # None /\ k = 1 /\ FirstPiece(n, Len(f))
     \/ f # None /\ k # 1 /\ LaterPiece(n, k)
  /\ UNCHANGED <<client, toServer, files, upInfo, writes, stored, readers, ghosts, asks>>

(* An hour passes between two pieces.                                        *)
Expire(n) ==
  /\ n \in upInfo \/ downInfo[n] # None
  /\ Fault("expire")
  /\ upInfo' = upInfo \ {n}
  /\ downInfo' = [downInfo EXCEPT ![n] = None]
  /\ UNCHANGED <<client, wire, files, writes, reads, stored, readers, ghosts, asks>>

-----------------------------------------------------------------------------
(* The client's answers.  After an error the transfer is given up and its entry
   in UserMgr stays: there is no retry.                                      *)
Receive(rsp) ==
  /\ toClient # <<>> /\ Head(toClient).rsp = rsp
  /\ toClient' = Tail(toClient)
GiveUp(m) == excused' = excused \cup {<<m.rsp, m.name>>}

\* trans_size has reached total_size.
AllSent(k) == k = Chunks

handleUploadHeadIconRsp ==
  LET m == Head(toClient) IN
  /\ Receive("up")
  /\ \/ /\ m.ok /\ AllSent(m.seq)
        /\ uploads' = uploads \ {m.name}
        /\ UNCHANGED <<toServer, excused, faults>>
     \/ /\ m.ok /\ ~AllSent(m.seq) /\ m.name \in uploads
        /\ Send(<<UpFrame(m.name, m.seq + 1)>>)
        /\ UNCHANGED <<uploads, excused, faults>>
     \/ /\ m.ok /\ ~AllSent(m.seq) /\ Fault("disk") /\ GiveUp(m)
        /\ UNCHANGED <<uploads, toServer>>
     \/ ~m.ok /\ GiveUp(m) /\ UNCHANGED <<uploads, toServer, faults>>
  /\ UNCHANGED <<page, link, icon, chosen, loading, local, server, stored, readers,
                 torn, fetched, why, doubt, asks>>

StoreAppends(m, piece) ==
  /\ local' = [local EXCEPT ![m.name] = IF @ = None THEN <<piece>> ELSE Append(@, piece)]
  /\ fetched' = IF m.last THEN fetched \cup {m.name} ELSE fetched \ {m.name}
  /\ loading' = IF m.last THEN loading \ {m.name} ELSE loading
  /\ Send(IF m.last THEN <<>> ELSE <<DownFrame(m.name, m.seq + 1)>>)
  /\ UNCHANGED torn

(* Piece 1 starts the file, the others are appended; one that could not be
   written whole (0) is only logged.  After the last piece the entry goes.   *)
Store(m, piece) ==
  /\ local' = [local EXCEPT ![m.name] =
       IF m.seq = 1 THEN <<piece>> ELSE Append(@, piece)]
  /\ torn' = IF m.total < Chunks \/ piece = 0 THEN torn \cup {m.name}
             ELSE IF m.seq = 1 THEN torn \ {m.name} ELSE torn
  /\ fetched' = IF m.last THEN fetched \cup {m.name} ELSE fetched \ {m.name}
  /\ loading' = IF m.last THEN loading \ {m.name} ELSE loading
  /\ Send(IF m.last THEN <<>> ELSE <<DownFrame(m.name, m.seq + 1)>>)

handleDownloadFileRsp ==
  LET m == Head(toClient) IN
  /\ Receive("down")
  /\ \/ m.ok /\ Store(m, m.piece) /\ UNCHANGED <<excused, faults>>
     \/ m.ok /\ Fault("disk") /\ Store(m, 0) /\ UNCHANGED excused
     \/ /\ m.ok /\ Fault("disk") /\ GiveUp(m)
        /\ UNCHANGED <<local, torn, fetched, loading, toServer>>
     \/ /\ ~m.ok /\ GiveUp(m)
        /\ UNCHANGED <<local, torn, fetched, loading, toServer, faults>>
  /\ UNCHANGED <<page, link, icon, chosen, uploads, server, stored, readers, why, doubt, asks>>

-----------------------------------------------------------------------------
(* ChatServer: a profile is taken from Redis, or else from MySQL and put into
   Redis.  Searches read by uid or by user name, the login by uid.           *)
Hit(r) == IF readers[r].key = "uid" THEN base ELSE byName
Reading(r, step) == readers[r] # None /\ readers[r].step = step

SearchInfo(r) ==
  /\ readers[r] = None
  /\ Asked
  /\ \E key \in {"uid", "name"} :
       readers' = [readers EXCEPT ![r] = [key |-> key, step |-> "get", row |-> None]]
  /\ UNCHANGED <<client, wire, server, stored, ghosts, faults>>

LoginHandler ==
  /\ page = "login" /\ readers["login"] = None
  /\ readers' = [readers EXCEPT !["login"] = [key |-> "uid", step |-> "get", row |-> None]]
  /\ UNCHANGED <<client, wire, server, stored, ghosts, asks, faults>>

(* The answer: the login opens the chat page with the avatar it names.       *)
Done(r) == readers' = [readers EXCEPT ![r] = None]
Miss(r) == readers' = [readers EXCEPT ![r].step = "read"]
Reply(r, found) ==
  /\ Done(r)
  /\ IF r = "login"
       THEN page' = "opening" /\ icon' = found
       ELSE UNCHANGED <<page, icon>>

GetCached(r) ==
  /\ Reading(r, "get")
  /\ \/ Hit(r) # None /\ Reply(r, Hit(r)) /\ UNCHANGED faults
     \/ Hit(r) = None /\ Miss(r) /\ UNCHANGED <<page, icon, faults>>
     \/ Hit(r) # None /\ Fault("redis") /\ Miss(r) /\ UNCHANGED <<page, icon>>
  /\ UNCHANGED <<link, chosen, uploads, loading, local, wire, server, stored, ghosts, asks>>

ReadUser(r) ==
  /\ Reading(r, "read")
  /\ \/ /\ readers' = [readers EXCEPT ![r].step = "set", ![r].row = db]
        /\ UNCHANGED <<page, icon, faults>>
     \/ Fault("mysql") /\ Done(r) /\ UNCHANGED <<page, icon>>
  /\ UNCHANGED <<link, chosen, uploads, loading, local, wire, server, stored, ghosts, asks>>

SetCached(r) ==
  LET row == readers[r].row IN
  /\ Reading(r, "set")
  /\ Reply(r, row)
  /\ \/ readers[r].key = "uid" /\ SetBase(r, row) /\ UNCHANGED <<byName, faults>>
     \/ readers[r].key = "name" /\ byName' = row /\ UNCHANGED <<base, why, faults>>
     \/ Fault("redis") /\ UNCHANGED <<base, byName, why>>
  /\ UNCHANGED <<link, chosen, uploads, loading, local, wire, server, db, excused, torn,
                 fetched, doubt, asks>>

-----------------------------------------------------------------------------
(* Steps that happen by themselves: threads that have work, the client's
   event loop, the reconnection of the resource link and the login.          *)
System ==
  \/ OpenChat \/ Connect \/ LoginHandler
  \/ handleUploadHeadIcon \/ handleDownloadFile
  \/ handleUploadHeadIconRsp \/ handleDownloadFileRsp
  \/ \E n \in Names : \/ OpenFile(n) \/ WritePiece(n) \/ UpdateHeadInfo(n)
                      \/ GetUser(n) \/ SetProfile(n) \/ task_callback(n)
  \/ \E r \in Profile : GetCached(r) \/ ReadUser(r) \/ SetCached(r)

Steps ==
  \/ System
  \/ \E n \in Names : Upload(n) \/ ShowIcon(n) \/ Expire(n)
  \/ \E r \in Readers : SearchInfo(r)
  \/ Cut \/ Restart

Next == Steps /\ UNCHANGED mix

Spec == Init /\ [][Next]_vars
FairSpec == Spec /\ WF_vars(System /\ UNCHANGED mix)

-----------------------------------------------------------------------------
(* Types: tasks exist only for the user's own names, pieces are numbered from
   1, and no worker is two pieces ahead of the other side.                   *)
TypeOK ==
  /\ page \in {"login", "opening", "chat"} /\ link \in BOOLEAN
  /\ icon \in Icons /\ db \in Icons
  /\ {base, byName} \subseteq Icons \cup {None}
  /\ uploads \subseteq chosen /\ chosen \subseteq Mine
  /\ loading \subseteq Names /\ fetched \subseteq Names /\ torn \subseteq Names
  /\ excused \subseteq {"up", "down"} \X Names
  /\ \A n \in Names :
       /\ writes[n] # None => n \in Mine /\ writes[n].seq \in 1..Chunks
       /\ downInfo[n] # None => downInfo[n].seq \in 1..Chunks /\ downInfo[n].total \in 0..Chunks
       /\ local[n] # None => Len(local[n]) <= Chunks
  /\ upInfo \subseteq Mine
  /\ mix \in Mixes /\ asks \in 0..mix.asks /\ faults \in 0..mix.faults

(* An avatar that a profile names, in MySQL or in either cache, is on the
   server with all its pieces in order: FileWorker changes users.avatar_key
   only after the last piece, through lost connections, expired keys and
   failed writes.  Stated together with the types.                           *)
NamedIsWhole ==
  /\ TypeOK
  /\ \A n \in {db, base, byName} \cap Mine : files["me"][n] = Whole

(* The copies of users.avatar_key follow it. ubaseinfo_<uid> has no expiry:
   unless an update is on its way to it, it names the avatar of the row. What
   can leave it behind is recorded when it happens: a reader or another upload
   that had read the row and not yet written the key, or a refused Redis or
   MySQL call. Once the uploads are answered the client shows the avatar of the
   row too, unless two uploads overlapped, the client restarted amid one, or
   MySQL refused the update (which FileWorker does not report).              *)
CopiesFollow ==
  /\ \/ base \in {None, db}
     \/ \E n \in Names : At(n, "read") \/ At(n, "set")
     \/ why # {}
  /\ page = "chat" /\ uploads = {} /\ ~doubt => icon = db

(* The file of a fetched avatar has its pieces in order from the first, and is
   whole unless the size was taken while the upload was going on or a write
   fell short: sequence numbers, the place in Redis and truncation by piece 1
   together keep two fetches of one name from mixing.                        *)
FetchedIsWhole ==
  \A n \in Names :
    /\ n \in fetched \ torn => local[n] = Whole
    /\ local[n] # None => \A i \in DOMAIN local[n] : local[n][i] \in {i, 0}

(* Every upload and every fetch ends, unless a frame of it was dropped, its
   connection broke, or it was refused: no piece waits for an answer nobody
   is going to send.                                                         *)
TransfersEnd ==
  <>[](/\ {"up"} \X uploads \subseteq excused
       /\ {"down"} \X loading \subseteq excused)
=============================================================================
