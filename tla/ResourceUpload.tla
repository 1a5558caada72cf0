--------------------------- MODULE ResourceUpload ---------------------------
(***************************************************************************)
(* How ResourceServer turns uploads into published resources: the part     *)
(* file and the session of a message, the point where an upload completes, *)
(* the blob it becomes, the proof that takes the place of an upload, the   *)
(* downloads, and the collector that removes what was given up.            *)
(*                                                                         *)
(* Files are sequences of chunks. A chunk is "ok" when it is what the      *)
(* message's SHA-256 declares at that place and "bad" otherwise, so a file *)
(* has the declared hash when all its Chunks chunks are there and "ok".    *)
(* Each message has a FileWorker of its own, the most concurrent routing;  *)
(* one worker runs one request at a time, in steps that the collector, the *)
(* other workers and a crash may separate.                                 *)
(***************************************************************************)
EXTENDS Naturals, Sequences, FiniteSets

CONSTANTS
  Messages,      \* resource messages, all of one sender
  Shas,          \* contents
  Sha,           \* the content each message declares
  Changed,       \* messages whose source file changed after they were sent
  Chunks,        \* chunks of a file
  Platforms,     \* "posix": link, unlink, fsync; "windows": one durable move
  MaxMismatch,   \* whole-file mismatches until the message fails
  CacheLimit,    \* entries of the download worker's cache
  MaxFaults,     \* bound: faults in a behaviour
  Faults,        \* their kinds, of each platform
  None           \* no file, no session

ASSUME UploadAssumption ==
  /\ Sha \in [Messages -> Shas]
  /\ Changed \subseteq Messages
  /\ Chunks \in Nat \ {0} /\ MaxMismatch \in Nat \ {0} /\ MaxFaults \in Nat
  /\ CacheLimit \in Nat \ {0}
  /\ Platforms \subseteq {"posix", "windows"}
  /\ Faults \in [Platforms -> SUBSET {"db", "disk", "corrupt", "idle", "week", "crash",
                                      "twoNames"}]

VARIABLES
  platform,   \* the build that runs
  status,     \* chat_messages.status
  told,       \* the final answer a client got for the message
  part,       \* uploading/<message>.part
  blob,       \* blobs/<xx>/<sha256>
  linked,     \* messages whose part is a second name of their blob
  session,    \* _upload_sessions
  pc,         \* what the message's worker does next
  mutex,      \* BlobInstallGcMutex is held
  gc,         \* phase of RunResourceCleanup
  todo,       \* what the phase still has to look at
  victim,     \* the file it is about to remove
  cache,      \* _published_cache of the download worker
  badRead,    \* a download of a published resource failed
  rowOld,     \* the rows are older than the retention time
  faults

vars == <<platform, status, told, part, blob, linked, session, pc, mutex, gc, todo, victim,
          cache, badRead, rowOld, faults>>

File == [data : UNION {[1..n -> {"ok", "bad"}] : n \in 0..Chunks},
         synced : BOOLEAN, old : BOOLEAN]

Blob == [data : UNION {[1..n -> {"ok", "bad"}] : n \in 0..Chunks},
         synced : BOOLEAN, old : BOOLEAN, durable : BOOLEAN]

UploadSession ==
  [received : 0..Chunks, hashValid : BOOLEAN, hashOk : BOOLEAN,
   final : {"", "ok", "bad"}, mismatches : 0..MaxMismatch,
   challenge : BOOLEAN, suppressed : BOOLEAN, idle : BOOLEAN]

ASSUME NoneAssumption == None \notin File /\ None \notin Blob /\ None \notin UploadSession

Steps == {"idle", "hash", "flush", "install", "unlink", "sync", "dedup", "publish",
          "restore", "proof"}

Init ==
  /\ platform \in Platforms
  /\ status = [m \in Messages |-> "pending"]
  /\ told = [m \in Messages |-> "none"]
  /\ part = [m \in Messages |-> None]
  /\ blob = [s \in Shas |-> None]
  /\ linked = {}
  /\ session = [m \in Messages |-> None]
  /\ pc = [m \in Messages |-> "idle"]
  /\ mutex = FALSE
  /\ gc = "off"
  /\ todo = {} /\ victim = None
  /\ cache = {} /\ badRead = FALSE
  /\ rowOld = FALSE
  /\ faults = 0

Fault(kind) == kind \in Faults[platform] /\ faults < MaxFaults /\ faults' = faults + 1

-----------------------------------------------------------------------------
(* Files.                                                                  *)

Length(f) == IF f = None THEN 0 ELSE Len(f.data)

(* Not touched for the retention time.                                     *)
Old(f) == f # None /\ f.old

AllOk(d) == \A i \in DOMAIN d : d[i] = "ok"

(* Sha256FileHex of the file equals the declared hash.                     *)
Intact(f) == f # None /\ Len(f.data) = Chunks /\ AllOk(f.data)

(* The part of m holds d from here on; the blob sees it while they share   *)
(* an inode. A file that already holds d is not touched.                   *)
PutPart(m, d) ==
  IF part[m] # None /\ part[m].data = d THEN UNCHANGED <<part, blob>>
  ELSE /\ part' = [part EXCEPT ![m] = [data |-> d, synced |-> FALSE, old |-> FALSE]]
       /\ blob' = IF m \in linked
                  THEN [blob EXCEPT ![Sha[m]].data = d, ![Sha[m]].synced = FALSE,
                                    ![Sha[m]].old = FALSE]
                  ELSE blob

RemovePart(m) ==
  /\ part' = [part EXCEPT ![m] = None]
  /\ linked' = linked \ {m}

(* Length alone cannot tell a complete last chunk from an interrupted one. *)
ResumePoint(m) == IF Length(part[m]) = 0 THEN 0 ELSE Length(part[m]) - 1

(* The part is cut down to the point an upload resumes from.               *)
RecoverUploadFile(m) ==
  IF part[m] = None THEN UNCHANGED <<part, blob>>
  ELSE PutPart(m, SubSeq(part[m].data, 1, ResumePoint(m)))

(* The session LoadUploadSession builds from the row and the part.         *)
NewSession(received) ==
  [received |-> received, hashValid |-> received = 0, hashOk |-> TRUE, final |-> "",
   mismatches |-> 0, challenge |-> FALSE, suppressed |-> FALSE, idle |-> FALSE]

Go(m, step) == pc' = [pc EXCEPT ![m] = step]

SetSession(m, s) == session' = [session EXCEPT ![m] = s]

Tell(m, answer) == told' = [told EXCEPT ![m] = answer]

-----------------------------------------------------------------------------
(* Requests of the client.                                                 *)

(* The chunk a client sends for place i: the last chunk of a changed       *)
(* source is not the declared one.                                         *)
Sent(m, i) == IF m \in Changed /\ i = Chunks - 1 THEN "bad" ELSE "ok"

(* The session of an earlier request, unless it was idle for half an hour  *)
(* and EvictIdleUploadSessions, which runs first, erases it.               *)
CachedSession(m) == IF session[m] # None /\ session[m].idle THEN None ELSE session[m]

(* HandleResourceChunk after WriteUploadChunk returned an error.           *)
ChunkFailed(s) == [s EXCEPT !.hashValid = FALSE, !.final = ""]

(* WriteUploadChunk of chunk c at place i, in session s and a part that    *)
(* holds `disk`, with what HandleResourceChunk makes of its result. A      *)
(* chunk may miss its own hash ("corrupt"), and a write may fail ("disk"). *)
WriteUploadChunk(m, s, exists, disk, i, c) ==
  LET Answer(t, d, step) ==
        /\ SetSession(m, t)
        /\ Go(m, step)
        /\ IF exists \/ d # <<>> THEN PutPart(m, d) ELSE UNCHANGED <<part, blob>>
      Fails == Answer(ChunkFailed(s), disk, "idle")
      Step(n) == IF n = Chunks THEN "hash" ELSE "idle"
  IN \/ /\ \/ i > s.received
           \/ i < s.received /\ i >= Len(disk)
           \/ i = s.received /\ i # 0 /\ ~exists
        /\ Fails
        /\ UNCHANGED faults
     \/ /\ i <= s.received
        /\ Fault("corrupt") \/ (i = s.received /\ Fault("disk"))
        /\ Fails
     \/ /\ i < s.received /\ i < Len(disk)
        /\ IF disk[i + 1] = c
           THEN Answer(s, disk, Step(s.received))
           ELSE Answer([ChunkFailed(s) EXCEPT !.received = i], SubSeq(disk, 1, i), "idle")
        /\ UNCHANGED faults
     \/ /\ i = s.received /\ i < Chunks
        /\ exists \/ i = 0
        /\ Answer([s EXCEPT !.received = i + 1,
                            !.hashOk = @ /\ (s.hashValid => c = "ok")],
                  Append(SubSeq(disk, 1, i), c), Step(i + 1))
        /\ UNCHANGED faults

(* 1505: a chunk. Without a cached session the row decides, and the part   *)
(* is taken up again one chunk back. A chunk says that the client sends    *)
(* bytes, so it ends a challenge.                                          *)
HandleResourceChunk(m, i) ==
  LET cached == CachedSession(m)
      s == IF cached # None THEN cached ELSE NewSession(ResumePoint(m))
      data == IF part[m] = None THEN <<>> ELSE part[m].data
      disk == IF cached # None THEN data ELSE SubSeq(data, 1, ResumePoint(m))
  IN /\ pc[m] = "idle"
     /\ \/ /\ cached = None
           /\ \/ Fault("db") /\ UNCHANGED told
              \/ status[m] # "pending" /\ Tell(m, status[m]) /\ UNCHANGED faults
           /\ SetSession(m, None)
           /\ UNCHANGED <<part, blob, pc>>
        \/ /\ cached # None \/ status[m] = "pending"
           /\ WriteUploadChunk(m, [s EXCEPT !.challenge = FALSE, !.suppressed = TRUE],
                               part[m] # None, disk, i, Sent(m, i))
           /\ UNCHANGED told
     /\ UNCHANGED <<platform, status, linked, mutex, gc, todo, victim, cache,
                    badRead, rowOld>>

(* 1507: how far is the upload. The row decides each time; a pending       *)
(* upload without a byte may get a challenge instead, when the sender has  *)
(* published the same content before and the blob has its length.          *)
HandleResourceUploadProgress(m) ==
  LET s == IF session[m] # None THEN session[m] ELSE NewSession(ResumePoint(m))
      Instant == /\ s.received = 0 /\ ~s.suppressed
                 /\ \E n \in Messages : status[n] = "published" /\ Sha[n] = Sha[m]
                 /\ Length(blob[Sha[m]]) = Chunks
  IN /\ pc[m] = "idle"
     /\ \/ /\ status[m] = "published"
           /\ Tell(m, "published")
           /\ UNCHANGED <<session, part, blob>>
        \/ /\ status[m] = "failed"
           /\ Tell(m, "failed")
           /\ SetSession(m, None)
           /\ UNCHANGED <<part, blob>>
        \/ /\ status[m] = "pending"
           /\ SetSession(m, [s EXCEPT !.idle = FALSE, !.challenge = @ \/ Instant])
           /\ IF session[m] = None THEN RecoverUploadFile(m) ELSE UNCHANGED <<part, blob>>
           /\ UNCHANGED told
     /\ UNCHANGED <<platform, status, linked, pc, mutex, gc, todo, victim, cache,
                    badRead, rowOld, faults>>

(* EvictIdleUploadSessions when another upload of the same worker runs.    *)
EvictIdleUploadSessions(m) ==
  /\ pc[m] = "idle"
  /\ session[m] # None /\ session[m].idle
  /\ SetSession(m, None)
  /\ UNCHANGED <<platform, status, told, part, blob, linked, pc, mutex, gc, todo, victim, cache, badRead, rowOld, faults>>

-----------------------------------------------------------------------------
(* CompleteResourceUpload, step by step.                                   *)

(* full_hash: what was computed before, the running hash, or the hash of   *)
(* the file; "" when the file cannot be read.                              *)
FullHash(m) ==
  LET s == session[m]
      Verdict(good) == IF good THEN "ok" ELSE "bad"
  IN CASE s.final # "" -> s.final
       [] s.final = "" /\ s.hashValid -> Verdict(s.hashOk)
       [] OTHER -> IF part[m] = None THEN "" ELSE Verdict(Intact(part[m]))

(* Mutant: the part is gone, but the session still counts its chunks.      *)
StartOverCounting(s) == [s EXCEPT !.hashValid = TRUE, !.hashOk = TRUE, !.final = ""]

(* The session of an upload that starts again from nothing.                *)
StartOver(s) ==
  [s EXCEPT !.received = 0, !.hashValid = TRUE, !.hashOk = TRUE, !.final = ""]

(* The whole file has the declared hash, or not: then the upload starts    *)
(* again from nothing, and after MaxMismatch times the message fails.      *)
CheckWholeFile(m) ==
  LET s == session[m]
      count == s.mismatches + 1
      again == [s EXCEPT !.mismatches = IF count < MaxMismatch THEN count ELSE MaxMismatch,
                         !.final = "bad"]
  IN /\ pc[m] = "hash"
     /\ \/ /\ FullHash(m) = ""
           /\ Go(m, "idle")
           /\ UNCHANGED <<status, told, part, linked, session, faults>>
        \/ /\ FullHash(m) = "ok"
           /\ SetSession(m, [s EXCEPT !.final = "ok"])
           /\ Go(m, "flush")
           /\ UNCHANGED <<status, told, part, linked, faults>>
        \/ /\ FullHash(m) = "bad" /\ count >= MaxMismatch
           /\ \/ /\ status[m] = "pending"
                 /\ status' = [status EXCEPT ![m] = "failed"]
                 /\ RemovePart(m)
                 /\ SetSession(m, None)
                 /\ Tell(m, "failed")
                 /\ UNCHANGED faults
              \/ /\ Fault("db") \/ (status[m] # "pending" /\ UNCHANGED faults)
                 /\ SetSession(m, again)
                 /\ UNCHANGED <<status, told, part, linked>>
           /\ Go(m, "idle")
        \/ /\ FullHash(m) = "bad" /\ count < MaxMismatch
           /\ \/ /\ RemovePart(m)
                 /\ SetSession(m, StartOver(again))
                 /\ UNCHANGED faults
              \/ /\ Fault("disk")
                 /\ SetSession(m, again)
                 /\ UNCHANGED <<part, linked>>
           /\ Go(m, "idle")
           /\ UNCHANGED <<status, told>>
     /\ UNCHANGED <<platform, blob, mutex, gc, todo, victim, cache, badRead, rowOld>>

(* Mutant: the part is not forced to disk.                                 *)
NoFlush(m) ==
  /\ pc[m] = "flush"
  /\ Go(m, "install")
  /\ UNCHANGED <<platform, status, told, part, blob, linked, session, mutex, gc, todo, victim,
                 cache, badRead, rowOld, faults>>

(* The data must be on disk before a durable name leads to it.             *)
FlushFileToDisk(m) ==
  /\ pc[m] = "flush"
  /\ \/ /\ part[m] # None
        /\ part' = [part EXCEPT ![m].synced = TRUE]
        /\ blob' = IF m \in linked THEN [blob EXCEPT ![Sha[m]].synced = TRUE] ELSE blob
        /\ Go(m, "install")
        /\ UNCHANGED faults
     \/ /\ Fault("disk") \/ (part[m] = None /\ UNCHANGED faults)
        /\ Go(m, "idle")
        /\ UNCHANGED <<part, blob>>
  /\ UNCHANGED <<platform, status, told, linked, session, mutex, gc, todo, victim, cache,
                 badRead, rowOld>>

(* EnsureDirectoryDurable: on POSIX the whole chain of directories is      *)
(* written to disk, and with it the entry of a blob that is already there. *)
EnsureDirectoryDurable(s) ==
  blob' = IF blob[s] # None /\ platform = "posix"
          THEN [blob EXCEPT ![s].durable = TRUE] ELSE blob

(* The mutex, the directories, and the rename that never replaces a blob:  *)
(* one move on Windows; on POSIX a second name first.                      *)
DurableRename(m) ==
  LET s == Sha[m]
      installed(d) == [data |-> part[m].data, synced |-> part[m].synced,
                       old |-> part[m].old, durable |-> d]
  IN /\ pc[m] = "install"
     /\ ~mutex /\ mutex' = TRUE
     /\ \/ /\ blob[s] # None
           /\ EnsureDirectoryDurable(s)
           /\ Go(m, "dedup")
           /\ UNCHANGED <<part, linked, faults>>
        \/ /\ blob[s] = None /\ part[m] # None /\ platform = "windows"
           /\ blob' = [blob EXCEPT ![s] = installed(TRUE)]
           /\ RemovePart(m)
           /\ \/ Go(m, "publish") /\ UNCHANGED faults
              \/ Go(m, "restore") /\ Fault("disk")
        \/ /\ blob[s] = None /\ part[m] # None /\ platform = "posix"
           /\ blob' = [blob EXCEPT ![s] = installed(FALSE)]
           /\ linked' = linked \cup {m}
           /\ Go(m, "unlink")
           /\ UNCHANGED <<part, faults>>
        \/ /\ Fault("disk") \/ (blob[s] = None /\ part[m] = None /\ UNCHANGED faults)
           /\ Go(m, "restore")
           /\ UNCHANGED <<part, blob, linked>>
     /\ UNCHANGED <<platform, status, told, session, gc, todo, victim, cache, badRead,
                    rowOld>>

(* POSIX: the old name goes; when it cannot, both stay.                    *)
UnlinkPart(m) ==
  /\ pc[m] = "unlink"
  /\ \/ /\ RemovePart(m)
        /\ Go(m, "sync")
        /\ UNCHANGED faults
     \/ /\ "twoNames" \in Faults[platform] /\ Fault("disk")
        /\ Go(m, "restore")
        /\ UNCHANGED <<part, linked>>
  /\ UNCHANGED <<platform, status, told, blob, session, mutex, gc, todo, victim, cache,
                 badRead, rowOld>>

(* POSIX: both directories are written to disk.                            *)
FsyncDirectory(m) ==
  /\ pc[m] = "sync"
  /\ \/ /\ blob' = [blob EXCEPT ![Sha[m]].durable = TRUE]
        /\ Go(m, "publish")
        /\ UNCHANGED faults
     \/ /\ Fault("disk")
        /\ Go(m, "restore")
        /\ UNCHANGED blob
  /\ UNCHANGED <<platform, status, told, part, linked, session, mutex, gc, todo, victim, cache, badRead, rowOld>>

(* dedup_hit: the part is not needed when the blob has the right length    *)
(* and hash and can be forced to disk; otherwise both are kept.            *)
VerifyExistingBlob(m) ==
  LET s == Sha[m]
  IN /\ pc[m] = "dedup"
     /\ \/ /\ Intact(blob[s])
           /\ blob' = [blob EXCEPT ![s].synced = TRUE]
           /\ \/ RemovePart(m) /\ UNCHANGED faults
              \/ Fault("disk") /\ m \notin linked /\ UNCHANGED <<part, linked>>
           /\ Go(m, "publish")
        \/ /\ Fault("disk") \/ (~Intact(blob[s]) /\ UNCHANGED faults)
           /\ Go(m, "restore")
           /\ UNCHANGED <<part, blob, linked>>
     /\ UNCHANGED <<platform, status, told, session, mutex, gc, todo, victim, cache,
                    badRead, rowOld>>

(* The transaction of MysqlDao::CompleteResourceUpload: only a pending     *)
(* message becomes published.                                              *)
PublishTxn(m) ==
  status' = IF status[m] = "pending" THEN [status EXCEPT ![m] = "published"] ELSE status

(* The publication. A transient error leaves open whether the commit       *)
(* happened; the upload stays as it is for another attempt.                *)
CompleteResourceUpload(m) ==
  /\ pc[m] = "publish"
  /\ \/ /\ PublishTxn(m)
        /\ SetSession(m, None)
        /\ Tell(m, IF status[m] = "failed" THEN "failed" ELSE "published")
        /\ mutex' = FALSE
        /\ Go(m, "idle")
        /\ UNCHANGED faults
     \/ /\ Fault("db")
        /\ PublishTxn(m) \/ UNCHANGED status
        /\ Go(m, "restore")
        /\ UNCHANGED <<told, session, mutex>>
  /\ UNCHANGED <<platform, part, blob, linked, gc, todo, victim, cache, badRead, rowOld>>

(* restore_part_after_publish_failure: the blob may be published already   *)
(* and is never moved back; the part is copied from it, or the upload goes *)
(* on from what the part holds. Then the mutex is released.                *)
RestorePart(m) ==
  LET full == session[m].received
  IN /\ pc[m] = "restore"
     /\ \/ /\ Length(part[m]) = full
           /\ UNCHANGED <<part, blob, linked, session, faults>>
        \/ /\ Length(part[m]) # full /\ Length(blob[Sha[m]]) = full
           /\ part' = [part EXCEPT ![m] = [data |-> blob[Sha[m]].data,
                                          synced |-> FALSE, old |-> FALSE]]
           /\ linked' = linked \ {m}
           /\ UNCHANGED <<blob, session, faults>>
        \/ /\ Length(part[m]) # full
           /\ \/ Length(blob[Sha[m]]) # full /\ UNCHANGED faults
              \/ Fault("disk")
           /\ RecoverUploadFile(m)
           /\ SetSession(m, None)
           /\ UNCHANGED linked
     /\ mutex' = FALSE
     /\ Go(m, "idle")
     /\ UNCHANGED <<platform, status, told, gc, todo, victim, cache, badRead, rowOld>>

-----------------------------------------------------------------------------
(* 1513: the proof that the client holds the content.                      *)

(* A proof counts once, for the connection that holds the challenge.       *)
HandleInstantProof(m, good) ==
  /\ pc[m] = "idle"
  /\ \/ /\ status[m] # "pending"
        /\ SetSession(m, None)
        /\ Tell(m, status[m])
        /\ IF status[m] = "published" THEN RemovePart(m) ELSE UNCHANGED <<part, linked>>
        /\ UNCHANGED pc
     \/ /\ status[m] = "pending"
        /\ session[m] # None /\ session[m].challenge
        /\ SetSession(m, [session[m] EXCEPT !.challenge = FALSE, !.suppressed = @ \/ ~good])
        /\ Go(m, IF good THEN "proof" ELSE "idle")
        /\ UNCHANGED <<told, part, linked>>
  /\ UNCHANGED <<platform, status, blob, mutex, gc, todo, victim, cache, badRead, rowOld,
                 faults>>

(* Under the mutex the blob is read again and the message published. Only  *)
(* a section is compared, so a blob with a fault elsewhere may pass.       *)
PublishByProof(m) ==
  LET s == Sha[m]
  IN /\ pc[m] = "proof"
     /\ ~mutex
     /\ \/ /\ ~Intact(blob[s])
           /\ SetSession(m, [session[m] EXCEPT !.suppressed = TRUE])
           /\ UNCHANGED <<status, told, part, linked, faults>>
        \/ /\ Length(blob[s]) = Chunks
           /\ \/ /\ PublishTxn(m)
                 /\ SetSession(m, None)
                 /\ Tell(m, IF status[m] = "failed" THEN "failed" ELSE "published")
                 /\ IF status[m] = "failed" THEN UNCHANGED <<part, linked>>
                    ELSE RemovePart(m)
                 /\ UNCHANGED faults
              \/ /\ Fault("db")
                 /\ PublishTxn(m) \/ UNCHANGED status
                 /\ UNCHANGED <<told, part, linked, session>>
     /\ Go(m, "idle")
     /\ UNCHANGED <<platform, blob, mutex, gc, todo, victim, cache, badRead, rowOld>>

-----------------------------------------------------------------------------
(* Downloads: 1509 and 1511, by a user who may see the message.            *)

(* ResolvePublished: rows that are published are remembered; a full cache  *)
(* is emptied first.                                                       *)
ResolvePublished(m) ==
  /\ m \in cache \/ status[m] = "published"
  /\ cache' = IF m \in cache THEN cache
              ELSE IF Cardinality(cache) >= CacheLimit THEN {m} ELSE cache \cup {m}

HandleResourceDownInfo(m) ==
  /\ ResolvePublished(m)
  /\ badRead' = (badRead \/ blob[Sha[m]] = None)
  /\ UNCHANGED <<platform, status, told, part, blob, linked, session, pc, mutex, gc, todo,
                 victim, rowOld, faults>>

(* Chunk i is read through a file the worker may have kept open; a blob    *)
(* that is published is never replaced, so that makes no difference.       *)
HandleResourceChunkDown(m, i) ==
  /\ ResolvePublished(m)
  /\ badRead' = (badRead \/ i >= Length(blob[Sha[m]]) \/ blob[Sha[m]].data[i + 1] # "ok")
  /\ UNCHANGED <<platform, status, told, part, blob, linked, session, pc, mutex, gc, todo,
                 victim, rowOld, faults>>

-----------------------------------------------------------------------------
(* RunResourceCleanup: pending rows that nobody works on, then old parts,  *)
(* then old blobs that no published message refers to.                     *)

(* A page of old pending rows whose part is missing or old.                *)
CollectExpired ==
  /\ gc = "off" /\ rowOld
  /\ \/ /\ gc' = "expire"
        /\ todo' = {m \in Messages : status[m] = "pending"
                                     /\ (part[m] = None \/ Old(part[m]))}
        /\ UNCHANGED faults
     \/ /\ Fault("db")
        /\ gc' = "parts" /\ todo' = Messages
  /\ UNCHANGED <<platform, status, told, part, blob, linked, session, pc, mutex, victim,
                 cache, badRead, rowOld>>

(* UPDATE ... WHERE status = pending.                                      *)
Expired(m) == IF status[m] = "pending" THEN "failed" ELSE status[m]

MarkResourceExpired ==
  /\ gc = "expire"
  /\ \/ /\ status' = [m \in Messages |-> IF m \in todo THEN Expired(m) ELSE status[m]]
        /\ UNCHANGED faults
     \/ /\ Fault("db")
        /\ UNCHANGED status
  /\ gc' = "parts" /\ todo' = Messages
  /\ UNCHANGED <<platform, told, part, blob, linked, session, pc, mutex, victim, cache, badRead, rowOld>>

(* What follows when the scan has dealt with x.                            *)
ScanOn(phase, x) ==
  LET rest == todo \ {x}
  IN IF rest # {} THEN gc' = phase /\ todo' = rest
     ELSE IF phase = "parts" THEN gc' = "blobs" /\ todo' = Shas
     ELSE gc' = "off" /\ todo' = {}

(* The age of a part is looked at, and the file is removed afterwards.     *)
CheckPart(m) ==
  /\ gc = "parts" /\ m \in todo
  /\ IF Old(part[m])
     THEN gc' = "rmpart" /\ victim' = m /\ UNCHANGED todo
     ELSE ScanOn("parts", m) /\ UNCHANGED victim
  /\ UNCHANGED <<platform, status, told, part, blob, linked, session, pc, mutex, cache, badRead, rowOld, faults>>

RemoveStalePart ==
  /\ gc = "rmpart"
  /\ RemovePart(victim)
  /\ ScanOn("parts", victim)
  /\ victim' = None
  /\ UNCHANGED <<platform, status, told, blob, session, pc, mutex, cache, badRead,
                 rowOld, faults>>

(* Mutant: only the rows of a message in state pending keep a blob.        *)
HasPendingReference(s) == \E m \in Messages : status[m] = "pending" /\ Sha[m] = s

BlobHasPublishedReference(s) ==
  \E m \in Messages : status[m] = "published" /\ Sha[m] = s

(* Under the mutex: is the old blob referred to? When the database cannot  *)
(* say, it is kept.                                                        *)
CheckBlob(s) ==
  /\ gc = "blobs" /\ s \in todo
  /\ \/ /\ ~Old(blob[s])
        /\ ScanOn("blobs", s)
        /\ UNCHANGED <<victim, mutex, faults>>
     \/ /\ Old(blob[s]) /\ ~mutex
        /\ Fault("db") \/ (BlobHasPublishedReference(s) /\ UNCHANGED faults)
        /\ ScanOn("blobs", s)
        /\ UNCHANGED <<victim, mutex>>
     \/ /\ Old(blob[s]) /\ ~mutex
        /\ ~BlobHasPublishedReference(s)
        /\ gc' = "rmblob" /\ victim' = s /\ mutex' = TRUE
        /\ UNCHANGED <<todo, faults>>
  /\ UNCHANGED <<platform, status, told, part, blob, linked, session, pc, cache,
                 badRead, rowOld>>

RemoveOrphanBlob ==
  /\ gc = "rmblob"
  /\ blob' = [blob EXCEPT ![victim] = None]
  /\ linked' = {m \in linked : Sha[m] # victim}
  /\ ScanOn("blobs", victim)
  /\ victim' = None
  /\ mutex' = FALSE
  /\ UNCHANGED <<platform, status, told, part, session, pc, cache, badRead, rowOld,
                 faults>>

-----------------------------------------------------------------------------
(* Time and crashes.                                                       *)

(* Half an hour without a request for the upload.                          *)
HalfAnHour(m) ==
  /\ Fault("idle")
  /\ pc[m] = "idle" /\ session[m] # None /\ ~session[m].idle
  /\ SetSession(m, [session[m] EXCEPT !.idle = TRUE])
  /\ UNCHANGED <<platform, status, told, part, blob, linked, pc, mutex, gc, todo, victim,
                 cache, badRead, rowOld>>

(* A week without any request, once: the retention time of all there is    *)
(* passes.                                                                 *)
Week ==
  /\ "week" \in Faults[platform] /\ ~rowOld
  /\ gc = "off" /\ \A m \in Messages : pc[m] = "idle"
  /\ rowOld' = TRUE
  /\ part' = [m \in Messages |-> IF part[m] = None THEN None
                                 ELSE [part[m] EXCEPT !.old = TRUE]]
  /\ blob' = [s \in Shas |-> IF blob[s] = None THEN None
                             ELSE [blob[s] EXCEPT !.old = TRUE]]
  /\ session' = [m \in Messages |-> IF session[m] = None THEN None
                                    ELSE [session[m] EXCEPT !.idle = TRUE]]
  /\ faults' = MaxFaults
  /\ UNCHANGED <<platform, status, told, linked, pc, mutex, gc, todo, victim, cache, badRead>>

(* What a file holds after the machine stopped: all of it when it was      *)
(* forced to disk, otherwise any of it, with the chunk being written.      *)
Survivors(f) ==
  IF f = None THEN {None}
  ELSE IF f.synced THEN {f}
  ELSE {None} \cup
       {[f EXCEPT !.data = d, !.synced = TRUE] :
          d \in {e \in UNION {[1..n -> {"ok", "bad"}] : n \in 0..Chunks} :
                   /\ Len(e) <= Len(f.data) + 1
                   /\ \A i \in DOMAIN e :
                        e[i] = "ok" => i <= Len(f.data) /\ f.data[i] = "ok"}}

BlobSurvivors(s) ==
  Survivors(blob[s]) \cup
  (IF blob[s] # None /\ ~blob[s].durable THEN {None} ELSE {})

(* Before the directories are synced the old name may be back.             *)
PartSurvivors(m) ==
  IF pc[m] = "sync"
  THEN {None, [data |-> blob[Sha[m]].data, synced |-> TRUE, old |-> FALSE]}
  ELSE Survivors(part[m])

(* The process or the machine dies. "twoNames": also while a part and a    *)
(* blob are two names of one file.                                         *)
Crash ==
  /\ Fault("crash")
  /\ blob' \in {f \in [Shas -> UNION {BlobSurvivors(s) : s \in Shas}] :
                  \A s \in Shas : f[s] \in BlobSurvivors(s)}
  /\ part' \in {f \in [Messages -> UNION {PartSurvivors(m) : m \in Messages}] :
                  \A m \in Messages : f[m] \in PartSurvivors(m)}
  /\ linked' = {m \in Messages : /\ m \in linked \/ pc[m] = "sync"
                                 /\ part'[m] # None /\ blob'[Sha[m]] # None}
  /\ \A m \in linked' : "twoNames" \in Faults[platform] /\ part'[m].data = blob'[Sha[m]].data
  /\ session' = [m \in Messages |-> None]
  /\ pc' = [m \in Messages |-> "idle"]
  /\ mutex' = FALSE /\ gc' = "off" /\ todo' = {} /\ victim' = None
  /\ cache' = {}
  /\ UNCHANGED <<platform, status, told, badRead, rowOld>>

-----------------------------------------------------------------------------
Complete(m) ==
  \/ CheckWholeFile(m) \/ FlushFileToDisk(m) \/ DurableRename(m) \/ UnlinkPart(m)
  \/ FsyncDirectory(m) \/ VerifyExistingBlob(m) \/ CompleteResourceUpload(m)
  \/ RestorePart(m) \/ PublishByProof(m)

Collect ==
  \/ CollectExpired \/ MarkResourceExpired \/ RemoveStalePart \/ RemoveOrphanBlob
  \/ \E m \in Messages : CheckPart(m)
  \/ \E s \in Shas : CheckBlob(s)

Next ==
  \/ \E m \in Messages :
       \/ \E i \in 0..Chunks - 1 : HandleResourceChunk(m, i) \/ HandleResourceChunkDown(m, i)
       \/ HandleResourceUploadProgress(m)
       \/ EvictIdleUploadSessions(m)
       \/ \E good \in BOOLEAN : HandleInstantProof(m, good)
       \/ Complete(m)
       \/ HandleResourceDownInfo(m)
       \/ HalfAnHour(m)
  \/ Collect
  \/ Week
  \/ Crash

Spec == Init /\ [][Next]_vars

(* The chunk a client that follows the answers sends next.                 *)
Wanted(m) ==
  LET s == CachedSession(m)
  IN IF s = None THEN ResumePoint(m)
     ELSE IF s.received = Chunks THEN Chunks - 1 ELSE s.received

ClientGoesOn(m) ==
  /\ told[m] = "none"
  /\ \E i \in 0..Chunks - 1 : i = Wanted(m) /\ HandleResourceChunk(m, i)

ClientAsks(m) == told[m] = "none" /\ HandleResourceUploadProgress(m)

(* Threads run, and a client asks and sends until it has a final answer.   *)
FairSpec ==
  /\ Spec
  /\ \A m \in Messages :
       /\ WF_vars(Complete(m))
       /\ SF_vars(ClientGoesOn(m))
       /\ SF_vars(ClientAsks(m))
  /\ WF_vars(Collect)

-----------------------------------------------------------------------------
(* Every variable stays in its range, and the download worker's cache of   *)
(* rows within its limit.                                                  *)
TypeOK ==
  /\ platform \in Platforms
  /\ status \in [Messages -> {"pending", "published", "failed"}]
  /\ told \in [Messages -> {"none", "published", "failed"}]
  /\ part \in [Messages -> File \cup {None}]
  /\ blob \in [Shas -> Blob \cup {None}]
  /\ linked \subseteq {m \in Messages : part[m] # None /\ blob[Sha[m]] # None}
  /\ session \in [Messages -> UploadSession \cup {None}]
  /\ pc \in [Messages -> Steps]
  /\ mutex \in BOOLEAN
  /\ gc \in {"off", "expire", "parts", "rmpart", "blobs", "rmblob"}
  /\ todo \subseteq Messages \cup Shas
  /\ victim \in Messages \cup Shas \cup {None}
  /\ Cardinality(cache) <= CacheLimit /\ cache \subseteq Messages
  /\ badRead \in BOOLEAN /\ rowOld \in BOOLEAN
  /\ faults \in 0..MaxFaults

(* A published message has its blob, complete, with the declared content,  *)
(* flushed and under a durable name: whatever installs, deduplicates,      *)
(* restores, proves, collects and crashes do to files, no row is committed *)
(* before its file is safe, and no file goes that a row refers to.  Stated *)
(* together with the types.                                                *)
PublishedIntact ==
  /\ TypeOK
  /\ \A m \in Messages : status[m] = "published" =>
       /\ Intact(blob[Sha[m]])
       /\ blob[Sha[m]].synced /\ blob[Sha[m]].durable

(* No download of a message that its worker once saw published ever finds  *)
(* the file missing, short or different, cached row or not.                *)
DownloadsWork == ~badRead

(* A client that keeps asking and sending is told the outcome of every     *)
(* message, and it is "published" unless the source changed or the row     *)
(* expired, although faults, restarts and evictions interrupt it.          *)
UploadSettles ==
  \A m \in Messages :
    <>(IF m \in Changed \/ rowOld THEN told[m] # "none" ELSE told[m] = "published")

=============================================================================
