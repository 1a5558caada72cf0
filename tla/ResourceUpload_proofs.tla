------------------------ MODULE ResourceUpload_proofs ------------------------
(***************************************************************************)
(* Theorems about ResourceUpload, for every set of messages and contents,  *)
(* every length of a file and every number of faults, on both platforms.   *)
(* They leave out the one fault under which they do not hold, a part and a *)
(* blob that stay two names of one file.                                   *)
(***************************************************************************)
EXTENDS ResourceUpload, FiniteSetTheorems, TLAPS

\* The time a prover has for a step.
USE ZenonT(3), SMTT(30)

-----------------------------------------------------------------------------
(* The inductive invariant.                                                *)

OneName == \A p \in Platforms : "twoNames" \notin Faults[p]

TypeInv == TypeOK /\ IsFiniteSet(cache)

\* From the verdict on the whole file on, the upload is complete.
Completing == {"flush", "install", "unlink", "sync", "dedup", "publish", "restore"}

\* The steps taken with BlobInstallGcMutex held.
Locked == {"unlink", "sync", "dedup", "publish", "restore"}

\* One worker or the collector holds the mutex.
MutexInv ==
  /\ \A m \in Messages : pc[m] \in Locked =>
       mutex /\ gc # "rmblob" /\ \A n \in Messages \ {m} : pc[n] \notin Locked
  /\ gc = "rmblob" => mutex

(* What a session says of the part: how long it is, and that its chunks are
   right when the running hash or the verdict on the whole file says so.     *)
SessionFits(s, f) ==
  /\ f # None => Len(f.data) = s.received
  /\ s.final = "ok" => s.received = Chunks
  /\ f # None /\ (s.final = "ok" \/ (s.hashValid /\ s.hashOk)) => AllOk(f.data)

SessionInv(m) == session[m] # None => SessionFits(session[m], part[m])

\* What a worker that is under way relies on.
StepInv(m) ==
  /\ pc[m] \in Completing \cup {"hash", "proof"} => session[m] # None
  /\ pc[m] = "hash" => session[m].received = Chunks
  /\ pc[m] \in Completing => session[m].final = "ok"
  /\ pc[m] = "install" /\ part[m] # None => part[m].synced
  /\ pc[m] \in {"unlink", "sync", "dedup", "publish"} => blob[Sha[m]] # None
  /\ pc[m] \in {"dedup", "publish"} => blob[Sha[m]].durable

\* A challenge rests on a message published with the same content.
ProofInv(m) ==
  pc[m] = "proof" \/ (session[m] # None /\ session[m].challenge)
    => BlobHasPublishedReference(Sha[m])

\* A part and a blob are two names of one file only until the part goes.
LinkInv(m) == m \in linked => pc[m] = "unlink"

MessageInv(m) == SessionInv(m) /\ StepInv(m) /\ ProofInv(m) /\ LinkInv(m)

\* Whatever is installed is whole and flushed, and on Windows durable.
BlobInv(s) ==
  blob[s] # None =>
    Intact(blob[s]) /\ blob[s].synced /\ (platform = "windows" => blob[s].durable)

\* The collector is about to remove a blob that no published row refers to.
VictimInv == gc = "rmblob" => ~BlobHasPublishedReference(victim)

PublishedInv ==
  \A m \in Messages : status[m] = "published" => blob[Sha[m]] # None /\ blob[Sha[m]].durable

ReadInv == ~badRead /\ \A m \in cache : status[m] = "published"

IInv ==
  /\ TypeInv /\ MutexInv
  /\ \A m \in Messages : MessageInv(m)
  /\ \A s \in Shas : BlobInv(s)
  /\ VictimInv /\ PublishedInv /\ ReadInv

-----------------------------------------------------------------------------
(* What a file can hold.                                                   *)

Data == UNION {[1..n -> {"ok", "bad"}] : n \in 0..Chunks}

\* A file holds at most Chunks chunks, each right or not.
LEMMA DataIs ==
  ASSUME NEW d PROVE d \in Data <=> d \in Seq({"ok", "bad"}) /\ Len(d) <= Chunks
<1>1. d \in Data => d \in Seq({"ok", "bad"}) /\ Len(d) <= Chunks
  <2>1. SUFFICES ASSUME NEW n \in 0..Chunks, d \in [1..n -> {"ok", "bad"}]
                 PROVE  d \in Seq({"ok", "bad"}) /\ Len(d) <= Chunks
    BY DEF Data
  <2>2. n \in Nat /\ n <= Chunks
    BY <2>1, UploadAssumption
  <2>. QED  BY <2>1, <2>2
<1>2. ASSUME d \in Seq({"ok", "bad"}), Len(d) <= Chunks PROVE d \in Data
  <2>1. Len(d) \in 0..Chunks /\ d \in [1..Len(d) -> {"ok", "bad"}]
    BY <1>2, UploadAssumption
  <2>. QED  BY <2>1 DEF Data
<1>. QED  BY <1>1, <1>2

LEMMA EmptyFile == <<>> \in Data /\ AllOk(<<>>) /\ SubSeq(<<>>, 1, 0) = <<>>
<1>1. <<>> \in Seq({"ok", "bad"}) /\ Len(<<>>) <= Chunks
  BY UploadAssumption
<1>2. <<>> \in Data
  BY <1>1, DataIs, Zenon
<1>3. AllOk(<<>>)
  BY DEF AllOk
<1>4. SubSeq(<<>>, 1, 0) = <<>>
  OBVIOUS
<1>. QED  BY <1>2, <1>3, <1>4

\* What is cut off at the end leaves a file, and right chunks stay right.
LEMMA Cut ==
  ASSUME NEW d \in Data, NEW k \in Nat, k <= Len(d)
  PROVE  /\ SubSeq(d, 1, k) \in Data
         /\ Len(SubSeq(d, 1, k)) = k
         /\ AllOk(d) => AllOk(SubSeq(d, 1, k))
<1>1. d \in Seq({"ok", "bad"}) /\ Len(d) <= Chunks
  BY DataIs
<1>2. /\ SubSeq(d, 1, k) \in Seq({"ok", "bad"})
      /\ Len(SubSeq(d, 1, k)) = k
      /\ \A i \in 1..k : SubSeq(d, 1, k)[i] = d[i]
  BY <1>1
<1>3. SubSeq(d, 1, k) \in Data
  <2>. DEFINE e == SubSeq(d, 1, k)
  <2>1. e \in Seq({"ok", "bad"}) /\ Len(e) <= Chunks
    BY <1>1, <1>2, UploadAssumption
  <2>. HIDE DEF e
  <2>2. e \in Data
    BY <2>1, DataIs
  <2>. QED  BY <2>2 DEF e
<1>4. AllOk(d) => AllOk(SubSeq(d, 1, k))
  BY <1>1, <1>2 DEF AllOk
<1>. QED  BY <1>2, <1>3, <1>4

\* A right chunk appended to right chunks.
LEMMA Appended ==
  ASSUME NEW d \in Data, Len(d) < Chunks, NEW c \in {"ok", "bad"}
  PROVE  /\ Append(d, c) \in Data
         /\ Len(Append(d, c)) = Len(d) + 1
         /\ AllOk(d) /\ c = "ok" => AllOk(Append(d, c))
<1>1. d \in Seq({"ok", "bad"}) /\ Len(d) <= Chunks
  BY DataIs
<1>2. /\ Append(d, c) \in Seq({"ok", "bad"})
      /\ Len(Append(d, c)) = Len(d) + 1
      /\ \A i \in 1..Len(d) : Append(d, c)[i] = d[i]
      /\ Append(d, c)[Len(d) + 1] = c
  BY <1>1
<1>3. Append(d, c) \in Data
  <2>. DEFINE e == Append(d, c)
  <2>1. e \in Seq({"ok", "bad"}) /\ Len(e) <= Chunks
    BY <1>1, <1>2, UploadAssumption
  <2>. HIDE DEF e
  <2>2. e \in Data
    BY <2>1, DataIs
  <2>. QED  BY <2>2 DEF e
<1>4. ASSUME AllOk(d), c = "ok" PROVE AllOk(Append(d, c))
  <2>1. SUFFICES ASSUME NEW i \in 1..Len(d) + 1 PROVE Append(d, c)[i] = "ok"
    BY <1>1, <1>2 DEF AllOk
  <2>2. CASE i \in 1..Len(d)
    BY <1>1, <1>2, <1>4, <2>2 DEF AllOk
  <2>3. CASE i = Len(d) + 1
    BY <1>2, <1>4, <2>3
  <2>. QED  BY <1>1, <2>2, <2>3
<1>. QED  BY <1>2, <1>3, <1>4

\* The fields of the files on disk and of the sessions.
LEMMA PartType ==
  ASSUME TypeOK, NEW m \in Messages, part[m] # None
  PROVE  /\ part[m] \in File /\ part[m].data \in Data /\ Len(part[m].data) \in 0..Chunks
         /\ part[m].synced \in BOOLEAN /\ part[m].old \in BOOLEAN
<1>1. part[m] \in File
  BY DEF TypeOK
<1>2. part[m].data \in Data /\ part[m].synced \in BOOLEAN /\ part[m].old \in BOOLEAN
  BY <1>1 DEF File, Data
<1>. QED  BY <1>1, <1>2, DataIs

LEMMA BlobType ==
  ASSUME TypeOK, NEW s \in Shas, blob[s] # None
  PROVE  /\ blob[s] \in Blob /\ blob[s].data \in Data /\ Len(blob[s].data) \in 0..Chunks
         /\ blob[s].synced \in BOOLEAN /\ blob[s].old \in BOOLEAN /\ blob[s].durable \in BOOLEAN
<1>1. blob[s] \in Blob
  BY DEF TypeOK
<1>2. /\ blob[s].data \in Data /\ blob[s].synced \in BOOLEAN /\ blob[s].old \in BOOLEAN
      /\ blob[s].durable \in BOOLEAN
  BY <1>1 DEF Blob, Data
<1>. QED  BY <1>1, <1>2, DataIs

LEMMA NewFile ==
  ASSUME NEW d \in Data, NEW f \in BOOLEAN, NEW o \in BOOLEAN
  PROVE  [data |-> d, synced |-> f, old |-> o] \in File
BY DEF File, Data

LEMMA NewBlob ==
  ASSUME NEW d \in Data, NEW f \in BOOLEAN, NEW o \in BOOLEAN, NEW e \in BOOLEAN
  PROVE  [data |-> d, synced |-> f, old |-> o, durable |-> e] \in Blob
BY DEF Blob, Data

-----------------------------------------------------------------------------
(* How the invariant is kept by a step that concerns one message.          *)

\* A published row stays published (no transaction takes it back).
StatusGrows == \A n \in Messages : status[n] = "published" => status'[n] = "published"

\* A blob stays, and stays durable.
BlobKeeps(s) == blob[s] # None => blob'[s] # None /\ (blob[s].durable => blob'[s].durable)

\* No other message is touched.
Alone(m) ==
  /\ \A n \in Messages \ {m} :
       /\ status'[n] = status[n] /\ part'[n] = part[n]
       /\ session'[n] = session[n] /\ pc'[n] = pc[n]
  /\ linked' \subseteq linked \cup {m}
  /\ UNCHANGED <<platform, gc, victim, cache, badRead>>

\* A row is published over a durable blob, and not while the collector removes one.
MayPublish(m) ==
  status'[m] = "published" =>
    \/ status[m] = "published"
    \/ blob[Sha[m]] # None /\ blob[Sha[m]].durable /\ gc # "rmblob"

\* A message whose worker does not move keeps what it relies on.
LEMMA MessageKept ==
  ASSUME NEW m \in Messages, MessageInv(m), StatusGrows,
         session'[m] = session[m], pc'[m] = pc[m],
         part'[m] = part[m] \/ part'[m] = None,
         m \in linked' => m \in linked,
         pc[m] \in Locked => BlobKeeps(Sha[m])
  PROVE  MessageInv(m)'
<1>1. SessionInv(m)'
  BY DEF MessageInv, SessionInv, SessionFits
<1>2. StepInv(m)'
  BY DEF MessageInv, StepInv, BlobKeeps, Locked, Completing
<1>3. BlobHasPublishedReference(Sha[m]) => BlobHasPublishedReference(Sha[m])'
  BY DEF StatusGrows, BlobHasPublishedReference
<1>4. ProofInv(m)'
  BY <1>3 DEF MessageInv, ProofInv
<1>5. LinkInv(m)'
  BY DEF MessageInv, LinkInv
<1>. QED  BY <1>1, <1>2, <1>4, <1>5 DEF MessageInv

\* A step of the worker of m keeps the invariant when it leaves m, the blobs
\* and the mutex in order.
LEMMA StepKeeps ==
  ASSUME IInv, NEW m \in Messages, Alone(m), MayPublish(m),
         status[m] = "published" => status'[m] = "published",
         TypeInv', MutexInv', MessageInv(m)',
         \A s \in Shas : BlobKeeps(s) /\ BlobInv(s)'
  PROVE  IInv'
<1>1. StatusGrows
  BY DEF Alone, StatusGrows
<1>2. \A n \in Messages : MessageInv(n)'
  <2>1. SUFFICES ASSUME NEW n \in Messages, n # m PROVE MessageInv(n)'
    OBVIOUS
  <2>2. MessageInv(n) /\ Sha[n] \in Shas
    BY UploadAssumption DEF IInv
  <2>3. /\ session'[n] = session[n] /\ pc'[n] = pc[n] /\ part'[n] = part[n]
        /\ n \in linked' => n \in linked
    BY <2>1 DEF Alone
  <2>. QED  BY <1>1, <2>2, <2>3, MessageKept
<1>3. VictimInv'
  BY DEF IInv, VictimInv, Alone, MayPublish, BlobHasPublishedReference
<1>4. PublishedInv'
  <2>1. SUFFICES ASSUME NEW n \in Messages, status'[n] = "published"
                 PROVE  blob'[Sha[n]] # None /\ blob'[Sha[n]].durable
    BY DEF PublishedInv
  <2>2. BlobKeeps(Sha[n])
    BY UploadAssumption
  <2>3. blob[Sha[n]] # None /\ blob[Sha[n]].durable
    BY <2>1 DEF IInv, PublishedInv, Alone, MayPublish
  <2>. QED  BY <2>2, <2>3 DEF BlobKeeps
<1>5. ReadInv'
  BY <1>1, TypeInv' DEF IInv, ReadInv, Alone, StatusGrows, TypeInv, TypeOK
<1>. QED  BY <1>2, <1>3, <1>4, <1>5 DEF IInv

\* The same when the step leaves the blobs and the mutex alone.
LEMMA OwnStepKeeps ==
  ASSUME IInv, NEW m \in Messages, Alone(m),
         status'[m] = status[m] \/ (status[m] = "pending" /\ status'[m] = "failed"),
         TypeInv', MessageInv(m)', blob' = blob, mutex' = mutex,
         pc'[m] \in Locked => pc[m] \in Locked
  PROVE  IInv'
<1>1. MayPublish(m) /\ (status[m] = "published" => status'[m] = "published")
  BY DEF MayPublish
<1>2. MutexInv'
  BY DEF IInv, MutexInv, Alone
<1>3. \A s \in Shas : BlobKeeps(s) /\ BlobInv(s)'
  BY DEF IInv, BlobKeeps, BlobInv, Alone
<1>. QED  BY <1>1, <1>2, <1>3, StepKeeps

-----------------------------------------------------------------------------
(* Types.                                                                  *)

\* The types of what a worker may change.
WorkerTypes ==
  /\ status \in [Messages -> {"pending", "published", "failed"}]
  /\ told \in [Messages -> {"none", "published", "failed"}]
  /\ part \in [Messages -> File \cup {None}]
  /\ blob \in [Shas -> Blob \cup {None}]
  /\ linked \subseteq {m \in Messages : part[m] # None /\ blob[Sha[m]] # None}
  /\ session \in [Messages -> UploadSession \cup {None}]
  /\ pc \in [Messages -> Steps]
  /\ mutex \in BOOLEAN
  /\ faults \in 0..MaxFaults

LEMMA TypesKept ==
  ASSUME TypeInv, WorkerTypes',
         UNCHANGED <<platform, gc, todo, victim, cache, badRead, rowOld>>
  PROVE  TypeInv'
BY DEF TypeInv, TypeOK, WorkerTypes

LEMMA TypesOf ==
  ASSUME IInv
  PROVE  TypeInv /\ TypeOK /\ WorkerTypes
BY DEF IInv, TypeInv, TypeOK, WorkerTypes

\* Faults are counted up to the bound.
LEMMA FaultCounted ==
  ASSUME TypeOK, NEW kind, Fault(kind)
  PROVE  faults' \in 0..MaxFaults /\ kind \in Faults[platform]
BY UploadAssumption DEF TypeOK, Fault

\* The fields of a session.
LEMMA SessionType ==
  ASSUME NEW s \in UploadSession
  PROVE  /\ s.received \in 0..Chunks /\ s.mismatches \in 0..MaxMismatch
         /\ s.hashValid \in BOOLEAN /\ s.hashOk \in BOOLEAN /\ s.challenge \in BOOLEAN
         /\ s.suppressed \in BOOLEAN /\ s.idle \in BOOLEAN
         /\ s.final \in {"", "ok", "bad"}
BY DEF UploadSession

LEMMA SessionOf ==
  ASSUME TypeOK, NEW m \in Messages, session[m] # None
  PROVE  session[m] \in UploadSession
BY DEF TypeOK

-----------------------------------------------------------------------------
(* Writing the part.                                                       *)

\* The part of m alone changes, and holds d.
PartHolds(m, d) ==
  /\ blob' = blob
  /\ part' \in [Messages -> File \cup {None}]
  /\ part'[m] # None /\ part'[m].data = d
  /\ \A n \in Messages \ {m} : part'[n] = part[n]

\* Without a second name only the part is written (PutPart).
LEMMA PutPartDoes ==
  ASSUME TypeOK, NEW m \in Messages, m \notin linked, NEW d \in Data, PutPart(m, d)
  PROVE  PartHolds(m, d)
<1>1. CASE part[m] # None /\ part[m].data = d
  BY <1>1 DEF PutPart, PartHolds, TypeOK
<1>2. CASE ~(part[m] # None /\ part[m].data = d)
  <2>. DEFINE f == [data |-> d, synced |-> FALSE, old |-> FALSE]
  <2>1. f \in File /\ f # None /\ f.data = d
    BY NewFile, NoneAssumption
  <2>2. part' = [part EXCEPT ![m] = f] /\ blob' = blob
    BY <1>2 DEF PutPart
  <2>. HIDE DEF f
  <2>. QED  BY <2>1, <2>2 DEF PartHolds, TypeOK
<1>. QED  BY <1>1, <1>2

\* The place an upload resumes from is within the part.
LEMMA ResumePointIn ==
  ASSUME TypeOK, NEW m \in Messages
  PROVE  /\ ResumePoint(m) \in 0..Chunks
         /\ part[m] = None => ResumePoint(m) = 0
         /\ part[m] # None => ResumePoint(m) <= Len(part[m].data)
<1>1. CASE part[m] = None
  BY <1>1, UploadAssumption DEF ResumePoint, Length
<1>2. CASE part[m] # None
  <2>1. Len(part[m].data) \in 0..Chunks
    BY <1>2, PartType
  <2>. QED  BY <1>2, <2>1, UploadAssumption DEF ResumePoint, Length
<1>. QED  BY <1>1, <1>2

\* A new session fits the part it resumes.
LEMMA NewSessionFits ==
  ASSUME NEW r \in 0..Chunks
  PROVE  /\ NewSession(r) \in UploadSession /\ NewSession(r).received = r
         /\ NewSession(r).final = "" /\ ~NewSession(r).challenge
         /\ NewSession(r).hashValid => r = 0
<1>1. 0 \in 0..MaxMismatch
  BY UploadAssumption
<1>. DEFINE n(b) ==
       [received |-> r, hashValid |-> b, hashOk |-> TRUE, final |-> "", mismatches |-> 0,
        challenge |-> FALSE, suppressed |-> FALSE, idle |-> FALSE]
<1>2. /\ n(TRUE) \in UploadSession /\ n(TRUE).received = r /\ n(TRUE).final = ""
      /\ ~n(TRUE).challenge
      /\ n(FALSE) \in UploadSession /\ n(FALSE).received = r /\ n(FALSE).final = ""
      /\ ~n(FALSE).challenge /\ ~n(FALSE).hashValid
  BY <1>1 DEF UploadSession
<1>3. r = 0 => NewSession(r) = n(TRUE)
  BY Zenon DEF NewSession
<1>4. r # 0 => NewSession(r) = n(FALSE)
  BY Zenon DEF NewSession
<1>. HIDE DEF n
<1>. QED  BY <1>2, <1>3, <1>4

\* RecoverUploadFile leaves what a new session says.
LEMMA RecoverDoes ==
  ASSUME TypeOK, NEW m \in Messages, m \notin linked, RecoverUploadFile(m)
  PROVE  \/ part[m] = None /\ UNCHANGED <<part, blob>> /\ ResumePoint(m) = 0
         \/ part[m] # None /\ \E d \in Data : PartHolds(m, d) /\ Len(d) = ResumePoint(m)
<1>1. CASE part[m] = None
  BY <1>1, ResumePointIn DEF RecoverUploadFile
<1>2. CASE part[m] # None
  <2>. DEFINE d == SubSeq(part[m].data, 1, ResumePoint(m))
  <2>1. part[m].data \in Data /\ ResumePoint(m) \in Nat /\ ResumePoint(m) <= Len(part[m].data)
    BY <1>2, PartType, ResumePointIn, UploadAssumption
  <2>2. d \in Data /\ Len(d) = ResumePoint(m)
    BY <2>1, Cut
  <2>3. PutPart(m, d)
    BY <1>2 DEF RecoverUploadFile
  <2>. HIDE DEF d
  <2>4. PartHolds(m, d)
    BY <2>2, <2>3, PutPartDoes
  <2>. QED  BY <1>2, <2>2, <2>4
<1>. QED  BY <1>1, <1>2

-----------------------------------------------------------------------------
(* A chunk.                                                                *)

\* What a chunk leaves behind: session t, data d, and the next step.
Written(m, exists, t, d, next) ==
  /\ session' = [session EXCEPT ![m] = t]
  /\ pc' = [pc EXCEPT ![m] = next]
  /\ IF exists \/ d # <<>> THEN PutPart(m, d) ELSE UNCHANGED <<part, blob>>
  /\ t \in UploadSession /\ ~t.challenge /\ d \in Data /\ next \in {"idle", "hash"}
  /\ t.final = "ok" \/ next = "hash" => t.received = Chunks
  /\ exists \/ d # <<>> =>
       /\ Len(d) = t.received
       /\ t.final = "ok" \/ (t.hashValid /\ t.hashOk) => AllOk(d)

\* The session when a chunk differs from chunk r, and when it is the next one.
Differs(s, r) == [ChunkFailed(s) EXCEPT !.received = r]
Takes(s, r, h) == [s EXCEPT !.received = r, !.hashOk = h]

LEMMA ChunkFailedIs ==
  ASSUME NEW s \in UploadSession, ~s.challenge
  PROVE  /\ ChunkFailed(s) \in UploadSession /\ ChunkFailed(s).received = s.received
         /\ ~ChunkFailed(s).hashValid /\ ChunkFailed(s).final = ""
         /\ ~ChunkFailed(s).challenge
BY DEF ChunkFailed, UploadSession

LEMMA DiffersIs ==
  ASSUME NEW s \in UploadSession, ~s.challenge, NEW r \in 0..Chunks
  PROVE  /\ Differs(s, r) \in UploadSession /\ Differs(s, r).received = r
         /\ ~Differs(s, r).hashValid /\ Differs(s, r).final = ""
         /\ ~Differs(s, r).challenge
BY DEF ChunkFailed, Differs, UploadSession

LEMMA TakesIs ==
  ASSUME NEW s \in UploadSession, ~s.challenge, NEW r \in 0..Chunks, NEW h \in BOOLEAN
  PROVE  /\ Takes(s, r, h) \in UploadSession /\ Takes(s, r, h).received = r
         /\ Takes(s, r, h).final = s.final /\ ~Takes(s, r, h).challenge
         /\ Takes(s, r, h).hashOk <=> h
         /\ Takes(s, r, h).hashValid <=> s.hashValid
BY DEF Takes, UploadSession

(* WriteUploadChunk keeps the session and the part in step: it refuses a chunk
   beyond what it has, compares one it has, and appends the next one.        *)
LEMMA WriteShape ==
  ASSUME TypeOK, NEW m \in Messages, NEW s \in UploadSession, ~s.challenge,
         NEW exists \in BOOLEAN, NEW disk \in Data,
         NEW i \in 0..Chunks - 1, NEW c \in {"ok", "bad"},
         s.final = "ok" => s.received = Chunks,
         ~exists => disk = <<>>,
         exists => /\ Len(disk) = s.received
                   /\ s.final = "ok" \/ (s.hashValid /\ s.hashOk) => AllOk(disk),
         WriteUploadChunk(m, s, exists, disk, i, c)
  PROVE  /\ \E t, d, next : Written(m, exists, t, d, next)
         /\ faults' \in 0..MaxFaults
<1>. DEFINE Answer(t, d, next) ==
       /\ session' = [session EXCEPT ![m] = t]
       /\ pc' = [pc EXCEPT ![m] = next]
       /\ IF exists \/ d # <<>> THEN PutPart(m, d) ELSE UNCHANGED <<part, blob>>
<1>. DEFINE t1 == Differs(s, i)
            t2 == [s EXCEPT !.received = i + 1, !.hashOk = @ /\ (s.hashValid => c = "ok")]
            d1 == SubSeq(disk, 1, i)
            d2 == Append(SubSeq(disk, 1, i), c)
<1>1. /\ i \in Nat /\ i < Chunks /\ i \in 0..Chunks /\ i + 1 \in 0..Chunks
      /\ faults \in 0..MaxFaults
  BY UploadAssumption DEF TypeOK
<1>2. s.received \in 0..Chunks /\ s.hashValid \in BOOLEAN /\ s.hashOk \in BOOLEAN
  BY SessionType
<1>3. /\ ChunkFailed(s) \in UploadSession /\ ChunkFailed(s).received = s.received
      /\ ~ChunkFailed(s).hashValid /\ ChunkFailed(s).final = "" /\ ~ChunkFailed(s).challenge
  BY ChunkFailedIs, Zenon
<1>4. /\ t1 \in UploadSession /\ t1.received = i /\ ~t1.hashValid /\ t1.final = ""
       /\ ~t1.challenge
  BY <1>1, DiffersIs, Zenon
<1>5. \/ Answer(ChunkFailed(s), disk, "idle") /\ faults' = faults
      \/ Answer(ChunkFailed(s), disk, "idle") /\ (Fault("corrupt") \/ Fault("disk"))
      \/ /\ i < s.received /\ i < Len(disk) /\ faults' = faults
         /\ \/ Answer(s, disk, IF s.received = Chunks THEN "hash" ELSE "idle")
            \/ Answer(t1, d1, "idle")
      \/ /\ i = s.received
         /\ exists \/ i = 0
         /\ faults' = faults
         /\ Answer(t2, d2, IF i + 1 = Chunks THEN "hash" ELSE "idle")
  BY DEF WriteUploadChunk, SetSession, Go, Differs
<1>6. faults' \in 0..MaxFaults
  BY <1>1, <1>5, FaultCounted
<1>7. ASSUME Answer(ChunkFailed(s), disk, "idle")
      PROVE  Written(m, exists, ChunkFailed(s), disk, "idle")
  BY <1>3, <1>7 DEF Written
<1>8. ASSUME NEW next \in {"idle", "hash"}, Answer(s, disk, next), i < Len(disk),
             next = "hash" => s.received = Chunks
      PROVE  Written(m, exists, s, disk, next)
  <2>1. exists
    BY <1>1, <1>8
  <2>. QED  BY <1>8, <2>1 DEF Written
<1>9. ASSUME Answer(t1, d1, "idle"), i < Len(disk)
      PROVE  Written(m, exists, t1, d1, "idle")
  <2>1. d1 \in Data /\ Len(d1) = i
    BY <1>1, <1>9, Cut, DataIs
  <2>. HIDE DEF t1, d1
  <2>. QED  BY <1>4, <1>9, <2>1 DEF Written
<1>10. ASSUME NEW next \in {"idle", "hash"}, Answer(t2, d2, next), i = s.received, exists \/ i = 0,
             next = "hash" => i + 1 = Chunks
      PROVE  Written(m, exists, t2, d2, next)
  <2>1. disk \in Seq({"ok", "bad"}) /\ i = Len(disk)
    BY <1>10, DataIs
  <2>2. d1 \in Data /\ Len(d1) = i /\ (AllOk(disk) => AllOk(d1))
    BY <1>1, <2>1, Cut
  <2>3. d2 \in Data /\ Len(d2) = i + 1 /\ (AllOk(d1) /\ c = "ok" => AllOk(d2))
    BY <1>1, <2>2, Appended
  <2>4. PICK h \in BOOLEAN : h <=> (s.hashOk /\ (s.hashValid => c = "ok"))
    OBVIOUS
  <2>5. t2 = Takes(s, i + 1, h)
    BY <2>4, Zenon DEF Takes
  <2>. HIDE DEF t2
  <2>6. /\ t2 \in UploadSession /\ t2.received = i + 1 /\ t2.final = s.final /\ ~t2.challenge
        /\ t2.hashOk <=> h
        /\ t2.hashValid <=> s.hashValid
    BY <1>1, <2>5, TakesIs
  <2>7. t2.final # "ok"
    BY <1>1, <1>10, <2>6
  <2>8. t2.hashValid /\ t2.hashOk => s.hashOk /\ c = "ok"
    BY <2>4, <2>6, Zenon
  <2>9. AllOk(<<>>)
    BY DEF AllOk
  <2>10. t2.hashValid /\ t2.hashOk => AllOk(d2)
    BY <2>2, <2>3, <2>6, <2>8, <2>9, Zenon
  <2>. HIDE DEF d2
  <2>. QED  BY <1>10, <2>3, <2>6, <2>7, <2>10, Zenon DEF Written
<1>. HIDE DEF Answer, t1, t2, d1, d2
<1>11. \E t, d, next : Written(m, exists, t, d, next)
  <2>1. \A b \in BOOLEAN : LET next == IF b THEN "hash" ELSE "idle"
                           IN next \in {"idle", "hash"} /\ (next = "hash" => b)
    OBVIOUS
  <2>2. /\ LET next == IF s.received = Chunks THEN "hash" ELSE "idle"
           IN next \in {"idle", "hash"} /\ (next = "hash" => s.received = Chunks)
        /\ LET next == IF i + 1 = Chunks THEN "hash" ELSE "idle"
           IN next \in {"idle", "hash"} /\ (next = "hash" => i + 1 = Chunks)
    BY <2>1
  <2>. QED  BY <1>5, <1>7, <1>8, <1>9, <1>10, <2>2, Zenon
<1>. QED  BY <1>6, <1>11

\* Between requests, and when the whole file is to be checked.
LEMMA AtRest ==
  ASSUME NEW m \in Messages, pc'[m] \in {"idle", "hash"}, m \notin linked',
         pc'[m] = "hash" => session'[m] # None /\ session'[m].received = Chunks,
         session'[m] # None =>
           /\ SessionFits(session'[m], part'[m])
           /\ session'[m].challenge => BlobHasPublishedReference(Sha[m])'
  PROVE  MessageInv(m)'
<1>1. SessionInv(m)'
  BY DEF SessionInv, SessionFits
<1>2. StepInv(m)'
  BY DEF StepInv, Completing
<1>3. ProofInv(m)'
  BY DEF ProofInv
<1>4. LinkInv(m)'
  BY DEF LinkInv
<1>. QED  BY <1>1, <1>2, <1>3, <1>4 DEF MessageInv

\* A part has a second name only while it is being unlinked.
LEMMA NotLinked ==
  ASSUME IInv, NEW m \in Messages, pc[m] # "unlink"
  PROVE  m \notin linked
BY DEF IInv, MessageInv, LinkInv

\* The session that a chunk is taken in: the cached one, or a new one.
ChunkSession(m) ==
  IF CachedSession(m) # None THEN CachedSession(m) ELSE NewSession(ResumePoint(m))

Noted(s) == [s EXCEPT !.challenge = FALSE, !.suppressed = TRUE]

ChunkDisk(m) ==
  LET data == IF part[m] = None THEN <<>> ELSE part[m].data
  IN IF CachedSession(m) # None THEN data ELSE SubSeq(data, 1, ResumePoint(m))

LEMMA NotedIs ==
  ASSUME NEW s \in UploadSession
  PROVE  /\ Noted(s) \in UploadSession /\ ~Noted(s).challenge
         /\ Noted(s).received = s.received /\ Noted(s).final = s.final
         /\ Noted(s).hashValid <=> s.hashValid
         /\ Noted(s).hashOk <=> s.hashOk
BY DEF Noted, UploadSession

\* It says what the part holds.
LEMMA ChunkSessionFits ==
  ASSUME IInv, NEW m \in Messages
  PROVE  LET s == ChunkSession(m)
             disk == ChunkDisk(m)
         IN /\ s \in UploadSession /\ disk \in Data
            /\ s.final = "ok" => s.received = Chunks
            /\ part[m] = None => disk = <<>>
            /\ part[m] # None =>
                 /\ Len(disk) = s.received
                 /\ s.final = "ok" \/ (s.hashValid /\ s.hashOk) => AllOk(disk)
<1>. DEFINE s == ChunkSession(m)
            disk == ChunkDisk(m)
            r == ResumePoint(m)
<1>1. TypeOK /\ SessionInv(m)
  BY TypesOf DEF IInv, MessageInv
<1>2. r \in 0..Chunks /\ r \in Nat /\ (part[m] = None => r = 0)
      /\ (part[m] # None => r <= Len(part[m].data))
  BY <1>1, ResumePointIn, UploadAssumption
<1>3. <<>> \in Data /\ SubSeq(<<>>, 1, 0) = <<>>
  BY EmptyFile
<1>4. part[m] # None => part[m].data \in Data
  BY <1>1, PartType
<1>5. CASE CachedSession(m) # None
  <2>1. s = session[m] /\ session[m] # None
    BY <1>5 DEF ChunkSession, CachedSession
  <2>2. disk = IF part[m] = None THEN <<>> ELSE part[m].data
    BY <1>5 DEF ChunkDisk
  <2>3. s \in UploadSession /\ SessionFits(s, part[m])
    BY <1>1, <2>1, SessionOf DEF SessionInv
  <2>. HIDE DEF s, disk
  <2>4. QED
    BY <1>3, <1>4, <2>2, <2>3 DEF SessionFits, s, disk
<1>6. CASE CachedSession(m) = None
  <2>1. s = NewSession(r)
    BY <1>6 DEF ChunkSession
  <2>2. disk = IF part[m] = None THEN <<>> ELSE SubSeq(part[m].data, 1, r)
    BY <1>2, <1>3, <1>6 DEF ChunkDisk
  <2>3. /\ s \in UploadSession /\ s.received = r /\ s.final = "" /\ (s.hashValid => r = 0)
    BY <1>2, <2>1, NewSessionFits
  <2>4. part[m] # None => disk \in Data /\ Len(disk) = r
    BY <1>2, <1>4, <2>2, Cut
  <2>5. part[m] # None /\ r = 0 => AllOk(disk)
    BY <2>4, DataIs DEF AllOk
  <2>. HIDE DEF s, disk, r
  <2>6. QED
    BY <1>3, <2>2, <2>3, <2>4, <2>5 DEF s, disk
<1>. QED  BY <1>5, <1>6

\* A chunk (1505): HandleResourceChunk, with or without a session.
LEMMA ChunkStep ==
  ASSUME IInv, NEW m \in Messages, NEW i \in 0..Chunks - 1, HandleResourceChunk(m, i)
  PROVE  IInv'
<1>1. pc[m] = "idle" /\ m \notin linked /\ linked' = linked
  BY NotLinked DEF HandleResourceChunk
<1>2. TypeInv /\ TypeOK /\ WorkerTypes
  BY TypesOf
<1>3. UNCHANGED <<platform, status, linked, mutex, gc, todo, victim, cache, badRead, rowOld>>
  BY DEF HandleResourceChunk
<1>4. CASE /\ \/ Fault("db") /\ UNCHANGED told
              \/ status[m] # "pending" /\ Tell(m, status[m]) /\ UNCHANGED faults
           /\ SetSession(m, None)
           /\ UNCHANGED <<part, blob, pc>>
  <2>1. faults' \in 0..MaxFaults /\ told' \in [Messages -> {"none", "published", "failed"}]
    <3>1. CASE Fault("db") /\ UNCHANGED told
      BY <1>2, <3>1, FaultCounted DEF WorkerTypes
    <3>2. CASE status[m] # "pending" /\ Tell(m, status[m]) /\ UNCHANGED faults
      BY <1>2, <3>2 DEF WorkerTypes, Tell
    <3>. QED  BY <1>4, <3>1, <3>2
  <2>2. /\ session' \in [Messages -> UploadSession \cup {None}]
        /\ session'[m] = None
        /\ \A n \in Messages \ {m} : session'[n] = session[n]
    BY <1>2, <1>4 DEF SetSession, WorkerTypes
  <2>3. WorkerTypes'
    BY <1>2, <1>3, <1>4, <2>1, <2>2 DEF WorkerTypes
  <2>4. TypeInv'
    BY <1>2, <1>3, <2>3, TypesKept
  <2>5. MessageInv(m)'
    BY <1>1, <1>4, <2>2, AtRest
  <2>6. Alone(m)
    BY <1>3, <1>4, <2>2 DEF Alone
  <2>7. blob' = blob /\ mutex' = mutex /\ status' = status /\ pc' = pc
    BY <1>3, <1>4
  <2>. QED  BY <2>4, <2>5, <2>6, <2>7, OwnStepKeeps
<1>5. CASE /\ WriteUploadChunk(m, Noted(ChunkSession(m)), part[m] # None, ChunkDisk(m), i, Sent(m, i))
           /\ UNCHANGED told
  <2>. DEFINE s == ChunkSession(m)
              disk == ChunkDisk(m)
              c == Sent(m, i)
              e == part[m] # None
  <2>1. /\ s \in UploadSession /\ disk \in Data
        /\ s.final = "ok" => s.received = Chunks
        /\ ~e => disk = <<>>
        /\ e => /\ Len(disk) = s.received
                /\ s.final = "ok" \/ (s.hashValid /\ s.hashOk) => AllOk(disk)
    BY ChunkSessionFits
  <2>2. /\ Noted(s) \in UploadSession /\ ~Noted(s).challenge
        /\ Noted(s).received = s.received /\ Noted(s).final = s.final
        /\ Noted(s).hashValid <=> s.hashValid
        /\ Noted(s).hashOk <=> s.hashOk
    BY <2>1, NotedIs
  <2>3. c \in {"ok", "bad"} /\ e \in BOOLEAN
    BY DEF Sent
  <2>4. WriteUploadChunk(m, Noted(s), e, disk, i, c)
    BY <1>5
  <2>. HIDE DEF s, disk, c, e
  <2>5. /\ \E t, d, next : Written(m, e, t, d, next)
        /\ faults' \in 0..MaxFaults
    BY <1>2, <2>1, <2>2, <2>3, <2>4, WriteShape
  <2>6. PICK t, d, next : Written(m, e, t, d, next)
    BY <2>5
  <2>7. /\ t \in UploadSession /\ t # None /\ ~t.challenge /\ d \in Data /\ next \in {"idle", "hash"}
        /\ next = "hash" => t.received = Chunks
        /\ session' = [session EXCEPT ![m] = t] /\ pc' = [pc EXCEPT ![m] = next]
    BY <2>6, NoneAssumption DEF Written
  <2>8. /\ session' \in [Messages -> UploadSession \cup {None}]
        /\ pc' \in [Messages -> Steps]
        /\ session'[m] = t /\ pc'[m] = next
        /\ \A n \in Messages \ {m} : session'[n] = session[n] /\ pc'[n] = pc[n]
    BY <1>2, <2>7 DEF WorkerTypes, Steps
  <2>9. \/ UNCHANGED <<part, blob>> /\ part[m] = None
        \/ PartHolds(m, d) /\ SessionFits(t, part'[m])
    <3>1. CASE e \/ d # <<>>
      <4>1. PutPart(m, d)
        BY <2>6, <3>1 DEF Written
      <4>2. PartHolds(m, d)
        BY <1>1, <1>2, <2>7, <4>1, PutPartDoes
      <4>3. SessionFits(t, part'[m])
        BY <2>6, <3>1, <4>2 DEF Written, PartHolds, SessionFits
      <4>. QED  BY <4>2, <4>3
    <3>2. CASE ~(e \/ d # <<>>)
      BY <2>6, <3>2 DEF Written, e
    <3>. QED  BY <3>1, <3>2
  <2>10. /\ blob' = blob
         /\ part' \in [Messages -> File \cup {None}]
         /\ \A n \in Messages : part[n] # None => part'[n] # None
         /\ \A n \in Messages \ {m} : part'[n] = part[n]
         /\ SessionFits(t, part'[m])
    <3>1. CASE UNCHANGED <<part, blob>> /\ part[m] = None
      BY <1>2, <2>6, <3>1 DEF WorkerTypes, SessionFits, Written
    <3>2. CASE PartHolds(m, d) /\ SessionFits(t, part'[m])
      BY <3>2 DEF PartHolds
    <3>. QED  BY <2>9, <3>1, <3>2
  <2>11. WorkerTypes'
    BY <1>2, <1>3, <1>5, <2>5, <2>8, <2>10 DEF WorkerTypes
  <2>12. TypeInv'
    BY <1>2, <1>3, <2>11, TypesKept
  <2>13. MessageInv(m)'
    BY <1>1, <2>7, <2>8, <2>10, AtRest
  <2>14. Alone(m)
    BY <1>3, <2>8, <2>10 DEF Alone
  <2>15. pc'[m] \notin Locked
    BY <2>7, <2>8 DEF Locked
  <2>16. blob' = blob /\ mutex' = mutex /\ status' = status
    BY <1>3, <2>10
  <2>. QED  BY <2>12, <2>13, <2>14, <2>15, <2>16, OwnStepKeeps
<1>. QED  BY <1>4, <1>5, Zenon DEF HandleResourceChunk, ChunkSession, ChunkDisk, Noted

-----------------------------------------------------------------------------
(* The other steps between which an upload is at rest.                     *)

SessionIs(m, s) ==
  /\ session' \in [Messages -> UploadSession \cup {None}]
  /\ session'[m] = s
  /\ \A n \in Messages \ {m} : session'[n] = session[n]

PcIs(m, next) ==
  /\ pc' \in [Messages -> Steps]
  /\ pc'[m] = next
  /\ \A n \in Messages \ {m} : pc'[n] = pc[n]

PartGone(m) ==
  /\ part' \in [Messages -> File \cup {None}]
  /\ part'[m] = None
  /\ \A n \in Messages \ {m} : part'[n] = part[n]
  /\ linked' = linked \ {m}

LEMMA SetSessionDoes ==
  ASSUME WorkerTypes, NEW m \in Messages, NEW s \in UploadSession \cup {None}, SetSession(m, s)
  PROVE  SessionIs(m, s)
BY DEF WorkerTypes, SetSession, SessionIs

LEMMA GoDoes ==
  ASSUME WorkerTypes, NEW m \in Messages, NEW next \in Steps, Go(m, next)
  PROVE  PcIs(m, next)
BY DEF WorkerTypes, Go, PcIs

LEMMA RemovePartDoes ==
  ASSUME WorkerTypes, NEW m \in Messages, RemovePart(m)
  PROVE  PartGone(m)
BY DEF WorkerTypes, RemovePart, PartGone

\* A step that leaves the blobs and the mutex alone.
LEMMA OwnStep ==
  ASSUME IInv, NEW m \in Messages, WorkerTypes', MessageInv(m)', Alone(m),
         UNCHANGED <<todo, rowOld, blob, mutex>>,
         status'[m] = status[m] \/ (status[m] = "pending" /\ status'[m] = "failed"),
         pc'[m] \in Locked => pc[m] \in Locked
  PROVE  IInv'
<1>1. TypeInv'
  BY TypesOf, TypesKept DEF Alone
<1>. QED  BY <1>1, OwnStepKeeps

\* An idle session is erased (EvictIdleUploadSessions).
LEMMA EvictStep ==
  ASSUME IInv, NEW m \in Messages, EvictIdleUploadSessions(m)
  PROVE  IInv'
<1>1. /\ pc[m] = "idle" /\ m \notin linked /\ SessionIs(m, None)
      /\ UNCHANGED <<platform, status, told, part, blob, linked, pc, mutex, gc, todo, victim, cache,
                     badRead, rowOld, faults>>
  BY TypesOf, NotLinked, SetSessionDoes DEF EvictIdleUploadSessions
<1>2. WorkerTypes'
  BY <1>1, TypesOf DEF WorkerTypes, SessionIs
<1>3. MessageInv(m)'
  BY <1>1, AtRest DEF SessionIs
<1>4. Alone(m)
  BY <1>1 DEF Alone, SessionIs
<1>. QED  BY <1>1, <1>2, <1>3, <1>4, OwnStep

\* Time passes for an upload (HalfAnHour).
LEMMA HalfAnHourStep ==
  ASSUME IInv, NEW m \in Messages, HalfAnHour(m)
  PROVE  IInv'
<1>. DEFINE s == session[m]
            t == [s EXCEPT !.idle = TRUE]
<1>1. /\ pc[m] = "idle" /\ m \notin linked /\ s # None /\ SetSession(m, t)
      /\ UNCHANGED <<platform, status, told, part, blob, linked, pc, mutex, gc, todo, victim, cache,
                     badRead, rowOld>>
      /\ TypeOK /\ WorkerTypes /\ faults' \in 0..MaxFaults
      /\ SessionFits(s, part[m]) /\ (s.challenge => BlobHasPublishedReference(Sha[m]))
  BY TypesOf, NotLinked, FaultCounted
  DEF HalfAnHour, IInv, MessageInv, SessionInv, ProofInv
<1>2. s \in UploadSession
  BY <1>1, SessionOf
<1>. HIDE DEF s
<1>3. /\ t \in UploadSession /\ t.received = s.received /\ t.final = s.final
      /\ t.hashValid <=> s.hashValid
      /\ t.hashOk <=> s.hashOk
      /\ t.challenge <=> s.challenge
  BY <1>2 DEF UploadSession
<1>. HIDE DEF t
<1>4. SessionIs(m, t)
  BY <1>1, <1>3, SetSessionDoes
<1>5. SessionFits(t, part[m])
  BY <1>1, <1>3 DEF SessionFits
<1>6. WorkerTypes'
  BY <1>1, <1>4 DEF WorkerTypes, SessionIs
<1>7. BlobHasPublishedReference(Sha[m])' <=> BlobHasPublishedReference(Sha[m])
  BY <1>1 DEF BlobHasPublishedReference
<1>8. MessageInv(m)'
  BY <1>1, <1>3, <1>4, <1>5, <1>7, AtRest DEF SessionIs
<1>9. Alone(m)
  BY <1>1, <1>4 DEF Alone, SessionIs
<1>. QED  BY <1>1, <1>6, <1>8, <1>9, OwnStep

\* The session when the client asks how far the upload is.
Polled(s, b) == [s EXCEPT !.idle = FALSE, !.challenge = b]

LEMMA PolledIs ==
  ASSUME NEW s \in UploadSession, NEW b \in BOOLEAN
  PROVE  /\ Polled(s, b) \in UploadSession
         /\ Polled(s, b).received = s.received /\ Polled(s, b).final = s.final
         /\ Polled(s, b).hashValid <=> s.hashValid
         /\ Polled(s, b).hashOk <=> s.hashOk
         /\ Polled(s, b).challenge <=> b
BY DEF Polled, UploadSession

\* Of the parts only that of m changes, as session t says.
PartFits(m, t) ==
  /\ blob' = blob
  /\ part' \in [Messages -> File \cup {None}]
  /\ \A n \in Messages : part[n] # None => part'[n] # None
  /\ \A n \in Messages \ {m} : part'[n] = part[n]
  /\ SessionFits(t, part'[m])

\* A question for the progress (1507): HandleResourceUploadProgress.
LEMMA ProgressStep ==
  ASSUME IInv, NEW m \in Messages, HandleResourceUploadProgress(m)
  PROVE  IInv'
<1>1. /\ pc[m] = "idle" /\ m \notin linked
      /\ UNCHANGED <<platform, status, linked, pc, mutex, gc, todo, victim, cache, badRead,
                     rowOld, faults>>
  BY NotLinked DEF HandleResourceUploadProgress
<1>2. TypeInv /\ TypeOK /\ WorkerTypes /\ MessageInv(m)
  BY TypesOf DEF IInv
<1>3. BlobHasPublishedReference(Sha[m])' <=> BlobHasPublishedReference(Sha[m])
  BY <1>1 DEF BlobHasPublishedReference
<1>4. CASE Tell(m, "published") /\ UNCHANGED <<session, part, blob>>
  <2>1. WorkerTypes'
    BY <1>1, <1>2, <1>4 DEF WorkerTypes, Tell
  <2>2. StatusGrows /\ BlobKeeps(Sha[m])
    BY <1>1, <1>4 DEF StatusGrows, BlobKeeps
  <2>3. MessageInv(m)'
    BY <1>1, <1>2, <1>4, <2>2, MessageKept
  <2>4. Alone(m)
    BY <1>1, <1>4 DEF Alone
  <2>. QED  BY <1>1, <1>4, <2>1, <2>3, <2>4, OwnStep
<1>5. CASE Tell(m, "failed") /\ SetSession(m, None) /\ UNCHANGED <<part, blob>>
  <2>1. SessionIs(m, None)
    BY <1>2, <1>5, SetSessionDoes
  <2>2. WorkerTypes'
    BY <1>1, <1>2, <1>5, <2>1 DEF WorkerTypes, Tell, SessionIs
  <2>3. MessageInv(m)'
    BY <1>1, <2>1, AtRest DEF SessionIs
  <2>4. Alone(m)
    BY <1>1, <1>5, <2>1 DEF Alone, SessionIs
  <2>. QED  BY <1>1, <1>5, <2>2, <2>3, <2>4, OwnStep
<1>6. ASSUME NEW s, NEW c,
             s = IF session[m] # None THEN session[m] ELSE NewSession(ResumePoint(m)),
             c = (s.challenge \/ (/\ s.received = 0 /\ ~s.suppressed
                                  /\ \E n \in Messages : status[n] = "published" /\ Sha[n] = Sha[m]
                                  /\ Length(blob[Sha[m]]) = Chunks)),
             SetSession(m, Polled(s, c)),
             IF session[m] = None THEN RecoverUploadFile(m) ELSE UNCHANGED <<part, blob>>,
             UNCHANGED told
      PROVE  IInv'
  <2>1. ResumePoint(m) \in 0..Chunks
    BY <1>2, ResumePointIn
  <2>2. s \in UploadSession
    BY <1>2, <1>6, <2>1, SessionOf, NewSessionFits
  <2>3. c \in BOOLEAN
    BY <1>6, Zenon
  <2>4. c => BlobHasPublishedReference(Sha[m])
    <3>1. s.challenge => BlobHasPublishedReference(Sha[m])
      BY <1>2, <1>6, <2>1, NewSessionFits DEF MessageInv, ProofInv
    <3>. QED  BY <1>6, <3>1, Zenon DEF BlobHasPublishedReference
  <2>. DEFINE t == Polled(s, c)
  <2>5. /\ t \in UploadSession /\ t.received = s.received /\ t.final = s.final
        /\ t.hashValid <=> s.hashValid
        /\ t.hashOk <=> s.hashOk
        /\ t.challenge <=> c
    BY <2>2, <2>3, PolledIs
  <2>6. SetSession(m, t)
    BY <1>6
  <2>. HIDE DEF t
  <2>7. SessionIs(m, t)
    BY <1>2, <2>5, <2>6, SetSessionDoes
  <2>8. PartFits(m, t)
    <3>1. CASE session[m] # None
      <4>1. s = session[m] /\ UNCHANGED <<part, blob>> /\ SessionFits(s, part[m])
        BY <1>2, <1>6, <3>1 DEF MessageInv, SessionInv
      <4>. QED  BY <1>2, <2>5, <4>1 DEF SessionFits, WorkerTypes, PartFits
    <3>2. CASE session[m] = None
      <4>1. /\ s.received = ResumePoint(m) /\ s.final = "" /\ (s.hashValid => ResumePoint(m) = 0)
            /\ RecoverUploadFile(m)
        BY <1>6, <2>1, <3>2, NewSessionFits
      <4>2. CASE part[m] = None /\ UNCHANGED <<part, blob>>
        BY <1>2, <2>5, <4>1, <4>2 DEF SessionFits, WorkerTypes, PartFits
      <4>3. ASSUME NEW d \in Data, PartHolds(m, d), Len(d) = ResumePoint(m)
            PROVE  PartFits(m, t)
        <5>1. Len(d) = 0 => AllOk(d)
          BY DataIs DEF AllOk
        <5>2. SessionFits(t, part'[m])
          BY <2>5, <4>1, <4>3, <5>1 DEF SessionFits, PartHolds
        <5>. QED  BY <4>3, <5>2 DEF PartHolds, PartFits
      <4>. QED  BY <1>1, <1>2, <4>1, <4>2, <4>3, RecoverDoes
    <3>. QED  BY <3>1, <3>2
  <2>9. WorkerTypes'
    BY <1>1, <1>2, <1>6, <2>7, <2>8 DEF WorkerTypes, SessionIs, PartFits
  <2>10. MessageInv(m)'
    BY <1>1, <1>3, <2>4, <2>5, <2>7, <2>8, AtRest DEF SessionIs, PartFits
  <2>11. Alone(m)
    BY <1>1, <2>7, <2>8 DEF Alone, SessionIs, PartFits
  <2>. QED  BY <1>1, <2>8, <2>9, <2>10, <2>11, OwnStep DEF PartFits
<1>. QED  BY <1>4, <1>5, <1>6, Zenon DEF HandleResourceUploadProgress, Polled

-----------------------------------------------------------------------------
(* The whole file.                                                         *)

\* The session after a mismatch, and when the verdict is good.
Again(s) ==
  LET count == s.mismatches + 1
  IN [s EXCEPT !.mismatches = IF count < MaxMismatch THEN count ELSE MaxMismatch,
               !.final = "bad"]
Passed(s) == [s EXCEPT !.final = "ok"]

LEMMA AgainIs ==
  ASSUME NEW s \in UploadSession
  PROVE  /\ Again(s) \in UploadSession /\ Again(s).received = s.received
         /\ Again(s).final = "bad"
         /\ Again(s).hashValid <=> s.hashValid
         /\ Again(s).hashOk <=> s.hashOk
         /\ Again(s).challenge <=> s.challenge
<1>. DEFINE k == IF s.mismatches + 1 < MaxMismatch THEN s.mismatches + 1 ELSE MaxMismatch
<1>1. k \in 0..MaxMismatch
  <2>1. s.mismatches \in 0..MaxMismatch
    BY DEF UploadSession
  <2>. QED  BY <2>1, UploadAssumption
<1>2. Again(s) = [s EXCEPT !.mismatches = k, !.final = "bad"]
  BY Zenon DEF Again
<1>. HIDE DEF k
<1>. QED  BY <1>1, <1>2 DEF UploadSession

LEMMA PassedIs ==
  ASSUME NEW s \in UploadSession
  PROVE  /\ Passed(s) \in UploadSession /\ Passed(s).received = s.received
         /\ Passed(s).final = "ok"
         /\ Passed(s).hashValid <=> s.hashValid
         /\ Passed(s).hashOk <=> s.hashOk
         /\ Passed(s).challenge <=> s.challenge
BY DEF Passed, UploadSession

LEMMA StartOverIs ==
  ASSUME NEW s \in UploadSession
  PROVE  /\ StartOver(s) \in UploadSession /\ StartOver(s).received = 0
         /\ StartOver(s).final = ""
         /\ StartOver(s).challenge <=> s.challenge
<1>1. 0 \in 0..Chunks
  BY UploadAssumption
<1>. QED  BY <1>1 DEF StartOver, UploadSession

\* A good verdict is true of the part (full_hash of CompleteResourceUpload).
LEMMA VerdictHolds ==
  ASSUME TypeOK, NEW m \in Messages, session[m] # None, SessionFits(session[m], part[m]),
         session[m].received = Chunks, FullHash(m) = "ok", part[m] # None
  PROVE  AllOk(part[m].data)
<1>1. CASE session[m].final # ""
  BY <1>1 DEF FullHash, SessionFits
<1>2. CASE session[m].final = "" /\ session[m].hashValid
  BY <1>2 DEF FullHash, SessionFits
<1>3. CASE session[m].final = "" /\ ~session[m].hashValid
  BY <1>3 DEF FullHash, Intact
<1>. QED  BY <1>1, <1>2, <1>3

\* From the verdict on: what an upload that completes relies on.
LEMMA Underway ==
  ASSUME NEW m \in Messages, pc'[m] \in Completing,
         session'[m] # None, session'[m].final = "ok",
         SessionFits(session'[m], part'[m]),
         session'[m].challenge => BlobHasPublishedReference(Sha[m])',
         pc'[m] = "install" /\ part'[m] # None => part'[m].synced,
         pc'[m] \in {"unlink", "sync", "dedup", "publish"} => blob'[Sha[m]] # None,
         pc'[m] \in {"dedup", "publish"} => blob'[Sha[m]].durable,
         m \in linked' => pc'[m] = "unlink"
  PROVE  MessageInv(m)'
<1>1. SessionInv(m)'
  BY DEF SessionInv, SessionFits
<1>2. StepInv(m)'
  BY DEF StepInv, Completing
<1>3. ProofInv(m)'
  BY DEF ProofInv, Completing
<1>4. LinkInv(m)'
  BY DEF LinkInv
<1>. QED  BY <1>1, <1>2, <1>3, <1>4 DEF MessageInv

\* CheckWholeFile: the verdict, a mismatch, the last mismatch.
LEMMA WholeFileStep ==
  ASSUME IInv, NEW m \in Messages, CheckWholeFile(m)
  PROVE  IInv'
<1>. DEFINE s == session[m]
<1>1. /\ pc[m] = "hash" /\ m \notin linked
      /\ UNCHANGED <<platform, blob, mutex, gc, todo, victim, cache, badRead, rowOld>>
  BY NotLinked DEF CheckWholeFile
<1>2. TypeInv /\ TypeOK /\ WorkerTypes /\ MessageInv(m)
  BY TypesOf DEF IInv
<1>3. /\ s # None /\ s \in UploadSession /\ s.received = Chunks /\ SessionFits(s, part[m])
      /\ s.challenge => BlobHasPublishedReference(Sha[m])
  BY <1>1, <1>2, SessionOf DEF MessageInv, SessionInv, StepInv, ProofInv
<1>4. StatusGrows => (BlobHasPublishedReference(Sha[m]) => BlobHasPublishedReference(Sha[m])')
  BY DEF StatusGrows, BlobHasPublishedReference
<1>. HIDE DEF s
<1>5. CASE Go(m, "idle") /\ UNCHANGED <<status, told, part, linked, session, faults>>
  <2>1. PcIs(m, "idle")
    BY <1>2, <1>5, GoDoes DEF Steps
  <2>2. WorkerTypes'
    BY <1>1, <1>2, <1>5, <2>1 DEF WorkerTypes, PcIs
  <2>3. MessageInv(m)'
    BY <1>1, <1>3, <1>4, <1>5, <2>1, AtRest DEF PcIs, StatusGrows, s
  <2>4. Alone(m) /\ pc'[m] \notin Locked
    BY <1>1, <1>5, <2>1 DEF Alone, PcIs, Locked
  <2>. QED  BY <1>1, <1>5, <2>2, <2>3, <2>4, OwnStep
<1>6. CASE /\ FullHash(m) = "ok" /\ SetSession(m, Passed(s)) /\ Go(m, "flush")
           /\ UNCHANGED <<status, told, part, linked, faults>>
  <2>. DEFINE t == Passed(s)
  <2>1. /\ t \in UploadSession /\ t # None /\ t.received = Chunks /\ t.final = "ok"
        /\ t.challenge <=> s.challenge
    BY <1>3, PassedIs, NoneAssumption
  <2>2. SetSession(m, t)
    BY <1>6
  <2>. HIDE DEF t
  <2>3. SessionIs(m, t) /\ PcIs(m, "flush")
    BY <1>2, <1>6, <2>1, <2>2, GoDoes, SetSessionDoes DEF Steps
  <2>4. SessionFits(t, part[m])
    BY <1>2, <1>3, <1>6, <2>1, VerdictHolds DEF SessionFits, s
  <2>5. WorkerTypes'
    BY <1>1, <1>2, <1>6, <2>3 DEF WorkerTypes, PcIs, SessionIs
  <2>6. MessageInv(m)'
    BY <1>1, <1>3, <1>4, <1>6, <2>1, <2>3, <2>4, Underway
    DEF PcIs, SessionIs, StatusGrows, Completing
  <2>7. Alone(m) /\ pc'[m] \notin Locked
    BY <1>1, <1>6, <2>3 DEF Alone, PcIs, SessionIs, Locked
  <2>. QED  BY <1>1, <1>6, <2>5, <2>6, <2>7, OwnStep
<1>7. ASSUME SetSession(m, Again(s)), Go(m, "idle"), UNCHANGED <<status, told, part, linked>>,
             faults' \in 0..MaxFaults
      PROVE  IInv'
  <2>. DEFINE t == Again(s)
  <2>1. /\ t \in UploadSession /\ t.received = s.received /\ t.final = "bad"
        /\ t.hashValid <=> s.hashValid
        /\ t.hashOk <=> s.hashOk
        /\ t.challenge <=> s.challenge
    BY <1>3, AgainIs
  <2>2. SetSession(m, t)
    BY <1>7
  <2>. HIDE DEF t
  <2>3. SessionIs(m, t) /\ PcIs(m, "idle")
    BY <1>2, <1>7, <2>1, <2>2, GoDoes, SetSessionDoes DEF Steps
  <2>4. SessionFits(t, part[m])
    BY <1>3, <2>1 DEF SessionFits
  <2>5. WorkerTypes'
    BY <1>1, <1>2, <1>7, <2>3 DEF WorkerTypes, PcIs, SessionIs
  <2>6. MessageInv(m)'
    BY <1>1, <1>3, <1>4, <1>7, <2>1, <2>3, <2>4, AtRest DEF PcIs, SessionIs, StatusGrows
  <2>7. Alone(m) /\ pc'[m] \notin Locked
    BY <1>1, <1>7, <2>3 DEF Alone, PcIs, SessionIs, Locked
  <2>. QED  BY <1>1, <1>7, <2>5, <2>6, <2>7, OwnStep
<1>8. ASSUME NEW t \in UploadSession \cup {None}, SetSession(m, t), RemovePart(m), Go(m, "idle"),
             t # None => t.received = 0 /\ t.final = "" /\ (t.challenge <=> s.challenge),
             \/ UNCHANGED <<status, told>>
             \/ /\ status[m] = "pending" /\ status' = [status EXCEPT ![m] = "failed"]
                /\ Tell(m, "failed"),
             UNCHANGED faults
      PROVE  IInv'
  <2>1. SessionIs(m, t) /\ PcIs(m, "idle") /\ PartGone(m)
    BY <1>2, <1>8, GoDoes, SetSessionDoes, RemovePartDoes DEF Steps
  <2>2. /\ status' \in [Messages -> {"pending", "published", "failed"}]
        /\ told' \in [Messages -> {"none", "published", "failed"}]
        /\ \A n \in Messages \ {m} : status'[n] = status[n]
        /\ status'[m] = status[m] \/ (status[m] = "pending" /\ status'[m] = "failed")
    BY <1>2, <1>8 DEF WorkerTypes, Tell
  <2>3. t # None => SessionFits(t, None)
    BY <1>8 DEF SessionFits
  <2>4. WorkerTypes'
    <3>1. faults' = faults
      BY <1>8
    <3>. QED  BY <1>1, <1>2, <2>1, <2>2, <3>1 DEF WorkerTypes, PcIs, SessionIs, PartGone
  <2>5. StatusGrows
    BY <2>2 DEF StatusGrows
  <2>6. MessageInv(m)'
    BY <1>1, <1>3, <1>4, <1>8, <2>1, <2>3, <2>5, AtRest DEF PcIs, SessionIs, PartGone
  <2>7. Alone(m) /\ pc'[m] \notin Locked
    BY <1>1, <2>1, <2>2 DEF Alone, PcIs, SessionIs, PartGone, Locked
  <2>. QED  BY <1>1, <2>2, <2>4, <2>6, <2>7, OwnStep
<1>9. StartOver(Again(s)) \in UploadSession /\ StartOver(Again(s)).received = 0
      /\ StartOver(Again(s)).final = "" /\ (StartOver(Again(s)).challenge <=> s.challenge)
  BY <1>3, AgainIs, StartOverIs
<1>10. CASE /\ status[m] = "pending" /\ status' = [status EXCEPT ![m] = "failed"]
            /\ RemovePart(m) /\ SetSession(m, None) /\ Tell(m, "failed") /\ UNCHANGED faults
            /\ Go(m, "idle")
  BY <1>8, <1>10
<1>11. CASE /\ RemovePart(m) /\ SetSession(m, StartOver(Again(s))) /\ UNCHANGED faults
            /\ Go(m, "idle") /\ UNCHANGED <<status, told>>
  BY <1>8, <1>9, <1>11
<1>12. CASE /\ Fault("db") \/ Fault("disk") \/ UNCHANGED faults
            /\ SetSession(m, Again(s)) /\ Go(m, "idle") /\ UNCHANGED <<status, told, part, linked>>
  <2>1. faults' \in 0..MaxFaults
    BY <1>2, <1>12, FaultCounted DEF WorkerTypes
  <2>. QED  BY <1>7, <1>12, <2>1
<1>. QED
  BY <1>5, <1>6, <1>10, <1>11, <1>12, Zenon DEF CheckWholeFile, Again, Passed, s

-----------------------------------------------------------------------------
(* Completing an upload.                                                   *)

\* The session of an upload that completes, and its part.
LEMMA CompletingHas ==
  ASSUME IInv, NEW m \in Messages, pc[m] \in Completing
  PROVE  /\ session[m] # None /\ session[m] \in UploadSession
         /\ session[m].final = "ok" /\ session[m].received = Chunks
         /\ SessionFits(session[m], part[m])
         /\ part[m] # None => Intact(part[m])
         /\ StatusGrows /\ session[m].challenge => BlobHasPublishedReference(Sha[m])'
<1>1. TypeOK /\ MessageInv(m)
  BY TypesOf DEF IInv
<1>2. session[m] # None /\ session[m].final = "ok" /\ SessionFits(session[m], part[m])
  BY <1>1 DEF MessageInv, StepInv, SessionInv
<1>3. session[m].received = Chunks /\ (part[m] # None => Intact(part[m]))
  BY <1>2 DEF SessionFits, Intact
<1>4. StatusGrows /\ session[m].challenge => BlobHasPublishedReference(Sha[m])'
  BY <1>1, <1>2 DEF MessageInv, ProofInv, StatusGrows, BlobHasPublishedReference
<1>. QED  BY <1>1, <1>2, <1>3, <1>4, SessionOf

\* Who takes, keeps and releases BlobInstallGcMutex.
LEMMA TakeMutex ==
  ASSUME IInv, NEW m \in Messages, NEW next, PcIs(m, next), ~mutex, mutex', gc' = gc
  PROVE  MutexInv'
BY DEF IInv, MutexInv, PcIs

LEMMA KeepMutex ==
  ASSUME IInv, NEW m \in Messages, NEW next, PcIs(m, next), pc[m] \in Locked,
         mutex' = mutex, gc' = gc
  PROVE  MutexInv'
BY DEF IInv, MutexInv, PcIs

LEMMA DropMutex ==
  ASSUME IInv, NEW m \in Messages, NEW next, PcIs(m, next), pc[m] \in Locked,
         next \notin Locked, gc' = gc
  PROVE  MutexInv'
BY DEF IInv, MutexInv, PcIs

\* The blobs, when one content at most changes.
LEMMA BlobsKept ==
  ASSUME IInv, NEW s \in Shas, platform' = platform,
         \A x \in Shas \ {s} : blob'[x] = blob[x],
         BlobKeeps(s), BlobInv(s)'
  PROVE  \A x \in Shas : BlobKeeps(x) /\ BlobInv(x)'
BY DEF IInv, BlobKeeps, BlobInv

LEMMA BlobsSame ==
  ASSUME IInv, platform' = platform, blob' = blob
  PROVE  \A x \in Shas : BlobKeeps(x) /\ BlobInv(x)'
BY DEF IInv, BlobKeeps, BlobInv

\* FlushFileToDisk: the part is on disk when it is to be installed.
LEMMA FlushStep ==
  ASSUME IInv, NEW m \in Messages, FlushFileToDisk(m)
  PROVE  IInv'
<1>1. /\ pc[m] = "flush" /\ m \notin linked
      /\ UNCHANGED <<platform, status, told, linked, session, mutex, gc, todo, victim, cache,
                     badRead, rowOld>>
  BY NotLinked DEF FlushFileToDisk
<1>2. TypeInv /\ TypeOK /\ WorkerTypes /\ StatusGrows
  BY <1>1, TypesOf DEF StatusGrows
<1>3. /\ session[m] # None /\ session[m].final = "ok" /\ SessionFits(session[m], part[m])
      /\ session[m].challenge => BlobHasPublishedReference(Sha[m])'
  BY <1>1, <1>2, CompletingHas DEF Completing
<1>4. CASE /\ part[m] # None /\ part' = [part EXCEPT ![m].synced = TRUE] /\ blob' = blob
           /\ Go(m, "install") /\ UNCHANGED faults
  <2>. DEFINE f == [part[m] EXCEPT !.synced = TRUE]
  <2>1. part[m] \in File
    BY <1>2, <1>4, PartType
  <2>2. f \in File /\ f # None /\ f.synced /\ f.data = part[m].data
    BY <2>1, NoneAssumption DEF File
  <2>3. part' = [part EXCEPT ![m] = f]
    BY <1>4
  <2>. HIDE DEF f
  <2>4. /\ part' \in [Messages -> File \cup {None}] /\ part'[m] = f
        /\ \A n \in Messages \ {m} : part'[n] = part[n]
    BY <1>2, <2>2, <2>3 DEF WorkerTypes
  <2>5. PcIs(m, "install")
    BY <1>2, <1>4, GoDoes DEF Steps
  <2>6. SessionFits(session[m], f)
    BY <1>3, <1>4, <2>2 DEF SessionFits
  <2>7. WorkerTypes'
    BY <1>1, <1>2, <1>4, <2>2, <2>4, <2>5 DEF WorkerTypes, PcIs
  <2>8. MessageInv(m)'
    BY <1>1, <1>3, <2>2, <2>4, <2>5, <2>6, Underway DEF PcIs, Completing
  <2>9. Alone(m) /\ pc'[m] \notin Locked
    BY <1>1, <2>4, <2>5 DEF Alone, PcIs, Locked
  <2>. QED  BY <1>1, <1>4, <2>7, <2>8, <2>9, OwnStep
<1>5. CASE /\ Fault("disk") \/ (part[m] = None /\ UNCHANGED faults)
           /\ Go(m, "idle") /\ UNCHANGED <<part, blob>>
  <2>1. PcIs(m, "idle") /\ faults' \in 0..MaxFaults
    BY <1>2, <1>5, GoDoes, FaultCounted DEF Steps, WorkerTypes
  <2>2. WorkerTypes'
    BY <1>1, <1>2, <1>5, <2>1 DEF WorkerTypes, PcIs
  <2>3. MessageInv(m)'
    BY <1>1, <1>3, <1>5, <2>1, AtRest DEF PcIs
  <2>4. Alone(m) /\ pc'[m] \notin Locked
    BY <1>1, <1>5, <2>1 DEF Alone, PcIs, Locked
  <2>. QED  BY <1>1, <1>5, <2>2, <2>3, <2>4, OwnStep
<1>. QED  BY <1>1, <1>4, <1>5 DEF FlushFileToDisk

\* A step with the mutex, or one that takes or releases it.
LEMMA LockedStep ==
  ASSUME IInv, NEW m \in Messages, WorkerTypes', MutexInv', MessageInv(m)', Alone(m),
         UNCHANGED <<todo, rowOld>>, status' = status,
         \A x \in Shas : BlobKeeps(x) /\ BlobInv(x)'
  PROVE  IInv'
<1>1. TypeInv'
  BY TypesOf, TypesKept DEF Alone
<1>2. MayPublish(m)
  BY DEF MayPublish
<1>. QED  BY <1>1, <1>2, StepKeeps

\* EnsureDirectoryDurable, and what else only makes a blob safer.
Safer(s) ==
  /\ blob' \in [Shas -> Blob \cup {None}]
  /\ \A x \in Shas \ {s} : blob'[x] = blob[x]
  /\ blob'[s] # None /\ blob'[s].data = blob[s].data
  /\ blob[s].synced => blob'[s].synced
  /\ blob[s].durable => blob'[s].durable

LEMMA SaferKeeps ==
  ASSUME IInv, NEW s \in Shas, blob[s] # None, Safer(s), platform' = platform
  PROVE  \A x \in Shas : BlobKeeps(x) /\ BlobInv(x)'
<1>1. BlobKeeps(s)
  BY DEF BlobKeeps, Safer
<1>2. BlobInv(s)'
  BY DEF IInv, BlobInv, Safer, Intact
<1>3. \A x \in Shas \ {s} : blob'[x] = blob[x]
  BY DEF Safer
<1>. QED  BY <1>1, <1>2, <1>3, BlobsKept

LEMMA BlobPut ==
  ASSUME TypeOK, NEW s \in Shas, NEW f \in Blob, blob' = [blob EXCEPT ![s] = f]
  PROVE  /\ blob' \in [Shas -> Blob \cup {None}] /\ blob'[s] = f
         /\ \A x \in Shas \ {s} : blob'[x] = blob[x]
BY DEF TypeOK

LEMMA DurableIsSafer ==
  ASSUME TypeOK, NEW s \in Shas, blob[s] # None, blob' = [blob EXCEPT ![s].durable = TRUE]
  PROVE  Safer(s) /\ blob'[s].durable
<1>. DEFINE f == [blob[s] EXCEPT !.durable = TRUE]
<1>1. blob[s] \in Blob
  BY BlobType
<1>2. /\ f \in Blob /\ f # None /\ f.data = blob[s].data /\ f.durable
      /\ f.synced <=> blob[s].synced
  BY <1>1, NoneAssumption DEF Blob
<1>3. blob' = [blob EXCEPT ![s] = f]
  OBVIOUS
<1>. HIDE DEF f
<1>4. /\ blob' \in [Shas -> Blob \cup {None}] /\ blob'[s] = f
      /\ \A x \in Shas \ {s} : blob'[x] = blob[x]
  BY <1>2, <1>3, BlobPut, Zenon
<1>. QED  BY <1>2, <1>4, Zenon DEF Safer

LEMMA SyncedIsSafer ==
  ASSUME TypeOK, NEW s \in Shas, blob[s] # None, blob' = [blob EXCEPT ![s].synced = TRUE]
  PROVE  Safer(s)
<1>. DEFINE f == [blob[s] EXCEPT !.synced = TRUE]
<1>1. blob[s] \in Blob
  BY BlobType
<1>2. /\ f \in Blob /\ f # None /\ f.data = blob[s].data /\ f.synced
      /\ f.durable <=> blob[s].durable
  BY <1>1, NoneAssumption DEF Blob
<1>3. blob' = [blob EXCEPT ![s] = f]
  OBVIOUS
<1>. HIDE DEF f
<1>4. /\ blob' \in [Shas -> Blob \cup {None}] /\ blob'[s] = f
      /\ \A x \in Shas \ {s} : blob'[x] = blob[x]
  BY <1>2, <1>3, BlobPut, Zenon
<1>. QED  BY <1>2, <1>4, Zenon DEF Safer

\* The blob a part becomes.
Installed(m, e) == [data |-> part[m].data, synced |-> part[m].synced, old |-> part[m].old,
                    durable |-> e]

LEMMA InstalledIs ==
  ASSUME IInv, NEW m \in Messages, pc[m] = "install", part[m] # None, NEW e \in BOOLEAN,
         NEW s \in Shas, blob[s] = None, blob' = [blob EXCEPT ![s] = Installed(m, e)],
         platform' = platform, platform = "windows" => e
  PROVE  /\ blob' \in [Shas -> Blob \cup {None}] /\ blob'[s] # None /\ (e => blob'[s].durable)
         /\ \A x \in Shas : BlobKeeps(x) /\ BlobInv(x)'
         /\ \A x \in Shas : blob[x] # None => blob'[x] # None
<1>. DEFINE f == Installed(m, e)
<1>1. TypeOK /\ Intact(part[m]) /\ part[m].synced
  BY TypesOf, CompletingHas DEF Completing, IInv, MessageInv, StepInv
<1>2. part[m].data \in Data /\ part[m].synced \in BOOLEAN /\ part[m].old \in BOOLEAN
  BY <1>1, PartType
<1>3. f \in Blob
  BY <1>2, NewBlob DEF Installed
<1>4. /\ f.data = part[m].data /\ (f.synced <=> part[m].synced) /\ (f.durable <=> e)
  BY <1>2 DEF Installed
<1>. HIDE DEF f
<1>5. f # None /\ Intact(f) /\ f.synced
  BY <1>1, <1>3, <1>4, NoneAssumption DEF Intact
<1>6. /\ blob' \in [Shas -> Blob \cup {None}] /\ blob'[s] = f
      /\ \A x \in Shas \ {s} : blob'[x] = blob[x]
  BY <1>1, <1>3 DEF TypeOK, f
<1>7. BlobKeeps(s) /\ BlobInv(s)'
  BY <1>4, <1>5, <1>6 DEF BlobKeeps, BlobInv
<1>8. \A x \in Shas : BlobKeeps(x) /\ BlobInv(x)'
  BY <1>6, <1>7, BlobsKept
<1>. QED  BY <1>4, <1>5, <1>6, <1>8

\* DurableRename: an existing blob, one move, or a second name.
LEMMA InstallStep ==
  ASSUME IInv, NEW m \in Messages, DurableRename(m)
  PROVE  IInv'
<1>. DEFINE s == Sha[m]
<1>1. /\ pc[m] = "install" /\ m \notin linked /\ ~mutex /\ mutex' = TRUE /\ s \in Shas
      /\ UNCHANGED <<platform, status, told, session, gc, todo, victim, cache, badRead, rowOld>>
  BY NotLinked, UploadAssumption DEF DurableRename
<1>2. TypeInv /\ TypeOK /\ WorkerTypes /\ StatusGrows
  BY <1>1, TypesOf DEF StatusGrows
<1>3. /\ session[m] # None /\ session[m].final = "ok" /\ SessionFits(session[m], part[m])
      /\ session[m].received = Chunks
      /\ session[m].challenge => BlobHasPublishedReference(Sha[m])'
  BY <1>1, <1>2, CompletingHas DEF Completing
<1>. HIDE DEF s
<1>4. ASSUME NEW next \in {"unlink", "dedup", "publish", "restore"}, PcIs(m, next),
             faults' \in 0..MaxFaults,
             part' \in [Messages -> File \cup {None}],
             part'[m] = part[m] \/ part'[m] = None,
             \A n \in Messages \ {m} : part'[n] = part[n],
             linked' \subseteq {n \in Messages : part'[n] # None /\ blob'[Sha[n]] # None},
             linked' \subseteq linked \cup {m}, m \in linked' => next = "unlink",
             blob' \in [Shas -> Blob \cup {None}],
             next # "restore" => blob'[s] # None,
             next \in {"dedup", "publish"} => blob'[s].durable,
             \A x \in Shas : BlobKeeps(x) /\ BlobInv(x)'
      PROVE  IInv'
  <2>1. WorkerTypes'
    BY <1>1, <1>2, <1>4 DEF WorkerTypes, PcIs
  <2>2. MutexInv'
    BY <1>1, <1>4, TakeMutex
  <2>3. SessionFits(session'[m], part'[m])
    BY <1>1, <1>3, <1>4 DEF SessionFits
  <2>4. MessageInv(m)'
    BY <1>1, <1>3, <1>4, <2>3, Underway DEF PcIs, Completing, s
  <2>5. Alone(m)
    BY <1>1, <1>4 DEF Alone, PcIs
  <2>. QED  BY <1>1, <1>4, <2>1, <2>2, <2>4, <2>5, LockedStep
<1>5. CASE /\ blob[s] # None /\ EnsureDirectoryDurable(s) /\ Go(m, "dedup")
           /\ UNCHANGED <<part, linked, faults>>
  <2>1. PcIs(m, "dedup")
    BY <1>2, <1>5, GoDoes DEF Steps
  <2>2. /\ blob' \in [Shas -> Blob \cup {None}] /\ blob'[s] # None /\ blob'[s].durable
        /\ \A x \in Shas : BlobKeeps(x) /\ BlobInv(x)'
        /\ \A x \in Shas : blob[x] # None => blob'[x] # None
    <3>1. CASE platform = "posix"
      <4>1. Safer(s) /\ blob'[s].durable
        BY <1>1, <1>2, <1>5, <3>1, DurableIsSafer DEF EnsureDirectoryDurable
      <4>2. \A x \in Shas : BlobKeeps(x) /\ BlobInv(x)'
        BY <1>1, <1>5, <4>1, SaferKeeps
      <4>. QED  BY <4>1, <4>2 DEF Safer
    <3>2. CASE platform # "posix"
      <4>1. blob' = blob
        BY <1>5, <3>2 DEF EnsureDirectoryDurable
      <4>2. platform = "windows"
        BY <1>2, <3>2, UploadAssumption DEF TypeOK
      <4>3. blob[s].durable
        BY <1>1, <1>5, <4>2 DEF IInv, BlobInv
      <4>. QED  BY <1>1, <1>2, <1>5, <4>1, <4>3, BlobsSame DEF WorkerTypes
    <3>. QED  BY <3>1, <3>2
  <2>3. linked' \subseteq {n \in Messages : part'[n] # None /\ blob'[Sha[n]] # None}
    BY <1>2, <1>5, <2>2, UploadAssumption DEF WorkerTypes
  <2>. QED  BY <1>1, <1>2, <1>4, <1>5, <2>1, <2>2, <2>3 DEF WorkerTypes
<1>6. CASE /\ blob[s] = None /\ part[m] # None /\ platform = "windows"
           /\ blob' = [blob EXCEPT ![s] = Installed(m, TRUE)]
           /\ RemovePart(m)
           /\ \/ Go(m, "publish") /\ UNCHANGED faults
              \/ Go(m, "restore") /\ Fault("disk")
  <2>1. PICK next \in {"publish", "restore"} : PcIs(m, next) /\ faults' \in 0..MaxFaults
    BY <1>2, <1>6, GoDoes, FaultCounted DEF Steps, WorkerTypes
  <2>2. /\ blob' \in [Shas -> Blob \cup {None}] /\ blob'[s] # None /\ blob'[s].durable
        /\ \A x \in Shas : BlobKeeps(x) /\ BlobInv(x)'
        /\ \A x \in Shas : blob[x] # None => blob'[x] # None
    BY <1>1, <1>6, InstalledIs
  <2>3. PartGone(m)
    BY <1>2, <1>6, RemovePartDoes
  <2>4. linked' \subseteq {n \in Messages : part'[n] # None /\ blob'[Sha[n]] # None}
    BY <1>2, <2>2, <2>3, UploadAssumption DEF WorkerTypes, PartGone
  <2>. QED  BY <1>1, <1>4, <2>1, <2>2, <2>3, <2>4 DEF PartGone
<1>7. CASE /\ blob[s] = None /\ part[m] # None /\ platform = "posix"
           /\ blob' = [blob EXCEPT ![s] = Installed(m, FALSE)]
           /\ linked' = linked \cup {m}
           /\ Go(m, "unlink")
           /\ UNCHANGED <<part, faults>>
  <2>1. PcIs(m, "unlink")
    BY <1>2, <1>7, GoDoes DEF Steps
  <2>2. /\ blob' \in [Shas -> Blob \cup {None}] /\ blob'[s] # None
        /\ \A x \in Shas : BlobKeeps(x) /\ BlobInv(x)'
        /\ \A x \in Shas : blob[x] # None => blob'[x] # None
    BY <1>1, <1>7, InstalledIs
  <2>3. linked' \subseteq {n \in Messages : part'[n] # None /\ blob'[Sha[n]] # None}
    BY <1>2, <1>7, <2>2, UploadAssumption DEF WorkerTypes, s
  <2>. QED  BY <1>1, <1>2, <1>4, <1>7, <2>1, <2>2, <2>3 DEF WorkerTypes
<1>8. CASE /\ Fault("disk") \/ (blob[s] = None /\ part[m] = None /\ UNCHANGED faults)
           /\ Go(m, "restore")
           /\ UNCHANGED <<part, blob, linked>>
  <2>1. PcIs(m, "restore") /\ faults' \in 0..MaxFaults
    BY <1>2, <1>8, GoDoes, FaultCounted DEF Steps, WorkerTypes
  <2>2. \A x \in Shas : BlobKeeps(x) /\ BlobInv(x)'
    BY <1>1, <1>8, BlobsSame
  <2>. QED  BY <1>1, <1>2, <1>4, <1>8, <2>1, <2>2 DEF WorkerTypes
<1>. QED
  BY <1>5, <1>6, <1>7, <1>8, Zenon DEF DurableRename, Installed, s

\* A step of a worker that holds the mutex and goes on with it.
LEMMA GoesOn ==
  ASSUME IInv, NEW m \in Messages, pc[m] \in Locked,
         NEW next \in {"sync", "publish", "restore"}, PcIs(m, next),
         UNCHANGED <<platform, status, told, session, mutex, gc, todo, victim, cache, badRead,
                     rowOld>>,
         faults' \in 0..MaxFaults,
         part' \in [Messages -> File \cup {None}],
         part'[m] = part[m] \/ part'[m] = None,
         \A n \in Messages \ {m} : part'[n] = part[n],
         linked' \subseteq {n \in linked : part'[n] # None}, m \notin linked',
         blob' \in [Shas -> Blob \cup {None}],
         next # "restore" => blob'[Sha[m]] # None,
         next = "publish" => blob'[Sha[m]].durable,
         \A x \in Shas : BlobKeeps(x) /\ BlobInv(x)'
  PROVE  IInv'
<1>1. TypeInv /\ TypeOK /\ WorkerTypes /\ StatusGrows
  BY TypesOf DEF StatusGrows
<1>2. /\ session[m] # None /\ session[m].final = "ok" /\ SessionFits(session[m], part[m])
      /\ session[m].challenge => BlobHasPublishedReference(Sha[m])'
  BY <1>1, CompletingHas DEF Completing, Locked
<1>3. linked' \subseteq {n \in Messages : part'[n] # None /\ blob'[Sha[n]] # None}
  BY <1>1, UploadAssumption DEF WorkerTypes, BlobKeeps
<1>4. WorkerTypes'
  BY <1>1, <1>3 DEF WorkerTypes, PcIs
<1>5. MutexInv'
  BY KeepMutex
<1>6. SessionFits(session'[m], part'[m])
  BY <1>2 DEF SessionFits
<1>7. MessageInv(m)'
  BY <1>2, <1>6, Underway DEF PcIs, Completing
<1>8. Alone(m)
  BY DEF Alone, PcIs
<1>. QED  BY <1>4, <1>5, <1>7, <1>8, LockedStep

\* UnlinkPart: the old name goes.
LEMMA UnlinkStep ==
  ASSUME IInv, OneName, NEW m \in Messages, UnlinkPart(m)
  PROVE  IInv'
<1>1. /\ pc[m] = "unlink" /\ pc[m] \in Locked
      /\ UNCHANGED <<platform, status, told, blob, session, mutex, gc, todo, victim, cache,
                     badRead, rowOld>>
  BY DEF UnlinkPart, Locked
<1>2. TypeOK /\ WorkerTypes /\ blob[Sha[m]] # None
  BY <1>1, TypesOf DEF IInv, MessageInv, StepInv
<1>3. "twoNames" \notin Faults[platform]
  BY <1>2 DEF OneName, TypeOK
<1>4. RemovePart(m) /\ Go(m, "sync") /\ UNCHANGED faults
  BY <1>3 DEF UnlinkPart
<1>5. PartGone(m) /\ PcIs(m, "sync")
  BY <1>2, <1>4, RemovePartDoes, GoDoes DEF Steps
<1>6. \A x \in Shas : BlobKeeps(x) /\ BlobInv(x)'
  BY <1>1, BlobsSame
<1>7. linked' \subseteq {n \in linked : part'[n] # None} /\ m \notin linked'
  BY <1>2, <1>5 DEF PartGone, WorkerTypes
<1>. QED  BY <1>1, <1>2, <1>4, <1>5, <1>6, <1>7, GoesOn DEF PartGone, WorkerTypes

\* FsyncDirectory: the name of the blob is on disk.
LEMMA FsyncStep ==
  ASSUME IInv, NEW m \in Messages, FsyncDirectory(m)
  PROVE  IInv'
<1>1. /\ pc[m] = "sync" /\ pc[m] \in Locked /\ m \notin linked /\ Sha[m] \in Shas
      /\ UNCHANGED <<platform, status, told, part, linked, session, mutex, gc, todo, victim, cache,
                     badRead, rowOld>>
  BY NotLinked, UploadAssumption DEF FsyncDirectory, Locked
<1>2. TypeOK /\ WorkerTypes /\ blob[Sha[m]] # None
  BY <1>1, TypesOf DEF IInv, MessageInv, StepInv
<1>3. linked' \subseteq {n \in linked : part'[n] # None} /\ m \notin linked'
  BY <1>1, <1>2 DEF WorkerTypes
<1>4. CASE blob' = [blob EXCEPT ![Sha[m]].durable = TRUE] /\ Go(m, "publish") /\ UNCHANGED faults
  <2>1. PcIs(m, "publish")
    BY <1>2, <1>4, GoDoes DEF Steps
  <2>2. Safer(Sha[m]) /\ blob'[Sha[m]].durable
    BY <1>1, <1>2, <1>4, DurableIsSafer
  <2>3. \A x \in Shas : BlobKeeps(x) /\ BlobInv(x)'
    BY <1>1, <1>2, <2>2, SaferKeeps
  <2>. QED  BY <1>1, <1>2, <1>3, <1>4, <2>1, <2>2, <2>3, GoesOn DEF Safer, WorkerTypes
<1>5. CASE Fault("disk") /\ Go(m, "restore") /\ UNCHANGED blob
  <2>1. PcIs(m, "restore") /\ faults' \in 0..MaxFaults
    BY <1>2, <1>5, GoDoes, FaultCounted DEF Steps
  <2>2. \A x \in Shas : BlobKeeps(x) /\ BlobInv(x)'
    BY <1>1, <1>5, BlobsSame
  <2>. QED  BY <1>1, <1>2, <1>3, <1>5, <2>1, <2>2, GoesOn DEF WorkerTypes
<1>. QED  BY <1>4, <1>5 DEF FsyncDirectory

\* VerifyExistingBlob: the blob that is there takes the place of the part.
LEMMA DedupStep ==
  ASSUME IInv, NEW m \in Messages, VerifyExistingBlob(m)
  PROVE  IInv'
<1>1. /\ pc[m] = "dedup" /\ pc[m] \in Locked /\ m \notin linked /\ Sha[m] \in Shas
      /\ UNCHANGED <<platform, status, told, session, mutex, gc, todo, victim, cache, badRead,
                     rowOld>>
  BY NotLinked, UploadAssumption DEF VerifyExistingBlob, Locked
<1>2. TypeOK /\ WorkerTypes /\ blob[Sha[m]] # None /\ blob[Sha[m]].durable
  BY <1>1, TypesOf DEF IInv, MessageInv, StepInv
<1>3. CASE /\ blob' = [blob EXCEPT ![Sha[m]].synced = TRUE]
           /\ \/ RemovePart(m) /\ UNCHANGED faults
              \/ Fault("disk") /\ UNCHANGED <<part, linked>>
           /\ Go(m, "publish")
  <2>1. PcIs(m, "publish") /\ faults' \in 0..MaxFaults
    BY <1>2, <1>3, GoDoes, FaultCounted DEF Steps, WorkerTypes
  <2>2. Safer(Sha[m])
    BY <1>1, <1>2, <1>3, SyncedIsSafer
  <2>3. \A x \in Shas : BlobKeeps(x) /\ BlobInv(x)'
    BY <1>1, <1>2, <2>2, SaferKeeps
  <2>4. /\ part' \in [Messages -> File \cup {None}]
        /\ part'[m] = part[m] \/ part'[m] = None
        /\ \A n \in Messages \ {m} : part'[n] = part[n]
        /\ linked' \subseteq {n \in linked : part'[n] # None} /\ m \notin linked'
    <3>1. CASE RemovePart(m)
      BY <1>2, <3>1, RemovePartDoes DEF PartGone, WorkerTypes
    <3>2. CASE UNCHANGED <<part, linked>>
      BY <1>1, <1>2, <3>2 DEF WorkerTypes
    <3>. QED  BY <1>3, <3>1, <3>2
  <2>. QED  BY <1>1, <1>2, <2>1, <2>2, <2>3, <2>4, GoesOn DEF Safer
<1>4. CASE /\ Fault("disk") \/ UNCHANGED faults
           /\ Go(m, "restore") /\ UNCHANGED <<part, blob, linked>>
  <2>1. PcIs(m, "restore") /\ faults' \in 0..MaxFaults
    BY <1>2, <1>4, GoDoes, FaultCounted DEF Steps, WorkerTypes
  <2>2. \A x \in Shas : BlobKeeps(x) /\ BlobInv(x)'
    BY <1>1, <1>4, BlobsSame
  <2>3. linked' \subseteq {n \in linked : part'[n] # None} /\ m \notin linked'
    BY <1>1, <1>2, <1>4 DEF WorkerTypes
  <2>. QED  BY <1>1, <1>2, <1>4, <2>1, <2>2, <2>3, GoesOn DEF WorkerTypes
<1>. QED  BY <1>3, <1>4 DEF VerifyExistingBlob

-----------------------------------------------------------------------------
(* Publication.                                                            *)

\* The transaction publishes a pending message or changes nothing.
LEMMA PublishTxnDoes ==
  ASSUME WorkerTypes, NEW m \in Messages, PublishTxn(m) \/ UNCHANGED status
  PROVE  /\ status' \in [Messages -> {"pending", "published", "failed"}]
         /\ \A n \in Messages \ {m} : status'[n] = status[n]
         /\ status'[m] = status[m] \/ status'[m] = "published"
         /\ StatusGrows
BY DEF WorkerTypes, PublishTxn, StatusGrows

LEMMA TellDoes ==
  ASSUME WorkerTypes, NEW m \in Messages, NEW a \in {"none", "published", "failed"}, Tell(m, a)
  PROVE  told' \in [Messages -> {"none", "published", "failed"}]
BY DEF WorkerTypes, Tell

\* A step that may publish m over a durable blob.
LEMMA PublishingStep ==
  ASSUME IInv, NEW m \in Messages, WorkerTypes', MutexInv', MessageInv(m)', Alone(m),
         UNCHANGED <<todo, rowOld, blob>>, StatusGrows,
         blob[Sha[m]] # None /\ blob[Sha[m]].durable, gc # "rmblob"
  PROVE  IInv'
<1>1. TypeInv'
  BY TypesOf, TypesKept DEF Alone
<1>2. MayPublish(m) /\ (status[m] = "published" => status'[m] = "published")
  BY DEF MayPublish, StatusGrows
<1>3. \A x \in Shas : BlobKeeps(x) /\ BlobInv(x)'
  BY BlobsSame DEF Alone
<1>. QED  BY <1>1, <1>2, <1>3, StepKeeps

\* CompleteResourceUpload: published, or perhaps published.
LEMMA CompleteStep ==
  ASSUME IInv, NEW m \in Messages, CompleteResourceUpload(m)
  PROVE  IInv'
<1>1. /\ pc[m] = "publish" /\ pc[m] \in Locked /\ m \notin linked
      /\ UNCHANGED <<platform, part, blob, linked, gc, todo, victim, cache, badRead, rowOld>>
  BY NotLinked DEF CompleteResourceUpload, Locked
<1>2. /\ TypeOK /\ WorkerTypes /\ blob[Sha[m]] # None /\ blob[Sha[m]].durable
      /\ gc # "rmblob"
  BY <1>1, TypesOf DEF IInv, MessageInv, StepInv, MutexInv
<1>3. PublishTxn(m) \/ UNCHANGED status
  BY DEF CompleteResourceUpload
<1>4. /\ status' \in [Messages -> {"pending", "published", "failed"}]
      /\ \A n \in Messages \ {m} : status'[n] = status[n]
      /\ StatusGrows
  BY <1>2, <1>3, PublishTxnDoes
<1>5. CASE /\ SetSession(m, None)
           /\ Tell(m, IF status[m] = "failed" THEN "failed" ELSE "published")
           /\ mutex' = FALSE /\ Go(m, "idle") /\ UNCHANGED faults
  <2>1. SessionIs(m, None) /\ PcIs(m, "idle")
    BY <1>2, <1>5, SetSessionDoes, GoDoes DEF Steps
  <2>2. told' \in [Messages -> {"none", "published", "failed"}]
    BY <1>2, <1>5, TellDoes
  <2>3. WorkerTypes'
    BY <1>1, <1>2, <1>4, <1>5, <2>1, <2>2 DEF WorkerTypes, SessionIs, PcIs
  <2>4. MutexInv'
    BY <1>1, <2>1, DropMutex DEF Locked
  <2>5. MessageInv(m)'
    BY <1>1, <2>1, AtRest DEF SessionIs, PcIs
  <2>6. Alone(m)
    BY <1>1, <1>4, <2>1 DEF Alone, SessionIs, PcIs
  <2>. QED  BY <1>1, <1>2, <1>4, <2>3, <2>4, <2>5, <2>6, PublishingStep
<1>6. CASE Fault("db") /\ Go(m, "restore") /\ UNCHANGED <<told, session, mutex>>
  <2>1. PcIs(m, "restore") /\ faults' \in 0..MaxFaults
    BY <1>2, <1>6, GoDoes, FaultCounted DEF Steps
  <2>2. WorkerTypes'
    BY <1>1, <1>2, <1>4, <1>6, <2>1 DEF WorkerTypes, PcIs
  <2>3. MutexInv'
    BY <1>1, <1>6, <2>1, KeepMutex
  <2>4. /\ session[m] # None /\ session[m].final = "ok" /\ SessionFits(session[m], part[m])
        /\ session[m].challenge => BlobHasPublishedReference(Sha[m])'
    BY <1>1, <1>4, CompletingHas DEF Completing
  <2>5. MessageInv(m)'
    BY <1>1, <1>6, <2>1, <2>4, Underway DEF PcIs, Completing
  <2>6. Alone(m)
    BY <1>1, <1>4, <1>6, <2>1 DEF Alone, PcIs
  <2>. QED  BY <1>1, <1>2, <1>4, <2>2, <2>3, <2>5, <2>6, PublishingStep
<1>. QED  BY <1>5, <1>6 DEF CompleteResourceUpload

\* RestorePart: a copy of the blob, or what the part still holds.
LEMMA RestoreStep ==
  ASSUME IInv, NEW m \in Messages, RestorePart(m)
  PROVE  IInv'
<1>. DEFINE s == Sha[m]
<1>1. /\ pc[m] = "restore" /\ pc[m] \in Locked /\ m \notin linked /\ s \in Shas
      /\ mutex' = FALSE /\ Go(m, "idle")
      /\ UNCHANGED <<platform, status, told, gc, todo, victim, cache, badRead, rowOld>>
  BY NotLinked, UploadAssumption DEF RestorePart, Locked
<1>2. TypeOK /\ WorkerTypes /\ StatusGrows /\ BlobInv(s)
  BY <1>1, TypesOf DEF IInv, StatusGrows
<1>3. /\ session[m] # None /\ session[m].received = Chunks /\ SessionFits(session[m], part[m])
      /\ session[m].challenge => BlobHasPublishedReference(Sha[m])'
  BY <1>1, <1>2, CompletingHas DEF Completing
<1>4. PcIs(m, "idle") /\ MutexInv'
  <2>1. PcIs(m, "idle")
    BY <1>1, <1>2, GoDoes DEF Steps
  <2>. QED  BY <1>1, <2>1, DropMutex DEF Locked
<1>. HIDE DEF s
<1>5. ASSUME blob' = blob, linked' = linked,
             part' \in [Messages -> File \cup {None}],
             \A n \in Messages : part[n] # None => part'[n] # None,
             \A n \in Messages \ {m} : part'[n] = part[n],
             NEW t \in UploadSession \cup {None}, SessionIs(m, t),
             t # None => t = session[m] /\ SessionFits(t, part'[m]),
             faults' \in 0..MaxFaults
      PROVE  IInv'
  <2>1. WorkerTypes'
    BY <1>1, <1>2, <1>4, <1>5 DEF WorkerTypes, PcIs, SessionIs
  <2>2. MessageInv(m)'
    BY <1>1, <1>3, <1>4, <1>5, AtRest DEF PcIs, SessionIs
  <2>3. Alone(m)
    BY <1>1, <1>4, <1>5 DEF Alone, PcIs, SessionIs
  <2>4. \A x \in Shas : BlobKeeps(x) /\ BlobInv(x)'
    BY <1>1, <1>5, BlobsSame
  <2>. QED  BY <1>1, <1>4, <2>1, <2>2, <2>3, <2>4, LockedStep
<1>6. session[m] \in UploadSession /\ (UNCHANGED session => SessionIs(m, session[m]))
  BY <1>2, <1>3, SessionOf DEF SessionIs, WorkerTypes
<1>7. CASE UNCHANGED <<part, blob, linked, session, faults>>
  BY <1>2, <1>3, <1>5, <1>6, <1>7 DEF WorkerTypes
<1>8. CASE /\ Length(blob[s]) = session[m].received
           /\ part' = [part EXCEPT ![m] = [data |-> blob[s].data, synced |-> FALSE,
                                           old |-> FALSE]]
           /\ linked' = linked \ {m}
           /\ UNCHANGED <<blob, session, faults>>
  <2>. DEFINE f == [data |-> blob[s].data, synced |-> FALSE, old |-> FALSE]
  <2>1. blob[s] # None
    BY <1>3, <1>8, UploadAssumption DEF Length
  <2>2. blob[s].data \in Data /\ Intact(blob[s])
    BY <1>1, <1>2, <2>1, BlobType DEF BlobInv
  <2>3. f \in File /\ f # None /\ f.data = blob[s].data
    BY <2>2, NewFile, NoneAssumption
  <2>4. part' = [part EXCEPT ![m] = f] /\ linked' = linked
    BY <1>1, <1>8
  <2>. HIDE DEF f
  <2>5. SessionFits(session[m], f)
    BY <1>3, <2>2, <2>3 DEF SessionFits, Intact
  <2>6. /\ part' \in [Messages -> File \cup {None}] /\ part'[m] = f
        /\ \A n \in Messages \ {m} : part'[n] = part[n]
    BY <1>2, <2>3, <2>4 DEF WorkerTypes
  <2>. QED  BY <1>2, <1>5, <1>6, <1>8, <2>3, <2>4, <2>5, <2>6 DEF WorkerTypes
<1>9. CASE /\ Fault("disk") \/ UNCHANGED faults
           /\ RecoverUploadFile(m) /\ SetSession(m, None) /\ UNCHANGED linked
  <2>1. SessionIs(m, None) /\ faults' \in 0..MaxFaults
    BY <1>2, <1>9, SetSessionDoes, FaultCounted DEF WorkerTypes
  <2>2. \/ UNCHANGED <<part, blob>>
        \/ \E d \in Data : PartHolds(m, d)
    BY <1>1, <1>2, <1>9, RecoverDoes
  <2>3. /\ blob' = blob
        /\ part' \in [Messages -> File \cup {None}]
        /\ \A n \in Messages : part[n] # None => part'[n] # None
        /\ \A n \in Messages \ {m} : part'[n] = part[n]
    BY <1>2, <2>2 DEF PartHolds, WorkerTypes
  <2>. QED  BY <1>5, <1>9, <2>1, <2>3
<1>. QED  BY <1>7, <1>8, <1>9 DEF RestorePart, s

-----------------------------------------------------------------------------
(* The proof that takes the place of an upload.                            *)

\* The session of a client whose proof was received.
Answered(s, b) == [s EXCEPT !.challenge = FALSE, !.suppressed = b]
Suppressed(s) == [s EXCEPT !.suppressed = TRUE]

LEMMA AnsweredIs ==
  ASSUME NEW s \in UploadSession, NEW b \in BOOLEAN
  PROVE  /\ Answered(s, b) \in UploadSession
         /\ Answered(s, b).received = s.received /\ Answered(s, b).final = s.final
         /\ Answered(s, b).hashValid <=> s.hashValid
         /\ Answered(s, b).hashOk <=> s.hashOk
         /\ ~Answered(s, b).challenge
BY DEF Answered, UploadSession

LEMMA SuppressedIs ==
  ASSUME NEW s \in UploadSession
  PROVE  /\ Suppressed(s) \in UploadSession
         /\ Suppressed(s).received = s.received /\ Suppressed(s).final = s.final
         /\ Suppressed(s).hashValid <=> s.hashValid
         /\ Suppressed(s).hashOk <=> s.hashOk
         /\ Suppressed(s).challenge <=> s.challenge
BY DEF Suppressed, UploadSession

\* A proof arrives (1513): HandleInstantProof.
LEMMA ProofStep ==
  ASSUME IInv, NEW m \in Messages, NEW good \in BOOLEAN, HandleInstantProof(m, good)
  PROVE  IInv'
<1>. DEFINE s == session[m]
<1>1. /\ pc[m] = "idle" /\ m \notin linked
      /\ UNCHANGED <<platform, status, blob, mutex, gc, todo, victim, cache, badRead, rowOld,
                     faults>>
  BY NotLinked DEF HandleInstantProof
<1>2. TypeOK /\ WorkerTypes /\ MessageInv(m)
  BY TypesOf DEF IInv
<1>3. BlobHasPublishedReference(Sha[m])' <=> BlobHasPublishedReference(Sha[m])
  BY <1>1 DEF BlobHasPublishedReference
<1>4. CASE /\ status[m] # "pending" /\ SetSession(m, None) /\ Tell(m, status[m])
           /\ IF status[m] = "published" THEN RemovePart(m) ELSE UNCHANGED <<part, linked>>
           /\ UNCHANGED pc
  <2>1. /\ SessionIs(m, None)
        /\ told' \in [Messages -> {"none", "published", "failed"}]
    BY <1>2, <1>4, SetSessionDoes DEF Tell, WorkerTypes
  <2>2. /\ part' \in [Messages -> File \cup {None}]
        /\ \A n \in Messages \ {m} : part'[n] = part[n]
        /\ linked' \subseteq {n \in linked : part'[n] # None} /\ m \notin linked'
    <3>1. CASE RemovePart(m)
      BY <1>2, <3>1, RemovePartDoes DEF PartGone, WorkerTypes
    <3>2. CASE UNCHANGED <<part, linked>>
      BY <1>1, <1>2, <3>2 DEF WorkerTypes
    <3>. QED  BY <1>4, <3>1, <3>2
  <2>3. WorkerTypes'
    BY <1>1, <1>2, <1>4, <2>1, <2>2 DEF WorkerTypes, SessionIs
  <2>4. MessageInv(m)'
    BY <1>1, <1>4, <2>1, <2>2, AtRest DEF SessionIs
  <2>5. Alone(m)
    BY <1>1, <1>4, <2>1, <2>2 DEF Alone, SessionIs
  <2>. QED  BY <1>1, <1>4, <2>3, <2>4, <2>5, OwnStep
<1>5. ASSUME s # None, s.challenge, NEW b \in BOOLEAN, SetSession(m, Answered(s, b)),
             NEW next \in {"proof", "idle"}, Go(m, next), UNCHANGED <<told, part, linked>>
      PROVE  IInv'
  <2>. DEFINE t == Answered(s, b)
  <2>1. /\ s \in UploadSession /\ SessionFits(s, part[m])
        /\ BlobHasPublishedReference(Sha[m])
    BY <1>2, <1>5, SessionOf DEF MessageInv, SessionInv, ProofInv
  <2>. HIDE DEF s
  <2>2. /\ t \in UploadSession /\ t.received = s.received /\ t.final = s.final
        /\ t.hashValid <=> s.hashValid
        /\ t.hashOk <=> s.hashOk
        /\ ~t.challenge
    BY <1>5, <2>1, AnsweredIs
  <2>3. SetSession(m, t)
    BY <1>5
  <2>. HIDE DEF t
  <2>4. SessionIs(m, t) /\ PcIs(m, next) /\ t # None
    BY <1>2, <1>5, <2>2, <2>3, SetSessionDoes, GoDoes, NoneAssumption DEF Steps
  <2>5. SessionFits(t, part[m])
    BY <2>1, <2>2 DEF SessionFits
  <2>6. WorkerTypes'
    BY <1>1, <1>2, <1>5, <2>4 DEF WorkerTypes, PcIs, SessionIs
  <2>7. MessageInv(m)'
    <3>1. SessionInv(m)'
      BY <1>5, <2>4, <2>5 DEF SessionInv, SessionFits, SessionIs
    <3>2. StepInv(m)'
      BY <1>5, <2>4 DEF StepInv, Completing, PcIs, SessionIs
    <3>3. ProofInv(m)'
      BY <1>3, <2>1 DEF ProofInv
    <3>4. LinkInv(m)'
      BY <1>1, <1>5 DEF LinkInv
    <3>. QED  BY <3>1, <3>2, <3>3, <3>4 DEF MessageInv
  <2>8. Alone(m) /\ pc'[m] \notin Locked
    BY <1>1, <1>5, <2>4 DEF Alone, PcIs, SessionIs, Locked
  <2>. QED  BY <1>1, <1>5, <2>6, <2>7, <2>8, OwnStep
<1>6. CASE /\ s # None /\ s.challenge
           /\ SetSession(m, [s EXCEPT !.challenge = FALSE, !.suppressed = @ \/ ~good])
           /\ Go(m, IF good THEN "proof" ELSE "idle")
           /\ UNCHANGED <<told, part, linked>>
  <2>1. (s.suppressed \/ ~good) \in BOOLEAN
    OBVIOUS
  <2>2. (IF good THEN "proof" ELSE "idle") \in {"proof", "idle"}
    OBVIOUS
  <2>3. SetSession(m, Answered(s, s.suppressed \/ ~good))
    BY <1>6, Zenon DEF Answered
  <2>. QED  BY <1>5, <1>6, <2>1, <2>2, <2>3, Zenon
<1>. QED  BY <1>4, <1>6 DEF HandleInstantProof

\* PublishByProof: a message published with the blob of another one.
LEMMA ByProofStep ==
  ASSUME IInv, NEW m \in Messages, PublishByProof(m)
  PROVE  IInv'
<1>. DEFINE s == session[m]
<1>1. /\ pc[m] = "proof" /\ m \notin linked /\ ~mutex /\ Go(m, "idle")
      /\ UNCHANGED <<platform, blob, mutex, gc, todo, victim, cache, badRead, rowOld>>
  BY NotLinked DEF PublishByProof
<1>2. TypeOK /\ WorkerTypes /\ MessageInv(m)
  BY TypesOf DEF IInv
<1>3. PICK n \in Messages : status[n] = "published" /\ Sha[n] = Sha[m]
  BY <1>1, <1>2 DEF MessageInv, ProofInv, BlobHasPublishedReference
<1>4. blob[Sha[m]] # None /\ blob[Sha[m]].durable /\ gc # "rmblob"
  BY <1>1, <1>3 DEF IInv, PublishedInv, MutexInv
<1>5. s # None /\ s \in UploadSession /\ SessionFits(s, part[m]) /\ PcIs(m, "idle")
  BY <1>1, <1>2, SessionOf, GoDoes DEF MessageInv, SessionInv, StepInv, Steps
<1>. HIDE DEF s
<1>6. StatusGrows => BlobHasPublishedReference(Sha[m])'
  BY <1>3 DEF StatusGrows, BlobHasPublishedReference
<1>7. MutexInv'
  BY <1>1, <1>5 DEF IInv, MutexInv, PcIs, Locked
<1>8. ASSUME StatusGrows,
             status' \in [Messages -> {"pending", "published", "failed"}],
             \A k \in Messages \ {m} : status'[k] = status[k],
             told' \in [Messages -> {"none", "published", "failed"}],
             faults' \in 0..MaxFaults,
             NEW t \in UploadSession \cup {None}, SessionIs(m, t),
             t # None => SessionFits(t, part'[m]),
             RemovePart(m) \/ UNCHANGED <<part, linked>>
      PROVE  IInv'
  <2>1. /\ part' \in [Messages -> File \cup {None}]
        /\ \A k \in Messages \ {m} : part'[k] = part[k]
        /\ linked' \subseteq {k \in linked : part'[k] # None} /\ m \notin linked'
    <3>1. CASE RemovePart(m)
      BY <1>2, <3>1, RemovePartDoes DEF PartGone, WorkerTypes
    <3>2. CASE UNCHANGED <<part, linked>>
      BY <1>1, <1>2, <3>2 DEF WorkerTypes
    <3>. QED  BY <1>8, <3>1, <3>2
  <2>2. WorkerTypes'
    BY <1>1, <1>2, <1>5, <1>8, <2>1 DEF WorkerTypes, SessionIs, PcIs
  <2>3. MessageInv(m)'
    BY <1>5, <1>6, <1>8, <2>1, AtRest DEF SessionIs, PcIs
  <2>4. Alone(m)
    BY <1>1, <1>5, <1>8, <2>1 DEF Alone, SessionIs, PcIs
  <2>. QED  BY <1>1, <1>4, <1>7, <1>8, <2>2, <2>3, <2>4, PublishingStep
<1>9. CASE /\ SetSession(m, Suppressed(s))
           /\ UNCHANGED <<status, told, part, linked, faults>>
  <2>. DEFINE t == Suppressed(s)
  <2>1. /\ t \in UploadSession /\ t.received = s.received /\ t.final = s.final
        /\ t.hashValid <=> s.hashValid
        /\ t.hashOk <=> s.hashOk
    BY <1>5, SuppressedIs
  <2>2. SetSession(m, t)
    BY <1>9
  <2>. HIDE DEF t
  <2>3. SessionIs(m, t) /\ SessionFits(t, part[m])
    BY <1>2, <1>5, <2>1, <2>2, SetSessionDoes DEF SessionFits
  <2>4. StatusGrows
    BY <1>9 DEF StatusGrows
  <2>. QED  BY <1>2, <1>8, <1>9, <2>1, <2>3, <2>4 DEF WorkerTypes
<1>10. CASE /\ PublishTxn(m) /\ SetSession(m, None)
            /\ Tell(m, IF status[m] = "failed" THEN "failed" ELSE "published")
            /\ RemovePart(m) \/ UNCHANGED <<part, linked>>
            /\ UNCHANGED faults
  <2>1. SessionIs(m, None) /\ told' \in [Messages -> {"none", "published", "failed"}]
    BY <1>2, <1>10, SetSessionDoes, TellDoes
  <2>. QED  BY <1>2, <1>8, <1>10, <2>1, PublishTxnDoes DEF WorkerTypes
<1>11. CASE /\ Fault("db")
            /\ PublishTxn(m) \/ UNCHANGED status
            /\ UNCHANGED <<told, part, linked, session>>
  <2>1. SessionIs(m, s) /\ SessionFits(s, part'[m]) /\ faults' \in 0..MaxFaults
    BY <1>2, <1>5, <1>11, FaultCounted DEF SessionIs, WorkerTypes, s
  <2>. QED  BY <1>2, <1>5, <1>8, <1>11, <2>1, PublishTxnDoes DEF WorkerTypes
<1>. QED  BY <1>9, <1>10, <1>11 DEF PublishByProof, Suppressed, s

-----------------------------------------------------------------------------
(* Downloads and the collector.                                            *)

\* A step of neither a worker nor a client that uploads.
LEMMA Bystander ==
  ASSUME IInv, TypeInv', MutexInv', VictimInv', ReadInv',
         \A n \in Messages : status[n] = "published" <=> status'[n] = "published",
         session' = session, pc' = pc, platform' = platform, linked' \subseteq linked,
         \A n \in Messages : part'[n] = part[n] \/ part'[n] = None,
         \A s \in Shas :
           \/ blob'[s] = blob[s]
           \/ /\ blob'[s] = None /\ ~BlobHasPublishedReference(s)
              /\ \A n \in Messages : Sha[n] = s => pc[n] \notin Locked
  PROVE  IInv'
<1>1. StatusGrows
  BY DEF StatusGrows
<1>2. \A n \in Messages : MessageInv(n)'
  <2>1. SUFFICES ASSUME NEW n \in Messages PROVE MessageInv(n)'
    OBVIOUS
  <2>2. MessageInv(n) /\ Sha[n] \in Shas
    BY UploadAssumption DEF IInv
  <2>3. pc[n] \in Locked => BlobKeeps(Sha[n])
    BY <2>2 DEF BlobKeeps
  <2>4. /\ session'[n] = session[n] /\ pc'[n] = pc[n]
        /\ part'[n] = part[n] \/ part'[n] = None
        /\ n \in linked' => n \in linked
    OBVIOUS
  <2>. QED  BY <1>1, <2>2, <2>3, <2>4, MessageKept
<1>3. \A s \in Shas : BlobInv(s)'
  BY DEF IInv, BlobInv
<1>4. PublishedInv'
  <2>1. SUFFICES ASSUME NEW n \in Messages, status'[n] = "published"
                 PROVE  blob'[Sha[n]] # None /\ blob'[Sha[n]].durable
    BY DEF PublishedInv
  <2>2. /\ status[n] = "published" /\ Sha[n] \in Shas
        /\ blob[Sha[n]] # None /\ blob[Sha[n]].durable
    BY <2>1, UploadAssumption DEF IInv, PublishedInv
  <2>3. BlobHasPublishedReference(Sha[n])
    BY <2>2 DEF BlobHasPublishedReference
  <2>. QED  BY <2>2, <2>3
<1>. QED  BY <1>2, <1>3, <1>4 DEF IInv

\* The cache holds rows that are published, and never more than its limit.
LEMMA ResolveDoes ==
  ASSUME IInv, NEW m \in Messages, ResolvePublished(m)
  PROVE  /\ status[m] = "published" /\ cache' \subseteq cache \cup {m}
         /\ IsFiniteSet(cache') /\ Cardinality(cache') <= CacheLimit
<1>1. status[m] = "published"
  BY DEF IInv, ReadInv, ResolvePublished
<1>2. /\ IsFiniteSet(cache) /\ Cardinality(cache) \in Nat /\ Cardinality(cache) <= CacheLimit
      /\ CacheLimit \in Nat \ {0}
  BY FS_CardinalityType, UploadAssumption DEF IInv, TypeInv, TypeOK
<1>3. CASE m \in cache
  BY <1>1, <1>2, <1>3 DEF ResolvePublished
<1>4. CASE m \notin cache /\ Cardinality(cache) >= CacheLimit
  <2>1. cache' = {m}
    BY <1>4 DEF ResolvePublished
  <2>2. IsFiniteSet({m}) /\ Cardinality({m}) = 1
    BY FS_Singleton, Zenon
  <2>. QED  BY <1>1, <1>2, <2>1, <2>2
<1>5. CASE m \notin cache /\ ~(Cardinality(cache) >= CacheLimit)
  <2>1. cache' = cache \cup {m}
    BY <1>5 DEF ResolvePublished
  <2>2. IsFiniteSet(cache \cup {m}) /\ Cardinality(cache \cup {m}) = Cardinality(cache) + 1
    BY <1>2, <1>5, FS_AddElement
  <2>. QED  BY <1>1, <1>2, <1>5, <2>1, <2>2
<1>. QED  BY <1>3, <1>4, <1>5

\* What is published is there to be read.
LEMMA PublishedReads ==
  ASSUME IInv, NEW m \in Messages, status[m] = "published"
  PROVE  blob[Sha[m]] # None /\ Intact(blob[Sha[m]])
BY UploadAssumption DEF IInv, PublishedInv, BlobInv

LEMMA ReadStep ==
  ASSUME IInv, NEW m \in Messages, ResolvePublished(m), ~badRead', badRead' \in BOOLEAN,
         UNCHANGED <<platform, status, told, part, blob, linked, session, pc, mutex, gc, todo,
                     victim, rowOld, faults>>
  PROVE  IInv'
<1>1. /\ status[m] = "published" /\ cache' \subseteq cache \cup {m}
      /\ IsFiniteSet(cache') /\ Cardinality(cache') <= CacheLimit
  BY ResolveDoes
<1>2. TypeInv'
  BY <1>1 DEF IInv, TypeInv, TypeOK
<1>3. MutexInv' /\ VictimInv'
  BY DEF IInv, MutexInv, VictimInv, BlobHasPublishedReference
<1>4. ReadInv'
  BY <1>1 DEF IInv, ReadInv
<1>. QED  BY <1>2, <1>3, <1>4, Bystander

\* 1509: HandleResourceDownInfo.
LEMMA DownInfoStep ==
  ASSUME IInv, NEW m \in Messages, HandleResourceDownInfo(m)
  PROVE  IInv'
<1>1. ResolvePublished(m) /\ badRead' = (badRead \/ blob[Sha[m]] = None)
  BY DEF HandleResourceDownInfo
<1>2. ~badRead /\ blob[Sha[m]] # None
  BY <1>1, ResolveDoes, PublishedReads DEF IInv, ReadInv
<1>3. ~badRead' /\ badRead' \in BOOLEAN
  BY <1>1, <1>2, Zenon
<1>. QED  BY <1>1, <1>3, ReadStep DEF HandleResourceDownInfo

\* 1511: HandleResourceChunkDown.
LEMMA ChunkDownStep ==
  ASSUME IInv, NEW m \in Messages, NEW i \in 0..Chunks - 1, HandleResourceChunkDown(m, i)
  PROVE  IInv'
<1>. DEFINE f == blob[Sha[m]]
<1>1. /\ ResolvePublished(m)
      /\ badRead' = (badRead \/ i >= Length(f) \/ f.data[i + 1] # "ok")
  BY DEF HandleResourceChunkDown
<1>2. ~badRead /\ f # None /\ Intact(f) /\ TypeOK /\ Sha[m] \in Shas
  BY <1>1, ResolveDoes, PublishedReads, TypesOf, UploadAssumption DEF IInv, ReadInv
<1>3. f.data \in Seq({"ok", "bad"})
  BY <1>2, BlobType, DataIs
<1>. HIDE DEF f
<1>4. ~(i >= Length(f)) /\ f.data[i + 1] = "ok"
  <2>1. i \in Nat /\ i < Chunks /\ i + 1 \in 1..Chunks /\ Chunks \in Nat
    BY UploadAssumption
  <2>2. Length(f) = Chunks /\ DOMAIN f.data = 1..Chunks
    BY <1>2, <1>3 DEF Intact, Length
  <2>. QED  BY <1>2, <2>1, <2>2 DEF Intact, AllOk
<1>5. ~badRead' /\ badRead' \in BOOLEAN
  BY <1>1, <1>2, <1>4, Zenon
<1>. QED  BY <1>1, <1>5, ReadStep DEF HandleResourceChunkDown

\* The scan of RunResourceCleanup goes on, or ends.
LEMMA ScanDoes ==
  ASSUME TypeOK, NEW phase \in {"parts", "blobs"}, NEW x, ScanOn(phase, x)
  PROVE  gc' \in {"off", "parts", "blobs"} /\ todo' \subseteq Messages \cup Shas
BY DEF ScanOn, TypeOK

\* A step of the collector that looks, and takes no mutex.
LEMMA LooksStep ==
  ASSUME IInv,
         UNCHANGED <<platform, told, part, blob, linked, session, pc, mutex, cache, badRead, rowOld>>,
         gc' \in {"off", "expire", "parts", "rmpart", "blobs"},
         todo' \subseteq Messages \cup Shas, victim' \in Messages \cup Shas \cup {None},
         faults' \in 0..MaxFaults,
         status' \in [Messages -> {"pending", "published", "failed"}],
         \A n \in Messages : status[n] = "published" <=> status'[n] = "published"
  PROVE  IInv'
<1>1. TypeInv'
  BY DEF IInv, TypeInv, TypeOK
<1>2. MutexInv' /\ VictimInv'
  BY DEF IInv, MutexInv, VictimInv
<1>3. ReadInv'
  BY DEF IInv, ReadInv, TypeInv, TypeOK
<1>. QED  BY <1>1, <1>2, <1>3, Bystander

\* CollectExpired: a page of rows.
LEMMA CollectStep ==
  ASSUME IInv, CollectExpired
  PROVE  IInv'
<1>1. TypeOK
  BY TypesOf
<1>2. /\ gc' \in {"expire", "parts"} /\ todo' \subseteq Messages \cup Shas
      /\ faults' \in 0..MaxFaults
  BY <1>1, FaultCounted DEF CollectExpired, TypeOK
<1>3. /\ UNCHANGED <<platform, told, part, blob, linked, session, pc, mutex, cache, badRead, rowOld>>
      /\ status' = status /\ victim' = victim
  BY DEF CollectExpired
<1>. QED  BY <1>1, <1>2, <1>3, LooksStep DEF TypeOK

\* MarkResourceExpired: pending rows become failed, published rows stay.
LEMMA ExpireStep ==
  ASSUME IInv, MarkResourceExpired
  PROVE  IInv'
<1>1. TypeOK
  BY TypesOf
<1>2. /\ gc' = "parts" /\ todo' \subseteq Messages \cup Shas /\ victim' = victim
      /\ UNCHANGED <<platform, told, part, blob, linked, session, pc, mutex, cache, badRead, rowOld>>
  BY DEF MarkResourceExpired
<1>3. faults' \in 0..MaxFaults
  BY <1>1, FaultCounted DEF MarkResourceExpired, TypeOK
<1>4. /\ status' \in [Messages -> {"pending", "published", "failed"}]
      /\ \A n \in Messages : status[n] = "published" <=> status'[n] = "published"
  BY <1>1 DEF MarkResourceExpired, Expired, TypeOK
<1>. QED  BY <1>1, <1>2, <1>3, <1>4, LooksStep DEF TypeOK

\* CheckPart: the age of a part.
LEMMA CheckPartStep ==
  ASSUME IInv, NEW m \in Messages, CheckPart(m)
  PROVE  IInv'
<1>1. TypeOK
  BY TypesOf
<1>2. /\ gc' \in {"off", "parts", "rmpart", "blobs"} /\ todo' \subseteq Messages \cup Shas
      /\ victim' \in Messages \cup Shas \cup {None}
  <2>1. CASE gc' = "rmpart" /\ victim' = m /\ UNCHANGED todo
    BY <1>1, <2>1 DEF TypeOK
  <2>2. CASE ScanOn("parts", m) /\ UNCHANGED victim
    BY <1>1, <2>2, ScanDoes DEF TypeOK
  <2>. QED  BY <2>1, <2>2 DEF CheckPart
<1>3. /\ UNCHANGED <<platform, told, part, blob, linked, session, pc, mutex, cache, badRead, rowOld>>
      /\ status' = status /\ faults' = faults
  BY DEF CheckPart
<1>. QED  BY <1>1, <1>2, <1>3, LooksStep DEF TypeOK

\* RemoveStalePart: the file goes, whatever its worker does.
LEMMA StalePartStep ==
  ASSUME IInv, RemoveStalePart
  PROVE  IInv'
<1>1. TypeInv /\ TypeOK
  BY TypesOf
<1>2. /\ gc = "rmpart" /\ RemovePart(victim) /\ victim' = None
      /\ gc' \in {"off", "parts", "blobs"} /\ todo' \subseteq Messages \cup Shas
      /\ UNCHANGED <<platform, status, told, blob, session, pc, mutex, cache, badRead, rowOld, faults>>
  BY <1>1, ScanDoes DEF RemoveStalePart
<1>3. /\ part' \in [Messages -> File \cup {None}]
      /\ \A n \in Messages : part'[n] = part[n] \/ part'[n] = None
      /\ \A n \in Messages : n # victim => part'[n] = part[n]
      /\ linked' = linked \ {victim}
  BY <1>1, <1>2 DEF RemovePart, TypeOK
<1>4. linked' \subseteq {n \in Messages : part'[n] # None /\ blob'[Sha[n]] # None}
  BY <1>1, <1>2, <1>3 DEF TypeOK
<1>5. TypeInv'
  BY <1>1, <1>2, <1>3, <1>4 DEF TypeInv, TypeOK
<1>6. MutexInv' /\ VictimInv'
  BY <1>2 DEF IInv, MutexInv, VictimInv
<1>7. ReadInv'
  BY <1>2 DEF IInv, ReadInv
<1>. QED  BY <1>2, <1>3, <1>5, <1>6, <1>7, Bystander

\* CheckBlob: is an old blob referred to?
LEMMA CheckBlobStep ==
  ASSUME IInv, NEW s \in Shas, CheckBlob(s)
  PROVE  IInv'
<1>1. TypeInv /\ TypeOK
  BY TypesOf
<1>2. UNCHANGED <<platform, status, told, part, blob, linked, session, pc, cache, badRead, rowOld>>
  BY DEF CheckBlob
<1>3. CASE /\ ScanOn("blobs", s) /\ UNCHANGED <<victim, mutex>>
           /\ Fault("db") \/ UNCHANGED faults
  <2>1. /\ gc' \in {"off", "parts", "blobs"} /\ todo' \subseteq Messages \cup Shas
        /\ faults' \in 0..MaxFaults
    BY <1>1, <1>3, ScanDoes, FaultCounted DEF TypeOK
  <2>. QED  BY <1>1, <1>2, <1>3, <2>1, LooksStep DEF TypeOK
<1>4. CASE /\ ~mutex /\ ~BlobHasPublishedReference(s)
           /\ gc' = "rmblob" /\ victim' = s /\ mutex' = TRUE
           /\ UNCHANGED <<todo, faults>>
  <2>1. TypeInv'
    BY <1>1, <1>2, <1>4 DEF TypeInv, TypeOK
  <2>2. MutexInv'
    BY <1>2, <1>4 DEF IInv, MutexInv
  <2>3. VictimInv'
    BY <1>2, <1>4 DEF VictimInv, BlobHasPublishedReference
  <2>4. ReadInv'
    BY <1>2 DEF IInv, ReadInv
  <2>. QED  BY <1>2, <2>1, <2>2, <2>3, <2>4, Bystander
<1>. QED  BY <1>3, <1>4 DEF CheckBlob

\* RemoveOrphanBlob: under the mutex, a blob that nothing refers to.
LEMMA OrphanStep ==
  ASSUME IInv, RemoveOrphanBlob
  PROVE  IInv'
<1>1. TypeInv /\ TypeOK
  BY TypesOf
<1>2. /\ gc = "rmblob" /\ blob' = [blob EXCEPT ![victim] = None] /\ mutex' = FALSE
      /\ linked' = {m \in linked : Sha[m] # victim} /\ victim' = None
      /\ gc' \in {"off", "parts", "blobs"} /\ todo' \subseteq Messages \cup Shas
      /\ UNCHANGED <<platform, status, told, part, session, pc, cache, badRead, rowOld, faults>>
  BY <1>1, ScanDoes DEF RemoveOrphanBlob
<1>3. /\ blob' \in [Shas -> Blob \cup {None}]
      /\ \A s \in Shas : s # victim => blob'[s] = blob[s]
      /\ victim \in Shas => blob'[victim] = None
  BY <1>1, <1>2 DEF TypeOK
<1>4. ~BlobHasPublishedReference(victim) /\ \A n \in Messages : pc[n] \notin Locked
  BY <1>2 DEF IInv, VictimInv, MutexInv
<1>5. linked' \subseteq {n \in Messages : part'[n] # None /\ blob'[Sha[n]] # None}
  BY <1>1, <1>2, <1>3, UploadAssumption DEF TypeOK
<1>6. TypeInv'
  BY <1>1, <1>2, <1>3, <1>5 DEF TypeInv, TypeOK
<1>7. MutexInv' /\ VictimInv'
  BY <1>2, <1>4 DEF MutexInv, VictimInv
<1>8. ReadInv'
  BY <1>2 DEF IInv, ReadInv
<1>9. \A s \in Shas :
        \/ blob'[s] = blob[s]
        \/ /\ blob'[s] = None /\ ~BlobHasPublishedReference(s)
           /\ \A n \in Messages : Sha[n] = s => pc[n] \notin Locked
  BY <1>3, <1>4
<1>. QED  BY <1>2, <1>6, <1>7, <1>8, <1>9, Bystander

-----------------------------------------------------------------------------
(* Time and crashes.                                                       *)

\* A file, a blob and a session that nobody touched for a week.
Aged(f) == [f EXCEPT !.old = TRUE]
Rested(s) == [s EXCEPT !.idle = TRUE]

LEMMA AgedIs ==
  /\ \A f \in File : Aged(f) \in File /\ Aged(f).data = f.data
  /\ \A f \in Blob : /\ Aged(f) \in Blob /\ Aged(f).data = f.data
                     /\ Aged(f).synced <=> f.synced
                     /\ Aged(f).durable <=> f.durable
BY DEF Aged, File, Blob

LEMMA RestedIs ==
  ASSUME NEW s \in UploadSession
  PROVE  /\ Rested(s) \in UploadSession
         /\ Rested(s).received = s.received /\ Rested(s).final = s.final
         /\ Rested(s).hashValid <=> s.hashValid
         /\ Rested(s).hashOk <=> s.hashOk
         /\ Rested(s).challenge <=> s.challenge
BY DEF Rested, UploadSession

\* Week: what rests stays as it is, only older.
LEMMA WeekStep ==
  ASSUME IInv, Week
  PROVE  IInv'
<1>1. TypeInv /\ TypeOK
  BY TypesOf
<1>2. /\ gc = "off" /\ (\A m \in Messages : pc[m] = "idle") /\ rowOld' = TRUE
      /\ faults' = MaxFaults
      /\ UNCHANGED <<platform, status, told, linked, pc, mutex, gc, todo, victim, cache, badRead>>
  BY DEF Week
<1>3. /\ part' = [m \in Messages |-> IF part[m] = None THEN None ELSE Aged(part[m])]
      /\ blob' = [s \in Shas |-> IF blob[s] = None THEN None ELSE Aged(blob[s])]
      /\ session' = [m \in Messages |-> IF session[m] = None THEN None ELSE Rested(session[m])]
  BY Zenon DEF Week, Aged, Rested
<1>4. linked = {}
  <2>1. \A m \in Messages : m \notin linked
    BY <1>2, NotLinked
  <2>. QED  BY <1>1, <2>1 DEF TypeOK
<1>5. ASSUME NEW m \in Messages
      PROVE  /\ part'[m] \in File \cup {None}
             /\ part[m] = None => part'[m] = None
             /\ part[m] # None => part'[m] # None /\ part'[m].data = part[m].data
  <2>1. part[m] # None => part[m] \in File
    BY <1>1 DEF TypeOK
  <2>2. part'[m] = IF part[m] = None THEN None ELSE Aged(part[m])
    BY <1>3
  <2>. QED  BY <2>1, <2>2, AgedIs, NoneAssumption
<1>6. ASSUME NEW s \in Shas
      PROVE  /\ blob'[s] \in Blob \cup {None}
             /\ blob[s] = None => blob'[s] = None
             /\ blob[s] # None => /\ blob'[s] # None /\ blob'[s].data = blob[s].data
                                  /\ blob'[s].synced <=> blob[s].synced
                                  /\ blob'[s].durable <=> blob[s].durable
  <2>1. blob[s] # None => blob[s] \in Blob
    BY <1>1 DEF TypeOK
  <2>2. blob'[s] = IF blob[s] = None THEN None ELSE Aged(blob[s])
    BY <1>3
  <2>. QED  BY <2>1, <2>2, AgedIs, NoneAssumption
<1>7. ASSUME NEW m \in Messages
      PROVE  session'[m] \in UploadSession \cup {None} /\ MessageInv(m)'
  <2>1. /\ session[m] # None => session[m] \in UploadSession
        /\ session'[m] = IF session[m] = None THEN None ELSE Rested(session[m])
    BY <1>1, <1>3 DEF TypeOK
  <2>2. session[m] # None =>
          /\ SessionFits(session[m], part[m])
          /\ session[m].challenge => BlobHasPublishedReference(Sha[m])'
    BY <1>2 DEF IInv, MessageInv, SessionInv, ProofInv, BlobHasPublishedReference
  <2>3. session[m] # None =>
          /\ SessionFits(session'[m], part'[m])
          /\ session'[m].challenge => BlobHasPublishedReference(Sha[m])'
    BY <1>5, <2>1, <2>2, RestedIs DEF SessionFits
  <2>4. session'[m] \in UploadSession \cup {None}
    BY <2>1, RestedIs
  <2>5. pc'[m] = "idle" /\ m \notin linked'
    BY <1>2, <1>4
  <2>6. session'[m] # None => session[m] # None
    BY <2>1
  <2>. QED  BY <2>3, <2>4, <2>5, <2>6, AtRest
<1>8. TypeInv'
  <2>1. /\ part' \in [Messages -> File \cup {None}]
        /\ blob' \in [Shas -> Blob \cup {None}]
        /\ session' \in [Messages -> UploadSession \cup {None}]
    BY <1>3, <1>5, <1>6, <1>7, Zenon
  <2>2. linked' = {} /\ rowOld' \in BOOLEAN /\ faults' \in 0..MaxFaults
    BY <1>2, <1>4, UploadAssumption
  <2>. QED  BY <1>1, <1>2, <2>1, <2>2 DEF TypeInv, TypeOK
<1>9. MutexInv' /\ VictimInv'
  BY <1>2 DEF IInv, MutexInv, VictimInv
<1>10. \A s \in Shas : BlobInv(s)'
  BY <1>2, <1>6 DEF IInv, BlobInv, Intact
<1>11. PublishedInv'
  BY <1>2, <1>6, UploadAssumption DEF IInv, PublishedInv
<1>12. ReadInv'
  BY <1>2 DEF IInv, ReadInv
<1>. QED  BY <1>7, <1>8, <1>9, <1>10, <1>11, <1>12 DEF IInv

\* What a crash leaves of a part is some file, or none.
SurvivingPart(f, d) == [f EXCEPT !.data = d, !.synced = TRUE]

LEMMA PartSurvives ==
  ASSUME IInv, NEW m \in Messages, NEW f \in PartSurvivors(m)
  PROVE  f \in File \cup {None}
<1>1. TypeOK /\ Sha[m] \in Shas /\ (part[m] # None => part[m] \in File)
  BY TypesOf, UploadAssumption DEF TypeOK
<1>2. \A g \in File, d \in Data : SurvivingPart(g, d) \in File
  BY DEF SurvivingPart, File, Data
<1>3. CASE pc[m] = "sync"
  <2>1. blob[Sha[m]] # None
    BY <1>3 DEF IInv, MessageInv, StepInv
  <2>2. blob[Sha[m]].data \in Data
    BY <1>1, <2>1, BlobType
  <2>3. [data |-> blob[Sha[m]].data, synced |-> TRUE, old |-> FALSE] \in File
    BY <2>2, NewFile
  <2>. QED  BY <1>3, <2>3, Zenon DEF PartSurvivors
<1>4. CASE pc[m] # "sync"
  <2>1. f \in Survivors(part[m])
    BY <1>4 DEF PartSurvivors
  <2>2. \/ f = None \/ f = part[m]
        \/ part[m] # None /\ \E d \in Data : f = SurvivingPart(part[m], d)
    BY <2>1, Zenon DEF Survivors, SurvivingPart, Data
  <2>. QED  BY <1>1, <1>2, <2>2
<1>. QED  BY <1>3, <1>4

\* A blob survives a crash, unless its name was not durable yet.
LEMMA BlobSurvives ==
  ASSUME IInv, NEW s \in Shas, NEW f \in BlobSurvivors(s)
  PROVE  \/ f = blob[s]
         \/ f = None /\ ~blob[s].durable
BY Zenon DEF IInv, BlobInv, BlobSurvivors, Survivors

\* Crash: what was published is still there, and no part is a second name.
LEMMA CrashStep ==
  ASSUME IInv, OneName, Crash
  PROVE  IInv'
<1>1. TypeInv /\ TypeOK
  BY TypesOf
<1>2. /\ mutex' = FALSE /\ gc' = "off" /\ todo' = {} /\ victim' = None /\ cache' = {}
      /\ UNCHANGED <<platform, status, told, badRead, rowOld>>
      /\ session' = [m \in Messages |-> None] /\ pc' = [m \in Messages |-> "idle"]
      /\ faults' \in 0..MaxFaults
  BY <1>1, FaultCounted DEF Crash
<1>3. linked' = {}
  <2>1. "twoNames" \notin Faults[platform]
    BY <1>1 DEF OneName, TypeOK
  <2>. QED  BY <2>1 DEF Crash
<1>4. part' \in [Messages -> File \cup {None}]
  <2>. DEFINE S == UNION {PartSurvivors(m) : m \in Messages}
  <2>1. part' \in [Messages -> S] /\ \A m \in Messages : part'[m] \in PartSurvivors(m)
    BY Zenon DEF Crash
  <2>. HIDE DEF S
  <2>2. \A m \in Messages : part'[m] \in File \cup {None}
    BY <2>1, PartSurvives
  <2>. QED  BY <2>1, <2>2
<1>5. /\ blob' \in [Shas -> Blob \cup {None}]
      /\ \A s \in Shas : blob'[s] = blob[s] \/ (blob'[s] = None /\ ~blob[s].durable)
  <2>. DEFINE S == UNION {BlobSurvivors(s) : s \in Shas}
  <2>1. blob' \in [Shas -> S] /\ \A s \in Shas : blob'[s] \in BlobSurvivors(s)
    BY Zenon DEF Crash
  <2>. HIDE DEF S
  <2>2. \A s \in Shas : blob'[s] = blob[s] \/ (blob'[s] = None /\ ~blob[s].durable)
    BY <2>1, BlobSurvives
  <2>3. \A s \in Shas : blob'[s] \in Blob \cup {None}
    BY <1>1, <2>2 DEF TypeOK
  <2>. QED  BY <2>1, <2>2, <2>3
<1>6. TypeInv'
  <2>1. IsFiniteSet(cache') /\ Cardinality(cache') <= CacheLimit
    BY <1>2, FS_EmptySet, UploadAssumption
  <2>2. session' \in [Messages -> UploadSession \cup {None}] /\ pc' \in [Messages -> Steps]
    BY <1>2 DEF Steps
  <2>. QED  BY <1>1, <1>2, <1>3, <1>4, <1>5, <2>1, <2>2 DEF TypeInv, TypeOK
<1>7. MutexInv' /\ VictimInv'
  BY <1>2 DEF MutexInv, VictimInv, Locked
<1>8. \A m \in Messages : MessageInv(m)'
  BY <1>2, <1>3, AtRest
<1>9. \A s \in Shas : BlobInv(s)'
  BY <1>2, <1>5 DEF IInv, BlobInv
<1>10. PublishedInv'
  BY <1>2, <1>5, UploadAssumption DEF IInv, PublishedInv
<1>11. ReadInv'
  BY <1>2 DEF IInv, ReadInv
<1>. QED  BY <1>6, <1>7, <1>8, <1>9, <1>10, <1>11 DEF IInv

-----------------------------------------------------------------------------
(* The theorems.                                                           *)

LEMMA Initially == Init => IInv
<1>1. SUFFICES ASSUME Init PROVE IInv
  OBVIOUS
<1>2. IsFiniteSet(cache) /\ Cardinality(cache) <= CacheLimit
  BY <1>1, FS_EmptySet, UploadAssumption DEF Init
<1>3. TypeInv
  <2>1. 0 \in 0..MaxFaults
    BY UploadAssumption
  <2>2. /\ platform \in Platforms /\ linked = {} /\ mutex = FALSE /\ gc = "off" /\ todo = {}
        /\ victim = None /\ cache = {} /\ badRead = FALSE /\ rowOld = FALSE /\ faults = 0
    BY <1>1 DEF Init
  <2>3. /\ status \in [Messages -> {"pending", "published", "failed"}]
        /\ told \in [Messages -> {"none", "published", "failed"}]
        /\ part \in [Messages -> File \cup {None}]
        /\ blob \in [Shas -> Blob \cup {None}]
        /\ session \in [Messages -> UploadSession \cup {None}]
        /\ pc \in [Messages -> Steps]
    BY <1>1 DEF Init, Steps
  <2>. QED  BY <1>2, <2>1, <2>2, <2>3 DEF TypeInv, TypeOK
<1>4. MutexInv /\ VictimInv /\ PublishedInv /\ ReadInv
  BY <1>1 DEF Init, MutexInv, VictimInv, PublishedInv, ReadInv, Locked
<1>5. ASSUME NEW m \in Messages PROVE MessageInv(m)
  <2>1. session[m] = None /\ pc[m] = "idle" /\ m \notin linked
    BY <1>1 DEF Init
  <2>. QED  BY <2>1 DEF MessageInv, SessionInv, StepInv, ProofInv, LinkInv, Completing
<1>6. \A s \in Shas : BlobInv(s)
  BY <1>1 DEF Init, BlobInv
<1>. QED  BY <1>3, <1>4, <1>5, <1>6 DEF IInv

LEMMA Stutters ==
  ASSUME IInv, UNCHANGED vars
  PROVE  IInv'
<1>1. /\ platform' = platform /\ status' = status /\ told' = told /\ part' = part /\ blob' = blob
      /\ linked' = linked /\ session' = session /\ pc' = pc /\ mutex' = mutex /\ gc' = gc
      /\ todo' = todo /\ victim' = victim /\ cache' = cache /\ badRead' = badRead
      /\ rowOld' = rowOld /\ faults' = faults
  BY DEF vars
<1>2. TypeInv'
  BY <1>1 DEF IInv, TypeInv, TypeOK
<1>3. MutexInv' /\ VictimInv' /\ ReadInv'
  BY <1>1 DEF IInv, MutexInv, VictimInv, BlobHasPublishedReference, ReadInv
<1>. QED  BY <1>1, <1>2, <1>3, Bystander

\* Every step of the workers, of the collector, of time and of a crash.
LEMMA NextStep ==
  ASSUME OneName, IInv, Next
  PROVE  IInv'
<1>1. ASSUME NEW m \in Messages, NEW i \in 0..Chunks - 1,
             HandleResourceChunk(m, i) \/ HandleResourceChunkDown(m, i)
      PROVE  IInv'
  BY <1>1, ChunkStep, ChunkDownStep
<1>2. ASSUME NEW m \in Messages,
             \/ HandleResourceUploadProgress(m) \/ EvictIdleUploadSessions(m)
             \/ HandleResourceDownInfo(m) \/ HalfAnHour(m)
             \/ \E good \in BOOLEAN : HandleInstantProof(m, good)
      PROVE  IInv'
  BY <1>2, ProgressStep, EvictStep, DownInfoStep, HalfAnHourStep, ProofStep
<1>3. ASSUME NEW m \in Messages, Complete(m)
      PROVE  IInv'
  BY <1>3, WholeFileStep, FlushStep, InstallStep, UnlinkStep, FsyncStep, DedupStep, CompleteStep,
     RestoreStep, ByProofStep
  DEF Complete
<1>4. CASE Collect
  BY <1>4, CollectStep, ExpireStep, StalePartStep, OrphanStep, CheckPartStep, CheckBlobStep
  DEF Collect
<1>. QED  BY <1>1, <1>2, <1>3, <1>4, WeekStep, CrashStep, Zenon DEF Next

(* What the workers, the collector and a restart rely on holds throughout:
   the mutex has one holder, a session describes its part, a challenge rests on
   a published message, and a blob is whole and flushed before anything is
   published over it.                                                        *)
THEOREM Invariance ==
  ASSUME OneName
  PROVE  Spec => []IInv
<1>1. IInv /\ [Next]_vars => IInv'
  BY NextStep, Stutters
<1>. QED  BY <1>1, Initially, PTL DEF Spec

(* A published message has its blob, complete, with the declared content,
   flushed and under a durable name, whatever CompleteResourceUpload, the
   proof, RunResourceCleanup, write errors and crashes do, as long as no part
   and blob stay two names of one file.                                      *)
THEOREM PublishedAlwaysIntact ==
  ASSUME OneName
  PROVE  Spec => []PublishedIntact
<1>1. IInv => PublishedIntact
  BY UploadAssumption DEF IInv, TypeInv, PublishedInv, BlobInv, PublishedIntact
<1>. QED  BY <1>1, Invariance, PTL

(* Every download (HandleResourceDownInfo, HandleResourceChunkDown) of a
   message that its worker saw published finds the file, whole and right.    *)
THEOREM DownloadsAlwaysWork ==
  ASSUME OneName
  PROVE  Spec => []DownloadsWork
<1>1. IInv => DownloadsWork
  BY DEF IInv, ReadInv, DownloadsWork
<1>. QED  BY <1>1, Invariance, PTL
=============================================================================
