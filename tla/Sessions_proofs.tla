-------------------------- MODULE Sessions_proofs --------------------------
(***************************************************************************)
(* Theorems about Sessions: what a session is charged for is what it       *)
(* holds, every request is answered, a stop leaves nothing behind.         *)
(*                                                                         *)
(* The inductive invariant has four parts: the CSession object by itself   *)
(* (ObjInv), its place in the server (PlaceInv), what the workers hold for *)
(* it (QuotaInv, OnlineInv, OwedInv), and the workers' queues (WorkInv).   *)
(***************************************************************************)
EXTENDS Sessions, FiniteSetTheorems, TLAPS

\* The time a prover has for a step.
USE ZenonT(3), SMTT(30)

Threads == {"io", "logic", "second", "main"}

Contains(q, x) == \E i \in 1..Len(q) : q[i] = x

Alive(c) == c.life \in {"open", "draining"}

\* The closure of Close() comes before a barrier of Drain.
CloseFirst(q) ==
  \E i \in 1..Len(q) : q[i] = "close" /\ \A j \in 1..i : q[j] # "barrier"

Frames(c) == Count(c.posted, {"rsp", "term"})

Answers(c) == Frames(c) + Count(c.queue, {"rsp"})

\* Whoever won BeginClose is at work, or has posted the closure that closes
\* the socket. The budget of ResourceServer is what is posted or queued.
ObjInv(k, c) ==
  /\ c \in CSession
  /\ c.sock = "none" => /\ c.life = "open" /\ c.closer = "none" /\ c.got = "none"
                        /\ c.posted = <<>> /\ c.queue = <<>> /\ ~c.bound
  /\ c.closer # "none" => c.life = "closing"
  /\ c.sock = "closed" <=> c.life = "closed"
  /\ Contains(c.posted, "close") => ~Alive(c) /\ c.closer = "none"
  /\ c.life = "closing" /\ c.closer = "none" => CloseFirst(c.posted)
  /\ c.writing => c.queue # <<>>
  /\ k = "resource" => /\ c.pending = Len(c.queue) + Frames(c)
                       /\ ~Contains(c.posted, "push")

\* The table has the sessions that are not closed, Stop closes all of them,
\* and a thread that main() has joined is not inside Close().
PlaceInv(s) ==
  LET c == ses[s]
  IN  /\ s \in table => c.sock # "none" /\ (Alive(c) \/ c.closer # "none")
      /\ Alive(c) /\ c.sock # "none" =>
           s \in table /\ (stage = "run" \/ (stage = "closing" /\ s \in toClose))
      /\ s \in toClose => c.sock # "none"
      /\ stage \notin {"run", "closing"} => c.closer # "main"
      /\ stage \in {"second", "drain", "stopped"} => c.closer # "logic"
      /\ stage \in {"drain", "stopped"} => c.closer # "second"
      /\ stage \notin {"drain", "stopped"} => ~Contains(c.posted, "barrier")
      /\ stage = "drain" /\ c.sock # "none" /\ c.life # "closed" =>
           Contains(c.posted, "barrier")
      /\ stage = "stopped" /\ c.sock # "none" => c.life = "closed"

QuotaInv(s) == kind = "resource" => ses[s].inflight = TasksOf(s)

CleanupOf(s) == Contains(logic.q, <<"cleanup", s>>) \/ logic.run = <<<<"cleanup", s>>>>

\* The presence of a user is taken back by someone.
OnlineInv(s) ==
  s \in online \/ Publishing(s) =>
    /\ kind = "chat" /\ ses[s].bound
    /\ Alive(ses[s]) \/ ses[s].closer # "none" \/ CleanupOf(s)

Pub(s) == IF Publishing(s) THEN 1 ELSE 0

\* A request that is owed an answer is a task, or its answer is under way.
OwedInv(s) ==
  IsOpen(ses[s]) /\ s \notin unanswered =>
    owed[s] <= TasksOf(s) + Pub(s) + Answers(ses[s])

EachInv(s) == PlaceInv(s) /\ QuotaInv(s) /\ OnlineInv(s) /\ OwedInv(s)

Known == {s \in Sessions : ses[s].sock # "none"}

QueueNames ==
  IF kind = "resource" THEN {"login", "request"} ELSE TaskNames \ {"publish"}

RunNames == IF kind = "resource" THEN {"login", "request"} ELSE TaskNames

\* The tasks are about accepted sessions, and none is left behind a join.
WorkInv ==
  /\ logic \in [q : Seq(QueueNames \X Known), run : Seq(RunNames \X Known)]
  /\ logic.run = <<>> \/ \E t \in RunNames \X Known : logic.run = <<t>>
  /\ second \in Seq({"deliver", "file"} \X Known)
  /\ stage \in {"second", "drain", "stopped"} => logic.q = <<>> /\ logic.run = <<>>
  /\ stage \in {"drain", "stopped"} => second = <<>>

BaseInv ==
  /\ kind \in Kinds /\ refused = FALSE
  /\ stage \in {"run", "closing", "logic", "second", "drain", "stopped"}
  /\ ses \in [Sessions -> CSession]
  /\ table \subseteq Sessions /\ online \subseteq Sessions /\ toClose \subseteq Sessions
  /\ owed \in [Sessions -> Nat]

IInv ==
  /\ BaseInv
  /\ WorkInv
  /\ \A s \in Sessions : ObjInv(kind, ses[s])
  /\ \A s \in Sessions : EachInv(s)

-----------------------------------------------------------------------------
(* Sequences.                                                              *)

LEMMA CountFinite ==
  ASSUME NEW S, NEW q \in Seq(S), NEW P
  PROVE  IsFiniteSet({i \in DOMAIN q : q[i] \in P}) /\ Count(q, P) \in Nat
<1>1. IsFiniteSet(1..Len(q))
  BY FS_Interval
<1>2. {i \in DOMAIN q : q[i] \in P} \in SUBSET (1..Len(q))
  OBVIOUS
<1>3. IsFiniteSet({i \in DOMAIN q : q[i] \in P})
  BY <1>1, <1>2, FS_Subset
<1>. QED
  BY <1>3, FS_CardinalityType DEF Count

LEMMA CountEmpty ==
  ASSUME NEW P
  PROVE  Count(<<>>, P) = 0
<1>1. {i \in DOMAIN <<>> : <<>>[i] \in P} = {}
  OBVIOUS
<1>. QED
  BY <1>1, FS_EmptySet DEF Count

LEMMA CountOne ==
  ASSUME NEW x, NEW P
  PROVE  Count(<<x>>, P) = IF x \in P THEN 1 ELSE 0
<1>1. {i \in DOMAIN <<x>> : <<x>>[i] \in P} = IF x \in P THEN {1} ELSE {}
  OBVIOUS
<1>. QED
  BY <1>1, FS_EmptySet, FS_Singleton DEF Count

LEMMA CountAppend ==
  ASSUME NEW S, NEW q \in Seq(S), NEW x \in S, NEW P
  PROVE  Count(Append(q, x), P) = Count(q, P) + IF x \in P THEN 1 ELSE 0
<1> DEFINE A == {i \in DOMAIN q : q[i] \in P}
           B == {i \in DOMAIN Append(q, x) : Append(q, x)[i] \in P}
<1>1. IsFiniteSet(A) /\ Cardinality(A) \in Nat
  BY CountFinite DEF Count
<1>2. Len(q) + 1 \notin A
  OBVIOUS
<1>3. CASE x \in P
  <2>1. B = A \cup {Len(q) + 1}
    BY <1>3
  <2>2. Cardinality(B) = Cardinality(A) + 1
    BY <1>1, <1>2, <2>1, FS_AddElement
  <2>. QED  BY <1>3, <2>2 DEF Count
<1>4. CASE x \notin P
  <2>1. B = A
    BY <1>4
  <2>2. Count(q, P) = Cardinality(A) /\ Count(Append(q, x), P) = Cardinality(B)
    BY DEF Count
  <2> HIDE DEF A, B
  <2>. QED  BY <1>1, <1>4, <2>1, <2>2
<1>. QED
  BY <1>3, <1>4

LEMMA CountTail ==
  ASSUME NEW S, NEW q \in Seq(S), q # <<>>, NEW P
  PROVE  Count(q, P) = Count(Tail(q), P) + IF Head(q) \in P THEN 1 ELSE 0
<1> DEFINE A == {i \in DOMAIN q : q[i] \in P}
           B == {i \in DOMAIN Tail(q) : Tail(q)[i] \in P}
           f == [i \in B |-> i + 1]
           C == A \ {1}
<1>1. IsFiniteSet(A) /\ Cardinality(A) \in Nat
  BY CountFinite DEF Count
<1>2. Tail(q) \in Seq(S)
  OBVIOUS
<1>3. IsFiniteSet(B) /\ Cardinality(B) \in Nat
  BY <1>2, CountFinite DEF Count
<1>4. f \in Bijection(B, C)
  <2>1. \A i \in B : i \in Nat /\ f[i] = i + 1 /\ f[i] \in C
    OBVIOUS
  <2>2. \A j \in C : j - 1 \in B /\ f[j - 1] = j
    OBVIOUS
  <2>3. f \in Injection(B, C)
    BY <2>1 DEF Injection, IsInjective
  <2>4. f \in Surjection(B, C)
    BY <2>1, <2>2 DEF Surjection
  <2>. QED  BY <2>3, <2>4 DEF Bijection
<1>5. Cardinality(C) = Cardinality(B)
  <2> HIDE DEF A, B, C, f
  <2>1. ExistsBijection(B, C)
    BY <1>4 DEF ExistsBijection
  <2>. QED  BY <1>3, <2>1, FS_Bijection
<1>6. Head(q) \in P <=> 1 \in A
  OBVIOUS
<1>7. Cardinality(C) = IF 1 \in A THEN Cardinality(A) - 1 ELSE Cardinality(A)
  BY <1>1, FS_RemoveElement
<1>8. Count(q, P) = Cardinality(A) /\ Count(Tail(q), P) = Cardinality(B)
  BY DEF Count
<1> HIDE DEF A, B, C, f
<1>. QED
  BY <1>1, <1>3, <1>5, <1>6, <1>7, <1>8


LEMMA ContainsAppend ==
  ASSUME NEW S, NEW q \in Seq(S), NEW x \in S, NEW y
  PROVE  Contains(Append(q, x), y) <=> Contains(q, y) \/ x = y
BY DEF Contains

LEMMA ContainsTail ==
  ASSUME NEW S, NEW q \in Seq(S), q # <<>>, NEW y
  PROVE  Contains(q, y) <=> Head(q) = y \/ Contains(Tail(q), y)
<1>1. \A i \in 1..Len(q) : i = 1 \/ (i - 1 \in 1..Len(Tail(q)) /\ Tail(q)[i - 1] = q[i])
  OBVIOUS
<1>2. \A i \in 1..Len(Tail(q)) : i + 1 \in 1..Len(q) /\ q[i + 1] = Tail(q)[i]
  OBVIOUS
<1>3. 1 \in 1..Len(q) /\ q[1] = Head(q)
  OBVIOUS
<1>. QED
  BY <1>1, <1>2, <1>3 DEF Contains

LEMMA CloseFirstAppend ==
  ASSUME NEW S, NEW q \in Seq(S), NEW x \in S
  PROVE  /\ CloseFirst(q) => CloseFirst(Append(q, x))
         /\ ~Contains(q, "barrier") /\ x = "close" => CloseFirst(Append(q, x))
<1>1. Len(Append(q, x)) = Len(q) + 1 /\ Append(q, x)[Len(q) + 1] = x /\ Len(q) \in Nat
  OBVIOUS
<1>2. \A i \in 1..Len(q) : Append(q, x)[i] = q[i]
  OBVIOUS
<1>3. ASSUME CloseFirst(q)
      PROVE  CloseFirst(Append(q, x))
  BY <1>1, <1>2, <1>3 DEF CloseFirst
<1>4. ASSUME ~Contains(q, "barrier"), x = "close"
      PROVE  CloseFirst(Append(q, x))
  <2>1. \A j \in 1..Len(q) + 1 : Append(q, x)[j] # "barrier"
    BY <1>1, <1>2, <1>4 DEF Contains
  <2>. QED  BY <1>1, <1>4, <2>1 DEF CloseFirst
<1>. QED
  BY <1>3, <1>4

LEMMA CloseFirstTail ==
  ASSUME NEW S, NEW q \in Seq(S), CloseFirst(q)
  PROVE  /\ q # <<>> /\ Head(q) # "barrier"
         /\ Head(q) # "close" => CloseFirst(Tail(q))
<1>1. PICK i \in 1..Len(q) : q[i] = "close" /\ \A j \in 1..i : q[j] # "barrier"
  BY DEF CloseFirst
<1>2. q # <<>> /\ Head(q) = q[1] /\ 1 \in 1..i
  BY <1>1
<1>3. ASSUME Head(q) # "close"
      PROVE  CloseFirst(Tail(q))
  <2>1. i - 1 \in 1..Len(Tail(q)) /\ Tail(q)[i - 1] = "close"
    BY <1>1, <1>2, <1>3
  <2>2. \A j \in 1..i - 1 : j + 1 \in 1..i /\ Tail(q)[j] = q[j + 1]
    BY <1>1, <1>2
  <2>. QED  BY <1>1, <2>1, <2>2 DEF CloseFirst
<1>. QED
  BY <1>1, <1>2, <1>3

-----------------------------------------------------------------------------
(* The methods of CSession.                                                *)

\* What the flags of an object do not touch.
Calm(c, d) ==
  /\ d.life = c.life /\ d.closer = c.closer /\ d.sock = c.sock
  /\ d.posted = c.posted /\ d.queue = c.queue /\ d.pending = c.pending
  /\ d.writing <=> c.writing
  /\ c.bound => d.bound

\* A session is closed once, by `thread', and keeps the barrier while it is
\* not closed.
Step(c, d, thread) ==
  /\ d.sock = "none" <=> c.sock = "none"
  /\ c.bound => d.bound
  /\ \/ d.life = c.life /\ d.closer = c.closer
     \/ Alive(c) /\ d.life = "closing" /\ d.closer = thread
     \/ c.life = "open" /\ d.life = "draining" /\ d.closer = c.closer
     \/ ~Alive(c) /\ c.closer = "none" /\ d.life = "closed" /\ d.closer = "none"
  /\ Contains(d.posted, "barrier") => Contains(c.posted, "barrier")
  /\ Contains(c.posted, "barrier") => Contains(d.posted, "barrier") \/ d.life = "closed"

LEMMA CalmIsStep ==
  ASSUME NEW c, NEW d, Calm(c, d), NEW thread
  PROVE  /\ Step(c, d, thread) /\ Answers(d) = Answers(c)
         /\ IsOpen(d) <=> IsOpen(c)
BY DEF Calm, Step, Answers, Frames, IsOpen

LEMMA CalmThenStep ==
  ASSUME NEW b, NEW c, NEW d, NEW thread, Calm(b, c), Step(c, d, thread)
  PROVE  Step(b, d, thread)
BY DEF Calm, Step, Alive

LEMMA StepThenCalm ==
  ASSUME NEW b, NEW c, NEW d, NEW thread, Step(b, c, thread), Calm(c, d)
  PROVE  Step(b, d, thread)
BY DEF Calm, Step, Alive

LEMMA CalmObj ==
  ASSUME NEW k, NEW c, ObjInv(k, c), c.sock # "none", NEW d \in CSession, Calm(c, d)
  PROVE  ObjInv(k, d)
BY DEF ObjInv, Calm, Alive, Frames

LEMMA AnswersNat ==
  ASSUME NEW c \in CSession
  PROVE  Frames(c) \in Nat /\ Answers(c) \in Nat /\ Len(c.queue) \in Nat
<1>1. c.posted \in Seq(Ops) /\ c.queue \in Seq({"rsp", "push", "term"})
  BY DEF CSession
<1>2. Count(c.posted, {"rsp", "term"}) \in Nat /\ Count(c.queue, {"rsp"}) \in Nat
  BY <1>1, CountFinite
<1>. QED
  BY <1>1, <1>2 DEF Answers, Frames

LEMMA BeginCloseIs ==
  ASSUME NEW c \in CSession, NEW thread \in Threads
  PROVE  LET d == BeginClose(c, thread)
         IN  /\ d \in CSession
             /\ d.sock = c.sock /\ d.posted = c.posted /\ d.queue = c.queue
             /\ d.pending = c.pending /\ d.inflight = c.inflight
             /\ (d.writing <=> c.writing) /\ (d.bound <=> c.bound)
             /\ Alive(c) => d.life = "closing" /\ d.closer = thread
             /\ ~Alive(c) => d = c
<1>1. CASE ~Alive(c)
  BY <1>1 DEF BeginClose, Alive
<1>2. CASE Alive(c)
  <2> DEFINE d == [c EXCEPT !.life = "closing", !.closer = thread]
  <2>1. BeginClose(c, thread) = d
    BY <1>2 DEF BeginClose, Alive
  <2>2. d \in CSession
    BY DEF CSession, Threads
  <2>3. /\ d.sock = c.sock /\ d.posted = c.posted /\ d.queue = c.queue
        /\ d.pending = c.pending /\ d.inflight = c.inflight
        /\ d.life = "closing" /\ d.closer = thread
    BY DEF CSession
  <2>4. (d.writing <=> c.writing) /\ (d.bound <=> c.bound)
    BY DEF CSession
  <2> HIDE DEF d
  <2>. QED  BY <1>2, <2>1, <2>2, <2>3, <2>4
<1>. QED
  BY <1>1, <1>2

LEMMA BeginCloseDoes ==
  ASSUME NEW k, NEW c, ObjInv(k, c), c.sock # "none", NEW thread \in Threads
  PROVE  LET d == BeginClose(c, thread)
         IN  /\ ObjInv(k, d) /\ Step(c, d, thread)
             /\ d.inflight = c.inflight /\ ~Alive(d)
<1> DEFINE d == BeginClose(c, thread)
<1>1. c \in CSession
  BY DEF ObjInv
<1>2. CASE ~Alive(c)
  <2>1. d = c
    BY <1>1, <1>2, BeginCloseIs
  <2>2. Calm(c, c)
    BY DEF Calm
  <2>. QED  BY <1>2, <2>1, <2>2, CalmIsStep
<1>3. CASE Alive(c)
  <2>1. /\ d \in CSession
        /\ d.sock = c.sock /\ d.posted = c.posted /\ d.queue = c.queue
        /\ d.pending = c.pending /\ d.inflight = c.inflight
        /\ (d.writing <=> c.writing) /\ (d.bound <=> c.bound)
        /\ d.life = "closing" /\ d.closer = thread
    BY <1>1, <1>3, BeginCloseIs
  <2>2. thread # "none" /\ "none" \notin Threads
    BY DEF Threads
  <2> HIDE DEF d
  <2>3. Step(c, d, thread)
    BY <1>3, <2>1 DEF Step
  <2>4. ~Alive(d)
    BY <2>1 DEF Alive
  <2>5. ObjInv(k, d)
    BY <1>3, <2>1, <2>2 DEF ObjInv, Alive, Frames
  <2>. QED  BY <2>1, <2>3, <2>4, <2>5 DEF d
<1>. QED
  BY <1>2, <1>3


LEMMA CompleteCloseIs ==
  ASSUME NEW c \in CSession
  PROVE  LET d == CompleteClose(c)
         IN  /\ d \in CSession
             /\ d.sock = "closed" /\ d.life = "closed" /\ d.closer = c.closer
             /\ d.posted = c.posted /\ d.queue = c.queue
             /\ d.pending = c.pending /\ d.inflight = c.inflight
             /\ (d.writing <=> c.writing) /\ (d.bound <=> c.bound)
<1> DEFINE d == [c EXCEPT !.sock = "closed", !.life = "closed", !.read = FALSE, !.timer = FALSE]
<1>1. d \in CSession
  BY DEF CSession
<1>2. /\ d.sock = "closed" /\ d.life = "closed" /\ d.closer = c.closer
      /\ d.posted = c.posted /\ d.queue = c.queue
      /\ d.pending = c.pending /\ d.inflight = c.inflight
  BY DEF CSession
<1>3. (d.writing <=> c.writing) /\ (d.bound <=> c.bound)
  BY DEF CSession
<1>4. CompleteClose(c) = d
  BY DEF CompleteClose
<1> HIDE DEF d
<1>. QED
  BY <1>1, <1>2, <1>3, <1>4

LEMMA EnqueueIs ==
  ASSUME NEW c \in CSession, NEW f \in {"rsp", "push", "term"}
  PROVE  LET d == Enqueue(c, f)
         IN  /\ d \in CSession
             /\ d.sock = c.sock /\ d.life = c.life /\ d.closer = c.closer
             /\ d.posted = c.posted /\ d.queue = Append(c.queue, f)
             /\ d.pending = c.pending /\ d.inflight = c.inflight
             /\ d.writing /\ (d.bound <=> c.bound)
<1> DEFINE q == Append(c.queue, f)
           d == [c EXCEPT !.queue = q, !.writing = TRUE]
<1>1. q \in Seq({"rsp", "push", "term"})
  BY DEF CSession
<1>2. Enqueue(c, f) = d
  BY DEF Enqueue
<1> HIDE DEF q
<1>3. d \in CSession
  BY <1>1 DEF CSession
<1>4. /\ d.sock = c.sock /\ d.life = c.life /\ d.closer = c.closer
      /\ d.posted = c.posted /\ d.queue = q
      /\ d.pending = c.pending /\ d.inflight = c.inflight
  BY DEF CSession
<1>5. d.writing /\ (d.bound <=> c.bound)
  BY DEF CSession
<1> HIDE DEF d
<1>. QED
  BY <1>2, <1>3, <1>4, <1>5 DEF q

LEMMA PendingIs ==
  ASSUME NEW c \in CSession, NEW p \in 0..SendLimit
  PROVE  LET d == [c EXCEPT !.pending = p]
         IN  /\ d \in CSession
             /\ d.sock = c.sock /\ d.life = c.life /\ d.closer = c.closer
             /\ d.posted = c.posted /\ d.queue = c.queue
             /\ d.pending = p /\ d.inflight = c.inflight
             /\ (d.writing <=> c.writing) /\ (d.bound <=> c.bound)
<1> DEFINE d == [c EXCEPT !.pending = p]
<1>1. d \in CSession
  BY DEF CSession
<1>2. /\ d.sock = c.sock /\ d.life = c.life /\ d.closer = c.closer
      /\ d.posted = c.posted /\ d.queue = c.queue
      /\ d.pending = p /\ d.inflight = c.inflight
  BY DEF CSession
<1>3. (d.writing <=> c.writing) /\ (d.bound <=> c.bound)
  BY DEF CSession
<1> HIDE DEF d
<1>. QED
  BY <1>1, <1>2, <1>3 DEF d

LEMMA PostedIs ==
  ASSUME NEW c \in CSession, NEW q \in Seq(Ops), NEW p \in 0..SendLimit
  PROVE  LET d == [c EXCEPT !.posted = q, !.pending = p]
         IN  /\ d \in CSession
             /\ d.sock = c.sock /\ d.life = c.life /\ d.closer = c.closer
             /\ d.posted = q /\ d.queue = c.queue
             /\ d.pending = p /\ d.inflight = c.inflight
             /\ (d.writing <=> c.writing) /\ (d.bound <=> c.bound)
<1> DEFINE d == [c EXCEPT !.posted = q, !.pending = p]
<1>1. d \in CSession
  BY DEF CSession
<1>2. /\ d.sock = c.sock /\ d.life = c.life /\ d.closer = c.closer
      /\ d.posted = q /\ d.queue = c.queue
      /\ d.pending = p /\ d.inflight = c.inflight
  BY DEF CSession
<1>3. (d.writing <=> c.writing) /\ (d.bound <=> c.bound)
  BY DEF CSession
<1> HIDE DEF d
<1>. QED
  BY <1>1, <1>2, <1>3 DEF d

\* A closure is posted; the pending frames of a session stay as they are.
LEMMA PostIs ==
  ASSUME NEW c \in CSession, NEW q \in Seq(Ops)
  PROVE  LET d == [c EXCEPT !.posted = q]
         IN  /\ d \in CSession
             /\ d.sock = c.sock /\ d.life = c.life /\ d.closer = c.closer
             /\ d.posted = q /\ d.queue = c.queue
             /\ d.pending = c.pending /\ d.inflight = c.inflight
             /\ (d.writing <=> c.writing) /\ (d.bound <=> c.bound)
<1> DEFINE d == [c EXCEPT !.posted = q]
<1>1. d \in CSession
  BY DEF CSession
<1>2. /\ d.sock = c.sock /\ d.life = c.life /\ d.closer = c.closer
      /\ d.posted = q /\ d.queue = c.queue
      /\ d.pending = c.pending /\ d.inflight = c.inflight
  BY DEF CSession
<1>3. (d.writing <=> c.writing) /\ (d.bound <=> c.bound)
  BY DEF CSession
<1> HIDE DEF d
<1>. QED
  BY <1>1, <1>2, <1>3 DEF d

LEMMA DrainingIs ==
  ASSUME NEW c \in CSession
  PROVE  LET d == [c EXCEPT !.life = "draining", !.timer = TRUE]
         IN  /\ d \in CSession
             /\ d.sock = c.sock /\ d.life = "draining" /\ d.closer = c.closer
             /\ d.posted = c.posted /\ d.queue = c.queue
             /\ d.pending = c.pending /\ d.inflight = c.inflight
             /\ (d.writing <=> c.writing) /\ (d.bound <=> c.bound)
<1> DEFINE d == [c EXCEPT !.life = "draining", !.timer = TRUE]
<1>1. d \in CSession
  BY DEF CSession
<1>2. /\ d.sock = c.sock /\ d.life = "draining" /\ d.closer = c.closer
      /\ d.posted = c.posted /\ d.queue = c.queue
      /\ d.pending = c.pending /\ d.inflight = c.inflight
  BY DEF CSession
<1>3. (d.writing <=> c.writing) /\ (d.bound <=> c.bound)
  BY DEF CSession
<1> HIDE DEF d
<1>. QED
  BY <1>1, <1>2, <1>3 DEF d


\* A frame is posted, and with it the budget it takes.
LEMMA FramePosted ==
  ASSUME NEW k, NEW c, ObjInv(k, c), c.sock # "none", NEW f \in {"rsp", "push", "term"},
         NEW d \in CSession, d.sock = c.sock, d.life = c.life, d.closer = c.closer,
         d.posted = Append(c.posted, f), d.queue = c.queue,
         d.writing <=> c.writing, d.bound <=> c.bound,
         k = "resource" => f # "push" /\ d.pending = c.pending + 1, NEW thread
  PROVE  /\ ObjInv(k, d) /\ Step(c, d, thread)
         /\ Answers(d) = Answers(c) + IF f = "push" THEN 0 ELSE 1
<1>1. c \in CSession /\ c.posted \in Seq(Ops) /\ f \in Ops
  BY DEF ObjInv, CSession, Ops
<1>2. \A y : Contains(d.posted, y) <=> Contains(c.posted, y) \/ f = y
  BY <1>1, ContainsAppend
<1>3. CloseFirst(c.posted) => CloseFirst(d.posted)
  BY <1>1, CloseFirstAppend
<1>4. f \in {"rsp", "term"} <=> f # "push"
  OBVIOUS
<1>5. Frames(d) = Frames(c) + IF f = "push" THEN 0 ELSE 1
  BY <1>1, <1>4, CountAppend DEF Frames
<1>6. Frames(c) \in Nat /\ Len(c.queue) \in Nat /\ Count(c.queue, {"rsp"}) \in Nat
  BY <1>1, AnswersNat, CountFinite DEF CSession
<1>7. Answers(d) = Answers(c) + IF f = "push" THEN 0 ELSE 1
  BY <1>5, <1>6 DEF Answers
<1>8. Step(c, d, thread)
  BY <1>2 DEF Step
<1>9. k = "resource" => d.pending = Len(d.queue) + Frames(d) /\ ~Contains(d.posted, "push")
  BY <1>2, <1>5, <1>6 DEF ObjInv
<1>10. /\ Contains(d.posted, "close") => ~Alive(d) /\ d.closer = "none"
       /\ d.life = "closing" /\ d.closer = "none" => CloseFirst(d.posted)
  BY <1>2, <1>3 DEF ObjInv, Alive
<1>11. /\ d.closer # "none" => d.life = "closing"
       /\ d.sock = "closed" <=> d.life = "closed"
       /\ d.writing => d.queue # <<>>
       /\ d.sock # "none"
  BY DEF ObjInv
<1>12. ObjInv(k, d)
  BY <1>9, <1>10, <1>11 DEF ObjInv
<1>. QED
  BY <1>7, <1>8, <1>12

\* Send and SendAndClose of both servers, on the caller's thread.
LEMMA SendDoes ==
  ASSUME kind \in {"chat", "resource"}, NEW c, ObjInv(kind, c), c.sock # "none",
         NEW f \in {"rsp", "push", "term"}, kind = "resource" => f # "push",
         NEW thread \in Threads
  PROVE  LET d == Send(c, f, thread)
         IN  /\ ObjInv(kind, d) /\ Step(c, d, thread) /\ d.inflight = c.inflight
             /\ IsOpen(d) => /\ IsOpen(c)
                             /\ Answers(d) = Answers(c) + IF f = "push" THEN 0 ELSE 1
<1> DEFINE q == Append(c.posted, f)
<1>1. c \in CSession /\ c.posted \in Seq(Ops) /\ f \in Ops /\ c.pending \in 0..SendLimit
  BY DEF ObjInv, CSession, Ops
<1>2. q \in Seq(Ops)
  BY <1>1
<1>3. CASE kind = "chat"
  <2> DEFINE d == [c EXCEPT !.posted = q]
  <2>1. Send(c, f, thread) = d
    BY <1>3 DEF Send
  <2>2. /\ d \in CSession
        /\ d.sock = c.sock /\ d.life = c.life /\ d.closer = c.closer
        /\ d.posted = q /\ d.queue = c.queue
        /\ d.pending = c.pending /\ d.inflight = c.inflight
        /\ (d.writing <=> c.writing) /\ (d.bound <=> c.bound)
    BY <1>1, <1>2, PostIs
  <2> HIDE DEF d
  <2>3. /\ ObjInv(kind, d) /\ Step(c, d, thread)
        /\ Answers(d) = Answers(c) + IF f = "push" THEN 0 ELSE 1
    BY <1>3, <2>2, FramePosted
  <2>. QED  BY <2>1, <2>2, <2>3 DEF IsOpen
<1>4. CASE kind = "resource" /\ c.pending >= SendLimit
  <2>1. Send(c, f, thread) = BeginClose(c, thread)
    BY <1>4 DEF Send
  <2>. QED  BY <2>1, BeginCloseDoes DEF IsOpen, Alive
<1>5. CASE kind = "resource" /\ ~(c.pending >= SendLimit)
  <2> DEFINE p == c.pending + 1
             d == [c EXCEPT !.posted = q, !.pending = p]
  <2>1. Send(c, f, thread) = d
    BY <1>5 DEF Send
  <2>2. p \in 0..SendLimit
    BY <1>1, <1>5, SessionsAssumption
  <2>3. /\ d \in CSession
        /\ d.sock = c.sock /\ d.life = c.life /\ d.closer = c.closer
        /\ d.posted = q /\ d.queue = c.queue
        /\ d.pending = p /\ d.inflight = c.inflight
        /\ (d.writing <=> c.writing) /\ (d.bound <=> c.bound)
    BY <1>1, <1>2, <2>2, PostedIs
  <2> HIDE DEF d
  <2>4. /\ ObjInv(kind, d) /\ Step(c, d, thread)
        /\ Answers(d) = Answers(c) + IF f = "push" THEN 0 ELSE 1
    BY <1>5, <2>3, FramePosted
  <2>. QED  BY <2>1, <2>3, <2>4 DEF IsOpen
<1>. QED
  BY <1>3, <1>4, <1>5

\* A closure that is not the one of Close() has been taken from the front.
LEMMA FrameTaken ==
  ASSUME NEW k, NEW b, ObjInv(k, b), b.sock # "none", b.posted # <<>>,
         Head(b.posted) # "close",
         Contains(b.posted, "barrier") => ~Alive(b) /\ b.closer = "none",
         NEW d \in CSession, d.posted = Tail(b.posted), d.sock = b.sock, d.closer = b.closer,
         d.life = b.life \/ (b.life = "open" /\ d.life = "draining"),
         d.bound <=> b.bound, d.writing => d.queue # <<>>,
         k = "resource" => d.pending = Len(d.queue) + Frames(d)
  PROVE  ObjInv(k, d) /\ Step(b, d, "io")
<1>1. b \in CSession /\ b.posted \in Seq(Ops)
  BY DEF ObjInv, CSession
<1>2. \A y : Contains(b.posted, y) <=> Head(b.posted) = y \/ Contains(d.posted, y)
  BY <1>1, ContainsTail
<1>3. CloseFirst(b.posted) => CloseFirst(d.posted) /\ Head(b.posted) # "barrier"
  BY <1>1, CloseFirstTail
<1>4. b.life \in {"open", "draining", "closing", "closed"}
  BY <1>1 DEF CSession
<1>5. Contains(b.posted, "barrier") => Contains(d.posted, "barrier") \/ d.life = "closed"
  BY <1>2, <1>3, <1>4 DEF ObjInv, Alive
<1>6. Step(b, d, "io")
  BY <1>2, <1>5 DEF Step
<1>7. k = "resource" => ~Contains(d.posted, "push")
  BY <1>2 DEF ObjInv
<1>8. /\ Contains(d.posted, "close") => ~Alive(d) /\ d.closer = "none"
      /\ d.life = "closing" /\ d.closer = "none" => CloseFirst(d.posted)
  BY <1>2, <1>3 DEF ObjInv, Alive
<1>9. /\ d.closer # "none" => d.life = "closing"
      /\ d.sock = "closed" <=> d.life = "closed"
      /\ d.sock # "none"
  BY DEF ObjInv
<1>10. ObjInv(k, d)
  BY <1>7, <1>8, <1>9 DEF ObjInv
<1>. QED
  BY <1>6, <1>10

Popped(b) == [b EXCEPT !.posted = Tail(@)]

LEMMA PoppedIs ==
  ASSUME NEW b \in CSession, b.posted # <<>>
  PROVE  LET d == Popped(b)
         IN  /\ d \in CSession
             /\ d.sock = b.sock /\ d.life = b.life /\ d.closer = b.closer
             /\ d.posted = Tail(b.posted) /\ d.queue = b.queue
             /\ d.pending = b.pending /\ d.inflight = b.inflight
             /\ (d.writing <=> b.writing) /\ (d.bound <=> b.bound)
             /\ Frames(b) = Frames(d) + IF Head(b.posted) \in {"rsp", "term"} THEN 1 ELSE 0
<1> DEFINE q == Tail(b.posted)
<1>1. b.posted \in Seq(Ops)
  BY DEF CSession
<1>2. q \in Seq(Ops)
  BY <1>1
<1>3. Popped(b) = [b EXCEPT !.posted = q]
  BY DEF Popped
<1>4. Count(b.posted, {"rsp", "term"}) =
        Count(q, {"rsp", "term"}) + IF Head(b.posted) \in {"rsp", "term"} THEN 1 ELSE 0
  BY <1>1, CountTail
<1> HIDE DEF q
<1> DEFINE d == Popped(b)
<1>5. /\ d \in CSession
      /\ d.sock = b.sock /\ d.life = b.life /\ d.closer = b.closer
      /\ d.posted = q /\ d.queue = b.queue
      /\ d.pending = b.pending /\ d.inflight = b.inflight
      /\ (d.writing <=> b.writing) /\ (d.bound <=> b.bound)
  BY <1>2, <1>3, PostIs
<1> HIDE DEF d
<1>6. Frames(b) = Frames(d) + IF Head(b.posted) \in {"rsp", "term"} THEN 1 ELSE 0
  BY <1>4, <1>5 DEF Frames
<1>. QED
  BY <1>5, <1>6 DEF q, d

\* The budget of a closure that queues nothing is given back.
LEMMA UnusedIs ==
  ASSUME kind \in {"chat", "resource"}, NEW c \in CSession,
         kind = "resource" => c.pending # 0
  PROVE  LET d == Unused(c)
         IN  /\ d \in CSession
             /\ d.sock = c.sock /\ d.life = c.life /\ d.closer = c.closer
             /\ d.posted = c.posted /\ d.queue = c.queue /\ d.inflight = c.inflight
             /\ (d.writing <=> c.writing) /\ (d.bound <=> c.bound)
             /\ kind = "resource" => d.pending = c.pending - 1
<1>1. CASE kind = "chat"
  BY <1>1 DEF Unused
<1>2. CASE kind = "resource"
  <2> DEFINE p == c.pending - 1
  <2>1. c.pending \in 0..SendLimit
    BY DEF CSession
  <2>2. p \in 0..SendLimit
    BY <1>2, <2>1, SessionsAssumption
  <2>3. Unused(c) = [c EXCEPT !.pending = p]
    BY <1>2 DEF Unused
  <2> HIDE DEF p
  <2>. QED  BY <2>2, <2>3, PendingIs DEF p
<1>. QED
  BY <1>1, <1>2


\* What RunPosted makes of the object: the closure at the front runs.
Ran(b) ==
  LET c == Popped(b)
      op == Head(b.posted)
  IN  CASE op = "start" -> [c EXCEPT !.read = IsOpen(c)]
        [] op = "close" -> CompleteClose(c)
        [] op = "term"  -> RunTerm(c)
        [] op \in {"rsp", "push"} -> RunSend(c, op)
        [] OTHER        -> c

LEMMA ReadIs ==
  ASSUME NEW c \in CSession, NEW r \in BOOLEAN
  PROVE  LET d == [c EXCEPT !.read = r]
         IN  d \in CSession /\ Calm(c, d) /\ d.inflight = c.inflight /\ (d.bound <=> c.bound)
<1> DEFINE d == [c EXCEPT !.read = r]
<1>1. d \in CSession
  BY DEF CSession
<1>2. /\ d.sock = c.sock /\ d.life = c.life /\ d.closer = c.closer
      /\ d.posted = c.posted /\ d.queue = c.queue
      /\ d.pending = c.pending /\ d.inflight = c.inflight
  BY DEF CSession
<1>3. (d.writing <=> c.writing) /\ (d.bound <=> c.bound)
  BY DEF CSession
<1> HIDE DEF d
<1>4. Calm(c, d)
  BY <1>2, <1>3 DEF Calm
<1>. QED
  BY <1>1, <1>2, <1>3, <1>4 DEF d

LEMMA RanDoes ==
  ASSUME kind \in {"chat", "resource"}, NEW b, ObjInv(kind, b), b.sock # "none",
         b.posted # <<>>, b.closer # "io",
         Contains(b.posted, "barrier") => ~Alive(b) /\ b.closer = "none"
  PROVE  LET d == Ran(b)
         IN  /\ ObjInv(kind, d) /\ Step(b, d, "io") /\ d.inflight = b.inflight
             /\ IsOpen(d) => /\ IsOpen(b)
                             /\ \/ Answers(d) = Answers(b)
                                \/ Head(b.posted) = "rsp" /\ QueueFull(Popped(b))
<1> DEFINE c == Popped(b)
           op == Head(b.posted)
           d == Ran(b)
<1>1. b \in CSession /\ b.posted \in Seq(Ops) /\ op \in Ops
  BY DEF ObjInv, CSession
<1>2. /\ c \in CSession
      /\ c.sock = b.sock /\ c.life = b.life /\ c.closer = b.closer
      /\ c.posted = Tail(b.posted) /\ c.queue = b.queue
      /\ c.pending = b.pending /\ c.inflight = b.inflight
      /\ (c.writing <=> b.writing) /\ (c.bound <=> b.bound)
      /\ Frames(b) = Frames(c) + IF op \in {"rsp", "term"} THEN 1 ELSE 0
  BY <1>1, PoppedIs
<1>3. /\ Frames(c) \in Nat /\ Frames(b) \in Nat /\ Len(c.queue) \in Nat
      /\ Count(c.queue, {"rsp"}) \in Nat /\ c.queue \in Seq({"rsp", "push", "term"})
  BY <1>1, <1>2, AnswersNat, CountFinite DEF CSession
<1>4. /\ kind = "resource" => b.pending = Len(b.queue) + Frames(b)
      /\ b.writing => b.queue # <<>>
      /\ b.sock = "closed" <=> b.life = "closed"
  BY DEF ObjInv
<1>5. b.life \in {"open", "draining", "closing", "closed"}
  BY <1>1 DEF CSession
<1>6. kind = "resource" /\ op \in {"rsp", "term"} =>
        c.pending = Len(c.queue) + Frames(c) + 1
  BY <1>2, <1>3, <1>4
<1>7. CASE op = "start"
  <2>1. d = [c EXCEPT !.read = IsOpen(c)]
    BY <1>7 DEF Ran
  <2>2. IsOpen(c) \in BOOLEAN
    BY DEF IsOpen
  <2> HIDE DEF c, d, op
  <2>3. d \in CSession /\ Calm(c, d) /\ d.inflight = c.inflight /\ (d.bound <=> c.bound)
    BY <1>2, <2>1, <2>2, ReadIs
  <2>4. Frames(d) = Frames(c) /\ Answers(d) = Answers(c) /\ Answers(c) = Answers(b)
    BY <1>2, <1>3, <1>7, <2>3 DEF Calm, Frames, Answers
  <2>5. /\ d.posted = Tail(b.posted) /\ d.sock = b.sock /\ d.closer = b.closer /\ d.life = b.life
        /\ d.queue = b.queue /\ d.pending = b.pending /\ (d.bound <=> b.bound)
        /\ (d.writing <=> b.writing)
    BY <1>2, <2>3 DEF Calm
  <2>6. kind = "resource" => d.pending = Len(d.queue) + Frames(d)
    BY <1>2, <1>3, <1>4, <1>7, <2>4, <2>5
  <2>7. ObjInv(kind, d) /\ Step(b, d, "io")
    BY <1>4, <1>7, <2>3, <2>5, <2>6, FrameTaken DEF op
  <2>. QED  BY <1>2, <2>3, <2>4, <2>5, <2>7 DEF IsOpen, d
<1>8. CASE op = "barrier"
  <2>1. d = c
    BY <1>8 DEF Ran
  <2> HIDE DEF c, d, op
  <2>2. Answers(d) = Answers(b)
    BY <1>2, <1>3, <1>8, <2>1 DEF Answers
  <2>3. kind = "resource" => d.pending = Len(d.queue) + Frames(d)
    BY <1>2, <1>3, <1>4, <1>8, <2>1
  <2>4. ObjInv(kind, d) /\ Step(b, d, "io")
    BY <1>2, <1>4, <1>8, <2>1, <2>3, FrameTaken DEF op
  <2>. QED  BY <1>2, <2>1, <2>2, <2>4 DEF IsOpen, d
<1>9. CASE op = "close"
  <2>1. d = CompleteClose(c)
    BY <1>9 DEF Ran
  <2>2. Contains(b.posted, "close")
    BY <1>1, <1>9, ContainsTail
  <2>3. ~Alive(b) /\ b.closer = "none"
    BY <2>2 DEF ObjInv
  <2>4. \A y : Contains(c.posted, y) => Contains(b.posted, y)
    BY <1>1, <1>2, ContainsTail
  <2> HIDE DEF c, d, op
  <2>5. /\ d \in CSession
        /\ d.sock = "closed" /\ d.life = "closed" /\ d.closer = c.closer
        /\ d.posted = c.posted /\ d.queue = c.queue
        /\ d.pending = c.pending /\ d.inflight = c.inflight
        /\ (d.writing <=> c.writing) /\ (d.bound <=> c.bound)
    BY <1>2, <2>1, CompleteCloseIs
  <2>6. Step(b, d, "io")
    BY <1>2, <2>3, <2>4, <2>5 DEF Step
  <2>7. kind = "resource" => d.pending = Len(d.queue) + Frames(d) /\ ~Contains(d.posted, "push")
    BY <1>2, <1>3, <1>4, <1>9, <2>4, <2>5 DEF ObjInv, Frames
  <2>8. d.writing => d.queue # <<>>
    BY <1>2, <1>4, <2>5
  <2>9. ~Alive(d) /\ ~IsOpen(d)
    BY <2>5 DEF Alive, IsOpen
  <2>10. ObjInv(kind, d)
    BY <1>2, <2>3, <2>5, <2>7, <2>8, <2>9 DEF ObjInv
  <2>. QED  BY <1>2, <2>5, <2>6, <2>9, <2>10 DEF d
<1>10. CASE op \in {"rsp", "push", "term"} /\ (~IsOpen(c) \/ c.sock = "closed")
  <2> DEFINE u == Unused(c)
  <2>0. kind = "resource" => op # "push"
    <3>1. Contains(b.posted, op)
      BY <1>1, ContainsTail
    <3>. QED  BY <3>1 DEF ObjInv
  <2>1. kind = "resource" => c.pending = Len(c.queue) + Frames(c) + 1
    BY <1>10, <1>6, <2>0
  <2>2. kind = "resource" => c.pending # 0
    BY <1>3, <2>1
  <2>3. /\ u \in CSession
        /\ u.sock = c.sock /\ u.life = c.life /\ u.closer = c.closer
        /\ u.posted = c.posted /\ u.queue = c.queue /\ u.inflight = c.inflight
        /\ (u.writing <=> c.writing) /\ (u.bound <=> c.bound)
        /\ kind = "resource" => u.pending = c.pending - 1
    BY <1>2, <2>2, UnusedIs
  <2>4. ~IsOpen(c)
    BY <1>2, <1>4, <1>10 DEF IsOpen
  <2>5. d = u
    <3>1. CASE op \in {"rsp", "push"}
      <4>1. d = RunSend(c, op)
        BY <3>1 DEF Ran
      <4>. QED  BY <1>10, <4>1 DEF RunSend
    <3>2. CASE op = "term"
      <4>1. d = RunTerm(c)
        BY <3>2 DEF Ran
      <4>2. CASE c.sock = "closed"
        <5>1. d = BeginClose(u, "io")
          BY <4>1, <4>2 DEF RunTerm
        <5>2. ~Alive(u)
          BY <1>2, <1>4, <2>3, <4>2 DEF Alive
        <5> HIDE DEF u
        <5>. QED  BY <2>3, <5>1, <5>2, BeginCloseIs DEF Threads
      <4>3. CASE c.sock # "closed"
        BY <2>4, <4>1, <4>3 DEF RunTerm
      <4>. QED  BY <4>2, <4>3
    <3>. QED  BY <1>10, <3>1, <3>2
  <2> HIDE DEF c, d, op, u
  <2>6. Frames(u) = Frames(c)
    BY <2>3 DEF Frames
  <2>7. kind = "resource" => u.pending = Len(u.queue) + Frames(u)
    BY <1>3, <2>1, <2>3, <2>6
  <2>8. ObjInv(kind, u) /\ Step(b, u, "io")
    BY <1>2, <1>4, <1>10, <2>3, <2>7, FrameTaken DEF op
  <2>. QED  BY <1>2, <2>3, <2>4, <2>5, <2>8 DEF IsOpen, d
<1>11. CASE op \in {"rsp", "push"} /\ IsOpen(c) /\ c.sock # "closed" /\ QueueFull(c)
  <2>1. d = RunSend(c, op)
    BY <1>11 DEF Ran
  <2>2. d = c
    BY <1>11, <2>1 DEF RunSend
  <2>3. kind = "chat" /\ "chat" # "resource"
    BY <1>11 DEF QueueFull
  <2> HIDE DEF c, d, op
  <2>4. ObjInv(kind, d) /\ Step(b, d, "io")
    BY <1>2, <1>4, <1>11, <2>2, <2>3, FrameTaken DEF op
  <2>5. op = "push" => Answers(d) = Answers(b)
    BY <1>2, <1>3, <2>2 DEF Answers
  <2>. QED  BY <1>2, <1>11, <2>2, <2>4, <2>5 DEF IsOpen, d, op, c
<1>12. CASE op \in {"rsp", "push"} /\ IsOpen(c) /\ c.sock # "closed" /\ ~QueueFull(c)
  <2>1. d = RunSend(c, op)
    BY <1>12 DEF Ran
  <2>2. d = Enqueue(c, op)
    BY <1>12, <2>1 DEF RunSend
  <2>3. /\ d \in CSession
        /\ d.sock = c.sock /\ d.life = c.life /\ d.closer = c.closer
        /\ d.posted = c.posted /\ d.queue = Append(c.queue, op)
        /\ d.pending = c.pending /\ d.inflight = c.inflight
        /\ d.writing /\ (d.bound <=> c.bound)
    BY <1>2, <1>12, <2>2, EnqueueIs
  <2>4. kind = "resource" => op # "push"
    <3>1. Contains(b.posted, op)
      BY <1>1, ContainsTail
    <3>. QED  BY <3>1 DEF ObjInv
  <2> HIDE DEF c, d, op
  <2>5. Frames(d) = Frames(c) /\ Len(d.queue) = Len(c.queue) + 1 /\ d.queue # <<>>
    BY <1>3, <1>12, <2>3 DEF Frames
  <2>6. Count(d.queue, {"rsp"}) = Count(c.queue, {"rsp"}) + IF op = "rsp" THEN 1 ELSE 0
    BY <1>3, <1>12, <2>3, CountAppend
  <2>7. Answers(d) = Answers(b)
    BY <1>2, <1>3, <1>12, <2>5, <2>6 DEF Answers
  <2>8. kind = "resource" => d.pending = Len(d.queue) + Frames(d)
    <3>1. d.pending = c.pending
      BY <2>3
    <3>. QED  BY <1>3, <1>12, <1>6, <2>4, <2>5, <3>1
  <2>9. ObjInv(kind, d) /\ Step(b, d, "io")
    BY <1>2, <1>12, <2>3, <2>5, <2>8, FrameTaken DEF op
  <2>. QED  BY <1>2, <2>3, <2>7, <2>9 DEF IsOpen, d
<1>13. CASE op = "term" /\ IsOpen(c) /\ c.sock # "closed"
  <2> DEFINE e == [c EXCEPT !.life = "draining", !.timer = TRUE]
  <2>1. d = RunTerm(c)
    BY <1>13 DEF Ran
  <2>2. d = Enqueue(e, "term")
    BY <1>13, <2>1 DEF RunTerm
  <2>3. /\ e \in CSession
        /\ e.sock = c.sock /\ e.life = "draining" /\ e.closer = c.closer
        /\ e.posted = c.posted /\ e.queue = c.queue
        /\ e.pending = c.pending /\ e.inflight = c.inflight
        /\ (e.writing <=> c.writing) /\ (e.bound <=> c.bound)
    BY <1>2, DrainingIs
  <2> HIDE DEF c, d, op, e
  <2>4. /\ d \in CSession
        /\ d.sock = e.sock /\ d.life = e.life /\ d.closer = e.closer
        /\ d.posted = e.posted /\ d.queue = Append(e.queue, "term")
        /\ d.pending = e.pending /\ d.inflight = e.inflight
        /\ d.writing /\ (d.bound <=> e.bound)
    BY <2>2, <2>3, EnqueueIs
  <2>5. Frames(d) = Frames(c) /\ Len(d.queue) = Len(c.queue) + 1 /\ d.queue # <<>>
    BY <1>3, <2>3, <2>4 DEF Frames
  <2>6. kind = "resource" => d.pending = Len(d.queue) + Frames(d)
    <3>1. d.pending = c.pending
      BY <2>3, <2>4
    <3>. QED  BY <1>3, <1>13, <1>6, <2>5, <3>1
  <2>7. b.life = "open" /\ d.life = "draining"
    BY <1>2, <1>13, <2>3, <2>4 DEF IsOpen
  <2>8. ObjInv(kind, d) /\ Step(b, d, "io")
    BY <1>2, <1>13, <2>3, <2>4, <2>5, <2>6, <2>7, FrameTaken DEF op
  <2>. QED  BY <1>2, <2>3, <2>4, <2>7, <2>8 DEF IsOpen, d
<1>14. op \in {"start", "barrier", "close", "rsp", "push", "term"}
  BY <1>1 DEF Ops
<1>. QED
  BY <1>7, <1>8, <1>9, <1>10, <1>11, <1>12, <1>13, <1>14


\* The front frame is written: HandleWrite before it looks at the lifecycle.
Written(c) ==
  [c EXCEPT !.queue = Tail(@), !.writing = Len(c.queue) > 1,
            !.pending = IF kind = "resource" THEN @ - 1 ELSE @]

LEMMA WrittenIs ==
  ASSUME kind \in {"chat", "resource"}, NEW c \in CSession, c.queue # <<>>,
         kind = "resource" => c.pending # 0
  PROVE  LET d == Written(c)
         IN  /\ d \in CSession
             /\ d.sock = c.sock /\ d.life = c.life /\ d.closer = c.closer
             /\ d.posted = c.posted /\ d.queue = Tail(c.queue) /\ d.inflight = c.inflight
             /\ (d.writing <=> Len(c.queue) > 1) /\ (d.bound <=> c.bound)
             /\ kind = "resource" => d.pending = c.pending - 1
<1> DEFINE q == Tail(c.queue)
           p == IF kind = "resource" THEN c.pending - 1 ELSE c.pending
           w == Len(c.queue) > 1
           d == [c EXCEPT !.queue = q, !.writing = w, !.pending = p]
<1>1. q \in Seq({"rsp", "push", "term"}) /\ w \in BOOLEAN
  BY DEF CSession
<1>2. c.pending \in 0..SendLimit
  BY DEF CSession
<1>3. p \in 0..SendLimit
  BY <1>2, SessionsAssumption
<1>4. Written(c) = d
  BY DEF Written
<1>5. kind = "resource" => p = c.pending - 1
  OBVIOUS
<1>6. w <=> Len(c.queue) > 1
  OBVIOUS
<1> HIDE DEF q, p, w
<1>7. d \in CSession
  BY <1>1, <1>3 DEF CSession
<1>8. /\ d.sock = c.sock /\ d.life = c.life /\ d.closer = c.closer
      /\ d.posted = c.posted /\ d.queue = q /\ d.inflight = c.inflight /\ d.pending = p
  BY DEF CSession
<1>9. (d.writing <=> w) /\ (d.bound <=> c.bound)
  BY <1>1 DEF CSession
<1> HIDE DEF d
<1>. QED
  BY <1>4, <1>5, <1>6, <1>7, <1>8, <1>9 DEF q

LEMMA HandleWriteDoes ==
  ASSUME kind \in {"chat", "resource"}, NEW c, ObjInv(kind, c), c.sock # "none", c.writing
  PROVE  LET d == HandleWrite(c)
         IN  /\ ObjInv(kind, d) /\ Step(c, d, "io") /\ d.inflight = c.inflight
             /\ IsOpen(d) => /\ IsOpen(c)
                             /\ Answers(c) = Answers(d) + IF Head(c.queue) = "rsp" THEN 1 ELSE 0
<1> DEFINE e == Written(c)
<1>1. c \in CSession /\ c.queue \in Seq({"rsp", "push", "term"}) /\ c.queue # <<>>
  BY DEF ObjInv, CSession
<1>2. /\ Frames(c) \in Nat /\ Len(c.queue) \in Nat \ {0}
      /\ Len(Tail(c.queue)) = Len(c.queue) - 1
      /\ Len(c.queue) > 1 => Tail(c.queue) # <<>>
  <2>1. Frames(c) \in Nat
    BY <1>1, AnswersNat
  <2> DEFINE q == c.queue
  <2>2. q \in Seq({"rsp", "push", "term"}) /\ q # <<>>
    BY <1>1
  <2> HIDE DEF q
  <2>3. Len(q) \in Nat \ {0} /\ Len(Tail(q)) = Len(q) - 1 /\ (Len(q) > 1 => Tail(q) # <<>>)
    BY <2>2
  <2>. QED  BY <2>1, <2>3 DEF q
<1>3. kind = "resource" => c.pending = Len(c.queue) + Frames(c)
  BY DEF ObjInv
<1>4. kind = "resource" => c.pending # 0
  BY <1>2, <1>3
<1>5. /\ e \in CSession
      /\ e.sock = c.sock /\ e.life = c.life /\ e.closer = c.closer
      /\ e.posted = c.posted /\ e.queue = Tail(c.queue) /\ e.inflight = c.inflight
      /\ (e.writing <=> Len(c.queue) > 1) /\ (e.bound <=> c.bound)
      /\ kind = "resource" => e.pending = c.pending - 1
  BY <1>1, <1>4, WrittenIs
<1>6. HandleWrite(c) = IF e.queue = <<>> /\ c.life = "draining" THEN BeginClose(e, "io") ELSE e
  BY DEF HandleWrite, Written
<1> HIDE DEF e
<1>7. Frames(e) = Frames(c)
  BY <1>5 DEF Frames
<1>8. kind = "resource" => e.pending = Len(e.queue) + Frames(e)
  BY <1>2, <1>3, <1>5, <1>7
<1>9. Step(c, e, "io")
  BY <1>5 DEF Step
<1>10. ObjInv(kind, e)
  <2>1. e.writing => e.queue # <<>>
    BY <1>2, <1>5
  <2>2. kind = "resource" => ~Contains(e.posted, "push")
    BY <1>5 DEF ObjInv
  <2>. QED  BY <1>5, <1>8, <2>1, <2>2 DEF ObjInv, Alive
<1>11. Count(c.queue, {"rsp"}) = Count(e.queue, {"rsp"}) + IF Head(c.queue) = "rsp" THEN 1 ELSE 0
  BY <1>1, <1>5, CountTail
<1>12. Count(e.queue, {"rsp"}) \in Nat
  BY <1>5, CountFinite DEF CSession
<1>13. Answers(c) = Answers(e) + IF Head(c.queue) = "rsp" THEN 1 ELSE 0
  BY <1>2, <1>7, <1>11, <1>12 DEF Answers
<1>14. CASE HandleWrite(c) = e
  BY <1>5, <1>9, <1>10, <1>13, <1>14 DEF IsOpen
<1>15. CASE HandleWrite(c) = BeginClose(e, "io")
  <2> DEFINE d == BeginClose(e, "io")
  <2>1. /\ ObjInv(kind, d) /\ Step(e, d, "io") /\ d.inflight = e.inflight /\ ~Alive(d)
    BY <1>5, <1>10, BeginCloseDoes DEF Threads
  <2> HIDE DEF d
  <2>2. Step(c, d, "io")
    BY <1>5, <2>1 DEF Step, Alive
  <2>. QED  BY <1>5, <1>15, <2>1, <2>2 DEF IsOpen, Alive, d
<1>. QED
  BY <1>6, <1>14, <1>15

\* A failed write: the frames of ResourceServer are forgotten with their budget.
LEMMA HandleWriteErrorDoes ==
  ASSUME kind \in {"chat", "resource"}, NEW c, ObjInv(kind, c), c.sock # "none"
  PROVE  LET d == HandleWriteError(c)
         IN  ObjInv(kind, d) /\ Step(c, d, "io") /\ d.inflight = c.inflight /\ ~IsOpen(d)
<1> DEFINE n == [c EXCEPT !.writing = FALSE]
           e == IF kind = "resource" THEN ClearSendQueue(n) ELSE n
           d == BeginClose(e, "io")
<1>1. c \in CSession
  BY DEF ObjInv
<1>2. n \in CSession
  BY <1>1 DEF CSession
<1>3. /\ n.sock = c.sock /\ n.life = c.life /\ n.closer = c.closer
      /\ n.posted = c.posted /\ n.queue = c.queue
      /\ n.pending = c.pending /\ n.inflight = c.inflight
  BY <1>1 DEF CSession
<1>4. ~n.writing /\ (n.bound <=> c.bound)
  BY <1>1 DEF CSession
<1>5. HandleWriteError(c) = d
  BY DEF HandleWriteError
<1>6. Frames(c) \in Nat /\ Len(c.queue) \in Nat /\ c.pending \in 0..SendLimit
  BY <1>1, AnswersNat DEF CSession
<1> HIDE DEF n
<1>7. /\ e \in CSession
      /\ e.sock = c.sock /\ e.life = c.life /\ e.closer = c.closer
      /\ e.posted = c.posted /\ e.inflight = c.inflight
      /\ ~e.writing /\ (e.bound <=> c.bound)
      /\ kind = "resource" => e.pending = Len(e.queue) + Frames(e)
  <2>1. CASE kind = "chat"
    BY <1>2, <1>3, <1>4, <2>1
  <2>2. CASE kind = "resource"
    <3> DEFINE p == n.pending - Len(n.queue)
               r == [n EXCEPT !.queue = <<>>, !.pending = p]
    <3>1. e = r
      BY <2>2 DEF ClearSendQueue
    <3>2. c.pending = Len(c.queue) + Frames(c)
      BY <2>2 DEF ObjInv
    <3>3. p = Frames(c) /\ p \in 0..SendLimit
      <4>1. p = c.pending - Len(c.queue)
        BY <1>3
      <4> HIDE DEF p
      <4>. QED  BY <1>6, <3>2, <4>1, SessionsAssumption
    <3> HIDE DEF p, e
    <3>4. <<>> \in Seq({"rsp", "push", "term"}) /\ Len(<<>>) = 0
      OBVIOUS
    <3>5. r \in CSession
      BY <1>2, <3>3, <3>4 DEF CSession
    <3>6. /\ r.sock = n.sock /\ r.life = n.life /\ r.closer = n.closer
          /\ r.posted = n.posted /\ r.queue = <<>> /\ r.pending = p /\ r.inflight = n.inflight
      BY <1>2 DEF CSession
    <3>7. (r.writing <=> n.writing) /\ (r.bound <=> n.bound)
      BY <1>2 DEF CSession
    <3> HIDE DEF r
    <3>8. Frames(r) = Frames(c)
      BY <1>3, <3>6 DEF Frames
    <3>9. r.pending = Len(r.queue) + Frames(r)
      BY <1>6, <3>3, <3>4, <3>6, <3>8
    <3>. QED  BY <1>3, <1>4, <3>1, <3>5, <3>6, <3>7, <3>9
  <2>. QED  BY <2>1, <2>2
<1> HIDE DEF e
<1>8. Step(c, e, "io")
  BY <1>7 DEF Step
<1>9. kind = "resource" => ~Contains(e.posted, "push")
  BY <1>7 DEF ObjInv
<1>10. ObjInv(kind, e)
  BY <1>7, <1>9 DEF ObjInv, Alive
<1>11. ObjInv(kind, d) /\ Step(e, d, "io") /\ d.inflight = e.inflight /\ ~Alive(d)
  BY <1>7, <1>10, BeginCloseDoes DEF Threads
<1> HIDE DEF d
<1>12. Step(c, d, "io")
  BY <1>7, <1>11 DEF Step, Alive
<1>. QED
  BY <1>5, <1>7, <1>11, <1>12 DEF IsOpen, Alive

\* What Close() after BeginClose makes of the object.
Shut(b) ==
  LET c == [b EXCEPT !.closer = "none"]
  IN  IF b.closer = "io" THEN CompleteClose(c) ELSE [c EXCEPT !.posted = Append(@, "close")]

LEMMA ShutDoes ==
  ASSUME NEW k, NEW b, ObjInv(k, b), b.closer # "none",
         b.closer # "io" => ~Contains(b.posted, "barrier")
  PROVE  LET d == Shut(b)
         IN  /\ ObjInv(k, d) /\ ~Alive(d) /\ d.closer = "none" /\ d.sock # "none"
             /\ d.inflight = b.inflight
             /\ Contains(d.posted, "barrier") <=> Contains(b.posted, "barrier")
<1> DEFINE c == [b EXCEPT !.closer = "none"]
           d == Shut(b)
<1>1. b \in CSession /\ b.posted \in Seq(Ops) /\ "close" \in Ops
  BY DEF ObjInv, CSession, Ops
<1>2. c \in CSession
  BY <1>1 DEF CSession
<1>3. /\ c.sock = b.sock /\ c.life = b.life /\ c.closer = "none"
      /\ c.posted = b.posted /\ c.queue = b.queue
      /\ c.pending = b.pending /\ c.inflight = b.inflight
  BY <1>1 DEF CSession
<1>4. (c.writing <=> b.writing) /\ (c.bound <=> b.bound)
  BY <1>1 DEF CSession
<1>5. /\ b.life = "closing" /\ b.sock \notin {"none", "closed"}
      /\ b.writing => b.queue # <<>>
      /\ ~Contains(b.posted, "close")
      /\ k = "resource" => b.pending = Len(b.queue) + Frames(b) /\ ~Contains(b.posted, "push")
  BY DEF ObjInv
<1>6. CASE b.closer = "io"
  <2>1. d = CompleteClose(c)
    BY <1>6 DEF Shut
  <2> HIDE DEF c, d
  <2>2. /\ d \in CSession
        /\ d.sock = "closed" /\ d.life = "closed" /\ d.closer = c.closer
        /\ d.posted = c.posted /\ d.queue = c.queue
        /\ d.pending = c.pending /\ d.inflight = c.inflight
        /\ (d.writing <=> c.writing) /\ (d.bound <=> c.bound)
    BY <1>2, <2>1, CompleteCloseIs
  <2>3. d.writing => d.queue # <<>>
    BY <1>3, <1>4, <1>5, <2>2
  <2>4. k = "resource" => d.pending = Len(d.queue) + Frames(d) /\ ~Contains(d.posted, "push")
    BY <1>3, <1>5, <2>2 DEF Frames
  <2>5. ObjInv(k, d)
    BY <1>3, <2>2, <2>3, <2>4 DEF ObjInv, Alive
  <2>. QED  BY <1>3, <2>2, <2>5 DEF Alive, d
<1>7. CASE b.closer # "io"
  <2> DEFINE q == Append(c.posted, "close")
  <2>1. d = [c EXCEPT !.posted = q]
    BY <1>7 DEF Shut
  <2>2. q \in Seq(Ops)
    BY <1>1, <1>3
  <2>3. \A y : Contains(q, y) <=> Contains(b.posted, y) \/ "close" = y
    BY <1>1, <1>3, ContainsAppend
  <2>4. CloseFirst(q)
    BY <1>1, <1>3, <1>7, CloseFirstAppend
  <2>5. Count(q, {"rsp", "term"}) = Count(b.posted, {"rsp", "term"})
    <3>1. Count(b.posted, {"rsp", "term"}) \in Nat
      BY <1>1, CountFinite
    <3>2. Count(q, {"rsp", "term"}) = Count(b.posted, {"rsp", "term"}) + 0
      BY <1>1, <1>3, CountAppend
    <3>. QED  BY <3>1, <3>2
  <2> HIDE DEF c, d, q
  <2>6. /\ d \in CSession
        /\ d.sock = c.sock /\ d.life = c.life /\ d.closer = c.closer
        /\ d.posted = q /\ d.queue = c.queue
        /\ d.pending = c.pending /\ d.inflight = c.inflight
        /\ (d.writing <=> c.writing) /\ (d.bound <=> c.bound)
    BY <1>2, <2>1, <2>2, PostIs
  <2>7. k = "resource" => d.pending = Len(d.queue) + Frames(d) /\ ~Contains(d.posted, "push")
    BY <1>3, <1>5, <2>3, <2>5, <2>6 DEF Frames
  <2>8. d.writing => d.queue # <<>>
    BY <1>3, <1>4, <1>5, <2>6
  <2>9. ~Alive(d)
    BY <1>3, <1>5, <2>6 DEF Alive
  <2>10. ObjInv(k, d)
    BY <1>3, <1>5, <2>4, <2>6, <2>7, <2>8, <2>9 DEF ObjInv
  <2>. QED  BY <1>3, <1>5, <2>3, <2>6, <2>9, <2>10 DEF d
<1>. QED
  BY <1>6, <1>7


-----------------------------------------------------------------------------
(* The workers' queues.                                                    *)

Load == {"login", "request"}

LEMMA OwnIs ==
  ASSUME NEW n, NEW s, NEW t
  PROVE  <<n, t>> \in Own(s) <=> t = s /\ n \in {"login", "request", "file"}
BY DEF Own

LEMMA TasksNat ==
  ASSUME WorkInv, NEW s
  PROVE  /\ Count(logic.q, Own(s)) \in Nat /\ Count(logic.run, Own(s)) \in Nat
         /\ Count(second, Own(s)) \in Nat /\ TasksOf(s) \in Nat
<1>1. /\ logic.q \in Seq(QueueNames \X Known) /\ logic.run \in Seq(RunNames \X Known)
      /\ second \in Seq({"deliver", "file"} \X Known)
  BY DEF WorkInv
<1>2. /\ Count(logic.q, Own(s)) \in Nat /\ Count(logic.run, Own(s)) \in Nat
      /\ Count(second, Own(s)) \in Nat
  BY <1>1, CountFinite
<1>. QED
  BY <1>2 DEF TasksOf

LEMMA KnownSame ==
  ASSUME ses \in [Sessions -> CSession], NEW s \in Sessions, NEW d,
         ses' = [ses EXCEPT ![s] = d], d.sock # "none", ses[s].sock # "none"
  PROVE  Known' = Known
BY DEF Known

\* The tasks of the other sessions stay where they are.
OtherTasks(s) ==
  \A t \in Sessions \ {s} :
    /\ TasksOf(t)' = TasksOf(t)
    /\ Publishing(t)' <=> Publishing(t)
    /\ CleanupOf(t) => CleanupOf(t)'

Settled == Known' = Known /\ kind' = kind /\ stage' = stage

LEMMA NamesSame ==
  ASSUME kind' = kind
  PROVE  QueueNames' = QueueNames /\ RunNames' = RunNames
BY DEF QueueNames, RunNames

LEMMA NoneMoves ==
  ASSUME WorkInv, Settled, logic' = logic, second' = second
  PROVE  /\ WorkInv'
         /\ \A t : /\ TasksOf(t)' = TasksOf(t)
                   /\ Publishing(t)' <=> Publishing(t)
                   /\ CleanupOf(t)' <=> CleanupOf(t)
<1>1. WorkInv'
  BY NamesSame DEF WorkInv, Settled
<1>. QED
  BY <1>1 DEF TasksOf, Publishing, CleanupOf

LEMMA TaskPosted ==
  ASSUME WorkInv, Settled, second' = second, NEW n \in QueueNames, NEW s \in Known,
         stage \notin {"second", "drain", "stopped"},
         logic' = [logic EXCEPT !.q = Append(@, <<n, s>>)]
  PROVE  /\ WorkInv' /\ OtherTasks(s)
         /\ TasksOf(s)' = TasksOf(s) + IF n \in Load THEN 1 ELSE 0
         /\ Publishing(s)' <=> Publishing(s)
         /\ CleanupOf(s) \/ n = "cleanup" => CleanupOf(s)'
<1> DEFINE S == QueueNames \X Known
           x == <<n, s>>
<1>1. logic.q \in Seq(S) /\ logic.run \in Seq(RunNames \X Known) /\ x \in S
  BY DEF WorkInv
<1>2. logic'.q = Append(logic.q, x) /\ logic'.run = logic.run
  BY DEF WorkInv
<1> HIDE DEF S, x
<1>3. logic' \in [q : Seq(S), run : Seq(RunNames \X Known)]
  <2> DEFINE z == Append(logic.q, x)
  <2>1. z \in Seq(S)
    BY <1>1
  <2>2. logic' = [logic EXCEPT !.q = z]
    BY DEF x
  <2>3. logic \in [q : Seq(S), run : Seq(RunNames \X Known)]
    BY DEF WorkInv, S
  <2> HIDE DEF z
  <2>. QED  BY <2>1, <2>2, <2>3
<1>4. \A t : Count(logic'.q, Own(t)) = Count(logic.q, Own(t)) + IF x \in Own(t) THEN 1 ELSE 0
  <2> TAKE t
  <2>. QED  BY <1>1, <1>2, CountAppend
<1>5. \A y : Contains(logic'.q, y) <=> Contains(logic.q, y) \/ x = y
  <2> TAKE y
  <2>. QED  BY <1>1, <1>2, ContainsAppend
<1>6. n # "file"
  BY DEF QueueNames, TaskNames
<1>7. \A t : x \in Own(t) <=> t = s /\ n \in Load
  BY <1>6, OwnIs DEF Load, x
<1>8. \A t : TasksOf(t)' = TasksOf(t) + IF t = s /\ n \in Load THEN 1 ELSE 0
  <2> TAKE t
  <2>1. Count(logic'.q, Own(t)) = Count(logic.q, Own(t)) + IF t = s /\ n \in Load THEN 1 ELSE 0
    BY <1>4, <1>7
  <2>2. /\ Count(logic.q, Own(t)) \in Nat /\ Count(logic.run, Own(t)) \in Nat
        /\ Count(second, Own(t)) \in Nat
    BY TasksNat
  <2>. QED  BY <1>2, <2>1, <2>2 DEF TasksOf
<1>9. \A t : (Publishing(t)' <=> Publishing(t)) /\ (CleanupOf(t) => CleanupOf(t)')
  BY <1>2, <1>5 DEF Publishing, CleanupOf
<1>10. n = "cleanup" => CleanupOf(s)'
  BY <1>5 DEF CleanupOf, x
<1>11. WorkInv'
  BY <1>2, <1>3, NamesSame DEF WorkInv, Settled, S
<1>12. OtherTasks(s)
  <2>1. \A t \in Sessions \ {s} : TasksOf(t) \in Nat
    BY TasksNat
  <2>. QED  BY <1>8, <1>9, <2>1 DEF OtherTasks
<1>. QED
  BY <1>8, <1>9, <1>10, <1>11, <1>12

LEMMA HeadTask ==
  ASSUME WorkInv, logic.q # <<>>
  PROVE  /\ Head(logic.q) = <<Head(logic.q)[1], Head(logic.q)[2]>>
         /\ Head(logic.q)[1] \in QueueNames /\ Head(logic.q)[2] \in Known
         /\ Head(logic.q)[1] \in RunNames /\ Head(logic.q)[1] # "publish"
         /\ Tail(logic.q) \in Seq(QueueNames \X Known)
         /\ stage \notin {"second", "drain", "stopped"}
<1> DEFINE S == QueueNames \X Known
           q == logic.q
<1>1. q \in Seq(S)
  BY DEF WorkInv
<1> HIDE DEF S, q
<1>2. q # <<>> => Head(q) \in S /\ Tail(q) \in Seq(S)
  BY <1>1
<1>3. Head(logic.q) \in QueueNames \X Known /\ Tail(logic.q) \in Seq(QueueNames \X Known)
  BY <1>2 DEF S, q
<1>4. \A n \in QueueNames : n \in RunNames /\ n # "publish"
  BY DEF QueueNames, RunNames
<1>. QED
  BY <1>3, <1>4 DEF WorkInv

\* RunLoop takes the next task.
LEMMA TaskTaken ==
  ASSUME WorkInv, Settled, second' = second, logic.run = <<>>, logic.q # <<>>,
         logic' = [q |-> Tail(logic.q), run |-> <<Head(logic.q)>>]
  PROVE  /\ WorkInv'
         /\ \A t : /\ TasksOf(t)' = TasksOf(t)
                   /\ ~Publishing(t)' /\ ~Publishing(t)
                   /\ CleanupOf(t) => CleanupOf(t)'
<1> DEFINE S == QueueNames \X Known
           x == Head(logic.q)
<1>1. logic.q \in Seq(S)
  BY DEF WorkInv
<1>2. /\ x = <<x[1], x[2]>> /\ x[1] \in RunNames /\ x[2] \in Known /\ x[1] # "publish"
      /\ Tail(logic.q) \in Seq(S) /\ stage \notin {"second", "drain", "stopped"}
  BY HeadTask
<1>3. logic'.q = Tail(logic.q) /\ logic'.run = <<x>>
  OBVIOUS
<1>4. \A t : Count(logic.q, Own(t)) = Count(logic'.q, Own(t)) + IF x \in Own(t) THEN 1 ELSE 0
  BY <1>1, <1>3, CountTail
<1>5. \A t : Count(logic'.run, Own(t)) = IF x \in Own(t) THEN 1 ELSE 0
  BY <1>3, CountOne
<1>6. \A t : Count(logic.run, Own(t)) = 0
  BY CountEmpty
<1>7. \A y : Contains(logic.q, y) <=> x = y \/ Contains(logic'.q, y)
  BY <1>1, <1>3, ContainsTail
<1>8. x \in RunNames \X Known
  BY <1>2
<1>9. \A t : Count(logic'.q, Own(t)) \in Nat
  BY <1>2, <1>3, CountFinite
<1> HIDE DEF S, x
<1>10. <<x>> \in Seq(RunNames \X Known)
  BY <1>8
<1>11. WorkInv'
  <2>1. logic' \in [q : Seq(S), run : Seq(RunNames \X Known)]
    BY <1>2, <1>10 DEF x
  <2>. QED  BY <1>2, <1>3, <1>8, <2>1, NamesSame DEF WorkInv, Settled, S
<1>12. \A t : TasksOf(t)' = TasksOf(t)
  <2> TAKE t
  <2>1. Count(second, Own(t)) \in Nat
    BY TasksNat
  <2>. QED  BY <1>4, <1>5, <1>6, <1>9, <2>1 DEF TasksOf
<1>13. \A t : ~Publishing(t)' /\ ~Publishing(t)
  <2> TAKE t
  <2>1. x # <<"publish", t>>
    BY <1>2
  <2>2. Head(<<x>>) = x
    OBVIOUS
  <2>. QED  BY <1>3, <2>1, <2>2 DEF Publishing
<1>14. \A t : CleanupOf(t) => CleanupOf(t)'
  <2> SUFFICES ASSUME NEW t, CleanupOf(t)
               PROVE  CleanupOf(t)'
    OBVIOUS
  <2>1. Contains(logic.q, <<"cleanup", t>>)
    BY DEF CleanupOf
  <2>. QED  BY <1>3, <1>7, <2>1 DEF CleanupOf
<1>. QED
  BY <1>11, <1>12, <1>13, <1>14

\* RunLoop drops a request of a session that is not open.
LEMMA TaskDropped ==
  ASSUME WorkInv, Settled, second' = second, logic.run = <<>>, logic.q # <<>>,
         NEW n \in Load, NEW s, Head(logic.q) = <<n, s>>,
         logic' = [q |-> Tail(logic.q), run |-> <<>>]
  PROVE  /\ WorkInv' /\ OtherTasks(s)
         /\ TasksOf(s) = TasksOf(s)' + 1 /\ TasksOf(s)' \in Nat
         /\ ~Publishing(s)' /\ ~Publishing(s)
         /\ CleanupOf(s) => CleanupOf(s)'
<1> DEFINE S == QueueNames \X Known
           x == <<n, s>>
<1>1. logic.q \in Seq(S)
  BY DEF WorkInv
<1>2. Tail(logic.q) \in Seq(S) /\ stage \notin {"second", "drain", "stopped"}
  BY HeadTask
<1>3. logic'.q = Tail(logic.q) /\ logic'.run = <<>>
  OBVIOUS
<1>4. \A t : Count(logic.q, Own(t)) = Count(logic'.q, Own(t)) + IF x \in Own(t) THEN 1 ELSE 0
  BY <1>1, <1>3, CountTail
<1>5. \A t : Count(logic'.run, Own(t)) = 0 /\ Count(logic.run, Own(t)) = 0
  BY <1>3, CountEmpty
<1>6. \A y : Contains(logic.q, y) <=> x = y \/ Contains(logic'.q, y)
  BY <1>1, <1>3, ContainsTail
<1>7. \A t : x \in Own(t) <=> t = s
  BY OwnIs DEF Load
<1>8. \A t : Count(logic'.q, Own(t)) \in Nat
  BY <1>2, <1>3, CountFinite
<1>9. \A t : x # <<"cleanup", t>>
  BY DEF Load
<1> HIDE DEF S, x
<1>10. WorkInv'
  <2>1. logic' \in [q : Seq(S), run : Seq(RunNames \X Known)]
    BY <1>2
  <2>. QED  BY <1>2, <1>3, <2>1, NamesSame DEF WorkInv, Settled, S
<1>11. \A t : TasksOf(t)' \in Nat /\ TasksOf(t) = TasksOf(t)' + IF t = s THEN 1 ELSE 0
  <2> TAKE t
  <2>1. Count(second, Own(t)) \in Nat
    BY TasksNat
  <2>. QED  BY <1>4, <1>5, <1>7, <1>8, <2>1 DEF TasksOf
<1>12. \A t : ~Publishing(t)' /\ ~Publishing(t) /\ (CleanupOf(t) => CleanupOf(t)')
  BY <1>3, <1>6, <1>9 DEF Publishing, CleanupOf
<1>13. OtherTasks(s)
  BY <1>11, <1>12 DEF OtherTasks
<1>. QED
  BY <1>10, <1>11, <1>12, <1>13


\* A task that a logic worker runs is over; it may leave one for the workers
\* behind.
LEMMA TaskOver ==
  ASSUME WorkInv, Settled, NEW n, NEW s, logic.run = <<<<n, s>>>>,
         logic' = [logic EXCEPT !.run = <<>>], second' = second
  PROVE  /\ WorkInv' /\ OtherTasks(s)
         /\ TasksOf(s) = TasksOf(s)' + IF n \in Load THEN 1 ELSE 0
         /\ TasksOf(s)' \in Nat
         /\ ~Publishing(s)' /\ (Publishing(s) <=> n = "publish")
         /\ CleanupOf(s) /\ n # "cleanup" => CleanupOf(s)'
         /\ n \in RunNames /\ s \in Known /\ stage \notin {"second", "drain", "stopped"}
<1> DEFINE x == <<n, s>>
<1>1. x \in RunNames \X Known /\ stage \notin {"second", "drain", "stopped"}
  BY DEF WorkInv
<1>2. logic'.q = logic.q /\ logic'.run = <<>>
  BY DEF WorkInv
<1>3. \A t : Count(logic.run, Own(t)) = (IF x \in Own(t) THEN 1 ELSE 0) /\ Count(logic'.run, Own(t)) = 0
  BY <1>2, CountOne, CountEmpty
<1>4. n # "file"
  BY <1>1 DEF RunNames, TaskNames
<1>5. \A t : x \in Own(t) <=> t = s /\ n \in Load
  BY <1>4, OwnIs DEF Load
<1>6. \A t : Publishing(t) <=> x = <<"publish", t>>
  BY DEF Publishing
<1>7. \A t : logic.run = <<<<"cleanup", t>>>> <=> x = <<"cleanup", t>>
  OBVIOUS
<1>8. \A t : (x = <<"publish", t>> <=> t = s /\ n = "publish")
             /\ (x = <<"cleanup", t>> <=> t = s /\ n = "cleanup")
  OBVIOUS
<1>9. WorkInv'
  <2>1. <<>> \in Seq(RunNames \X Known)
    OBVIOUS
  <2>2. logic' \in [q : Seq(QueueNames \X Known), run : Seq(RunNames \X Known)]
    BY <2>1 DEF WorkInv
  <2>. QED  BY <1>1, <1>2, <2>2, NamesSame DEF WorkInv, Settled
<1> HIDE DEF x
<1>10. \A t : TasksOf(t)' \in Nat /\ TasksOf(t) = TasksOf(t)' + IF t = s /\ n \in Load THEN 1 ELSE 0
  <2> TAKE t
  <2>1. Count(logic.q, Own(t)) \in Nat /\ Count(second, Own(t)) \in Nat
    BY TasksNat
  <2>. QED  BY <1>2, <1>3, <1>5, <2>1 DEF TasksOf
<1>11. \A t : ~Publishing(t)' /\ (Publishing(t) <=> t = s /\ n = "publish")
  BY <1>2, <1>6, <1>8 DEF Publishing
<1>12. \A t : CleanupOf(t) /\ ~(t = s /\ n = "cleanup") => CleanupOf(t)'
  BY <1>2, <1>7, <1>8 DEF CleanupOf
<1>13. OtherTasks(s)
  BY <1>10, <1>11, <1>12 DEF OtherTasks
<1>. QED
  BY <1>1, <1>9, <1>10, <1>11, <1>12, <1>13 DEF x

LEMMA TaskPassed ==
  ASSUME WorkInv, Settled, NEW n, NEW s, logic.run = <<<<n, s>>>>,
         logic' = [logic EXCEPT !.run = <<>>],
         NEW m \in {"deliver", "file"}, second' = Append(second, <<m, s>>)
  PROVE  /\ WorkInv' /\ OtherTasks(s)
         /\ TasksOf(s) = TasksOf(s)' + (IF n \in Load THEN 1 ELSE 0) - IF m = "file" THEN 1 ELSE 0
         /\ TasksOf(s)' \in Nat
         /\ ~Publishing(s)' /\ (Publishing(s) <=> n = "publish")
         /\ CleanupOf(s) /\ n # "cleanup" => CleanupOf(s)'
<1> DEFINE x == <<n, s>>
           y == <<m, s>>
           S == {"deliver", "file"} \X Known
<1>1. x \in RunNames \X Known /\ stage \notin {"second", "drain", "stopped"}
  BY DEF WorkInv
<1>2. logic'.q = logic.q /\ logic'.run = <<>>
  BY DEF WorkInv
<1>3. \A t : Count(logic.run, Own(t)) = (IF x \in Own(t) THEN 1 ELSE 0) /\ Count(logic'.run, Own(t)) = 0
  BY <1>2, CountOne, CountEmpty
<1>4. n # "file"
  BY <1>1 DEF RunNames, TaskNames
<1>5. \A t : (x \in Own(t) <=> t = s /\ n \in Load) /\ (y \in Own(t) <=> t = s /\ m = "file")
  BY <1>4, OwnIs DEF Load
<1>6. \A t : Publishing(t) <=> x = <<"publish", t>>
  BY DEF Publishing
<1>7. \A t : logic.run = <<<<"cleanup", t>>>> <=> x = <<"cleanup", t>>
  OBVIOUS
<1>8. \A t : (x = <<"publish", t>> <=> t = s /\ n = "publish")
             /\ (x = <<"cleanup", t>> <=> t = s /\ n = "cleanup")
  OBVIOUS
<1>9. second \in Seq(S) /\ y \in S
  BY <1>1 DEF WorkInv
<1> HIDE DEF S, y
<1>10. second' \in Seq(S)
  BY <1>9 DEF y
<1>11. \A t : Count(second', Own(t)) = Count(second, Own(t)) + IF y \in Own(t) THEN 1 ELSE 0
  <2> TAKE t
  <2>1. second' = Append(second, y)
    BY DEF y
  <2>. QED  BY <1>9, <2>1, CountAppend
<1>12. WorkInv'
  <2>1. <<>> \in Seq(RunNames \X Known)
    OBVIOUS
  <2>2. logic' \in [q : Seq(QueueNames \X Known), run : Seq(RunNames \X Known)]
    BY <2>1 DEF WorkInv
  <2>. QED  BY <1>1, <1>2, <1>10, <2>2, NamesSame DEF WorkInv, Settled, S
<1> HIDE DEF x
<1>13. \A t : /\ TasksOf(t)' \in Nat
              /\ TasksOf(t) = TasksOf(t)' + (IF t = s /\ n \in Load THEN 1 ELSE 0)
                                          - IF t = s /\ m = "file" THEN 1 ELSE 0
  <2> TAKE t
  <2>1. Count(logic.q, Own(t)) \in Nat /\ Count(second, Own(t)) \in Nat
    BY TasksNat
  <2>2. /\ Count(logic.run, Own(t)) = IF t = s /\ n \in Load THEN 1 ELSE 0
        /\ Count(logic'.run, Own(t)) = 0
        /\ Count(second', Own(t)) = Count(second, Own(t)) + IF t = s /\ m = "file" THEN 1 ELSE 0
    BY <1>3, <1>5, <1>11
  <2>. QED  BY <1>2, <2>1, <2>2 DEF TasksOf
<1>14. \A t : ~Publishing(t)' /\ (Publishing(t) <=> t = s /\ n = "publish")
  BY <1>2, <1>6, <1>8 DEF Publishing
<1>15. \A t : CleanupOf(t) /\ ~(t = s /\ n = "cleanup") => CleanupOf(t)'
  BY <1>2, <1>7, <1>8 DEF CleanupOf
<1>16. OtherTasks(s)
  BY <1>13, <1>14, <1>15 DEF OtherTasks
<1>. QED
  BY <1>12, <1>13, <1>14, <1>15, <1>16

\* LoginHandler has bound the session and goes on to publish it.
LEMMA TaskBinds ==
  ASSUME WorkInv, Settled, NEW s, logic.run = <<<<"login", s>>>>, kind = "chat",
         logic' = [logic EXCEPT !.run = <<<<"publish", s>>>>], second' = second
  PROVE  /\ WorkInv' /\ OtherTasks(s)
         /\ TasksOf(s) = TasksOf(s)' + 1 /\ TasksOf(s)' \in Nat
         /\ Publishing(s)' /\ ~Publishing(s)
         /\ CleanupOf(s) => CleanupOf(s)'
<1> DEFINE x == <<"login", s>>
           y == <<"publish", s>>
<1>1. x \in RunNames \X Known /\ stage \notin {"second", "drain", "stopped"}
  BY DEF WorkInv
<1>2. logic'.q = logic.q /\ logic'.run = <<y>>
  BY DEF WorkInv
<1>3. \A t : /\ Count(logic.run, Own(t)) = IF x \in Own(t) THEN 1 ELSE 0
             /\ Count(logic'.run, Own(t)) = IF y \in Own(t) THEN 1 ELSE 0
  BY <1>2, CountOne
<1>4. \A t : (x \in Own(t) <=> t = s) /\ y \notin Own(t)
  BY OwnIs
<1>5. \A t : ~Publishing(t) /\ (Publishing(t)' <=> t = s)
  BY <1>2 DEF Publishing
<1>6. \A t : CleanupOf(t) => CleanupOf(t)'
  BY <1>2 DEF CleanupOf
<1>7. y \in RunNames \X Known
  BY <1>1 DEF RunNames, TaskNames
<1>8. WorkInv'
  <2>1. <<y>> \in Seq(RunNames \X Known)
    BY <1>7
  <2>2. logic' \in [q : Seq(QueueNames \X Known), run : Seq(RunNames \X Known)]
    BY <2>1 DEF WorkInv
  <2>. QED  BY <1>1, <1>2, <1>7, <2>2, NamesSame DEF WorkInv, Settled
<1> HIDE DEF x, y
<1>9. \A t : TasksOf(t)' \in Nat /\ TasksOf(t) = TasksOf(t)' + IF t = s THEN 1 ELSE 0
  <2> TAKE t
  <2>1. Count(logic.q, Own(t)) \in Nat /\ Count(second, Own(t)) \in Nat
    BY TasksNat
  <2>. QED  BY <1>2, <1>3, <1>4, <2>1 DEF TasksOf
<1>10. OtherTasks(s)
  BY <1>5, <1>6, <1>9 DEF OtherTasks
<1>. QED
  BY <1>5, <1>6, <1>8, <1>9, <1>10

\* A worker behind the logic workers takes its next task.
LEMMA SecondTaken ==
  ASSUME WorkInv, Settled, logic' = logic, second # <<>>, second' = Tail(second),
         NEW s, NEW m, Head(second) = <<m, s>>
  PROVE  /\ m \in {"deliver", "file"} /\ s \in Known
         /\ stage \notin {"drain", "stopped"}
         /\ WorkInv' /\ OtherTasks(s)
         /\ TasksOf(s) = TasksOf(s)' + IF m = "file" THEN 1 ELSE 0
         /\ TasksOf(s)' \in Nat
         /\ Publishing(s)' <=> Publishing(s)
         /\ CleanupOf(s) => CleanupOf(s)'
<1> DEFINE S == {"deliver", "file"} \X Known
           x == <<m, s>>
<1>1. second \in Seq(S) /\ stage \notin {"drain", "stopped"}
  BY DEF WorkInv
<1> HIDE DEF S
<1>2. x \in S /\ second' \in Seq(S)
  BY <1>1
<1>3. m \in {"deliver", "file"} /\ s \in Known
  BY <1>2 DEF S
<1>4. \A t : Count(second, Own(t)) = Count(second', Own(t)) + IF x \in Own(t) THEN 1 ELSE 0
  <2> TAKE t
  <2>. QED  BY <1>1, CountTail
<1>5. \A t : Count(second', Own(t)) \in Nat
  BY <1>2, CountFinite
<1>6. \A t : x \in Own(t) <=> t = s /\ m = "file"
  BY <1>3, OwnIs
<1>7. WorkInv'
  BY <1>1, <1>2, NamesSame DEF WorkInv, Settled, S
<1> HIDE DEF x
<1>8. \A t : TasksOf(t)' \in Nat /\ TasksOf(t) = TasksOf(t)' + IF t = s /\ m = "file" THEN 1 ELSE 0
  <2> TAKE t
  <2>1. Count(logic.q, Own(t)) \in Nat /\ Count(logic.run, Own(t)) \in Nat
    BY TasksNat
  <2>. QED  BY <1>4, <1>5, <1>6, <2>1 DEF TasksOf
<1>9. \A t : (Publishing(t)' <=> Publishing(t)) /\ (CleanupOf(t) => CleanupOf(t)')
  BY DEF Publishing, CleanupOf
<1>10. OtherTasks(s)
  BY <1>8, <1>9 DEF OtherTasks
<1>. QED
  BY <1>1, <1>3, <1>7, <1>8, <1>9, <1>10


-----------------------------------------------------------------------------
(* One session at a time.                                                  *)

LEMMA OtherKept ==
  ASSUME NEW t \in Sessions, EachInv(t), ses'[t] = ses[t], kind' = kind, stage' = stage,
         t \in table' <=> t \in table, t \in online' <=> t \in online,
         t \in toClose' <=> t \in toClose,
         owed'[t] = owed[t], t \in unanswered => t \in unanswered',
         TasksOf(t)' = TasksOf(t), Publishing(t)' <=> Publishing(t),
         CleanupOf(t) => CleanupOf(t)'
  PROVE  EachInv(t)'
<1>1. PlaceInv(t)'
  BY DEF EachInv, PlaceInv
<1>2. QuotaInv(t)'
  BY DEF EachInv, QuotaInv
<1>3. OnlineInv(t)'
  BY DEF EachInv, OnlineInv
<1>4. OwedInv(t)'
  <2>1. Pub(t)' = Pub(t)
    BY DEF Pub
  <2>. QED  BY <2>1 DEF EachInv, OwedInv
<1>. QED
  BY <1>1, <1>2, <1>3, <1>4 DEF EachInv

LEMMA PlaceStep ==
  ASSUME NEW s \in Sessions, PlaceInv(s), NEW d, ses'[s] = d,
         ses[s].sock # "none", NEW thread \in Threads, Step(ses[s], d, thread),
         UNCHANGED <<stage, toClose, table>>
  PROVE  PlaceInv(s)'
<1> DEFINE c == ses[s]
<1>1. /\ s \in table => Alive(c) \/ c.closer # "none"
      /\ Alive(c) => s \in table /\ (stage = "run" \/ (stage = "closing" /\ s \in toClose))
      /\ stage \notin {"run", "closing"} => c.closer # "main"
      /\ stage \in {"second", "drain", "stopped"} => c.closer # "logic"
      /\ stage \in {"drain", "stopped"} => c.closer # "second"
      /\ stage \notin {"drain", "stopped"} => ~Contains(c.posted, "barrier")
      /\ stage = "drain" /\ c.life # "closed" => Contains(c.posted, "barrier")
      /\ stage = "stopped" => c.life = "closed"
  BY DEF PlaceInv
<1>2. /\ d.sock # "none"
      /\ \/ d.life = c.life /\ d.closer = c.closer
         \/ Alive(c) /\ d.life = "closing" /\ d.closer = thread
         \/ c.life = "open" /\ d.life = "draining" /\ d.closer = c.closer
         \/ ~Alive(c) /\ c.closer = "none" /\ d.life = "closed" /\ d.closer = "none"
      /\ Contains(d.posted, "barrier") => Contains(c.posted, "barrier")
      /\ Contains(c.posted, "barrier") => Contains(d.posted, "barrier") \/ d.life = "closed"
  BY DEF Step
<1>3. thread # "none"
  BY DEF Threads
<1> HIDE DEF c
<1>4. /\ s \in table => Alive(d) \/ d.closer # "none"
      /\ Alive(d) => Alive(c)
  BY <1>1, <1>2, <1>3 DEF Alive
<1>5. Alive(d) => s \in table /\ (stage = "run" \/ (stage = "closing" /\ s \in toClose))
  BY <1>1, <1>4
<1>6. /\ stage \notin {"run", "closing"} => d.closer # "main"
      /\ stage \in {"second", "drain", "stopped"} => d.closer # "logic"
      /\ stage \in {"drain", "stopped"} => d.closer # "second"
  BY <1>1, <1>2
<1>7. /\ stage \notin {"drain", "stopped"} => ~Contains(d.posted, "barrier")
      /\ stage = "drain" /\ d.life # "closed" => Contains(d.posted, "barrier")
      /\ stage = "stopped" => d.life = "closed"
  BY <1>1, <1>2 DEF Alive
<1>. QED
  BY <1>2, <1>4, <1>5, <1>6, <1>7 DEF PlaceInv

LEMMA OnlineStep ==
  ASSUME NEW s \in Sessions, OnlineInv(s), NEW d, ses'[s] = d, kind' = kind,
         NEW thread \in Threads, Step(ses[s], d, thread),
         s \in online' => s \in online \/ Publishing(s),
         Publishing(s)' => Publishing(s) \/ (kind = "chat" /\ d.bound /\ Alive(d)),
         CleanupOf(s) => CleanupOf(s)'
  PROVE  OnlineInv(s)'
<1> DEFINE c == ses[s]
<1>1. s \in online \/ Publishing(s) =>
        kind = "chat" /\ c.bound /\ (Alive(c) \/ c.closer # "none" \/ CleanupOf(s))
  BY DEF OnlineInv
<1>2. /\ c.bound => d.bound
      /\ Alive(c) \/ c.closer # "none" => Alive(d) \/ d.closer # "none"
  BY DEF Step, Alive, Threads
<1> HIDE DEF c
<1>3. s \in online' \/ Publishing(s)' =>
        kind = "chat" /\ d.bound /\ (Alive(d) \/ d.closer # "none" \/ CleanupOf(s)')
  BY <1>1, <1>2
<1>. QED
  BY <1>3 DEF OnlineInv

LEMMA OneStep ==
  ASSUME IInv, NEW s \in Sessions, NEW d, ses' = [ses EXCEPT ![s] = d], ObjInv(kind, d),
         UNCHANGED <<kind, stage, refused>>,
         toClose' = toClose \/ toClose' = toClose \ {s},
         table' = table \/ table' = table \cup {s} \/ table' = table \ {s},
         online' = online \/ online' = online \cup {s} \/ online' = online \ {s},
         owed' \in [Sessions -> Nat], \A t \in Sessions \ {s} : owed'[t] = owed[t],
         unanswered \subseteq unanswered',
         WorkInv', OtherTasks(s), EachInv(s)'
  PROVE  IInv'
<1>1. /\ BaseInv /\ ses \in [Sessions -> CSession]
      /\ \A t \in Sessions : ObjInv(kind, ses[t]) /\ EachInv(t)
  BY DEF IInv, BaseInv
<1>2. d \in CSession
  BY DEF ObjInv
<1>3. ses' \in [Sessions -> CSession] /\ ses'[s] = d /\ \A t \in Sessions \ {s} : ses'[t] = ses[t]
  BY <1>1, <1>2
<1>4. BaseInv'
  BY <1>1, <1>3 DEF BaseInv
<1>5. \A t \in Sessions : ObjInv(kind', ses'[t])
  BY <1>1, <1>3
<1>6. \A t \in Sessions \ {s} : EachInv(t)'
  <2> TAKE t \in Sessions \ {s}
  <2>1. /\ t \in table' <=> t \in table
        /\ t \in online' <=> t \in online
        /\ t \in toClose' <=> t \in toClose
        /\ t \in unanswered => t \in unanswered'
    OBVIOUS
  <2>2. TasksOf(t)' = TasksOf(t) /\ (Publishing(t)' <=> Publishing(t)) /\ (CleanupOf(t) => CleanupOf(t)')
    BY DEF OtherTasks
  <2>3. EachInv(t)
    BY <1>1
  <2>. QED  BY <1>3, <2>1, <2>2, <2>3, OtherKept
<1>7. \A t \in Sessions : EachInv(t)'
  BY <1>6
<1>. QED
  BY <1>4, <1>5, <1>7 DEF IInv

\* What a method does on `thread', with a step of the workers' queues.
LEMMA SessionStep ==
  ASSUME IInv, NEW s \in Sessions, NEW d, NEW thread \in Threads,
         ses' = [ses EXCEPT ![s] = d], ses[s].sock # "none",
         ObjInv(kind, d), Step(ses[s], d, thread),
         UNCHANGED <<kind, stage, toClose, table, refused>>,
         WorkInv', OtherTasks(s), TasksOf(s)' \in Nat,
         online' = online \/ (online' = online \cup {s} /\ Publishing(s)),
         Publishing(s)' => Publishing(s) \/ (kind = "chat" /\ d.bound /\ Alive(d)),
         CleanupOf(s) => CleanupOf(s)',
         owed' \in [Sessions -> Nat], \A t \in Sessions \ {s} : owed'[t] = owed[t],
         unanswered \subseteq unanswered',
         kind = "resource" => d.inflight + TasksOf(s) = ses[s].inflight + TasksOf(s)',
         IsOpen(d) => IsOpen(ses[s]),
         IsOpen(d) /\ s \notin unanswered' =>
           \/ owed'[s] = 0
           \/ owed'[s] + TasksOf(s) + Pub(s) + Answers(ses[s])
                <= owed[s] + TasksOf(s)' + Pub(s)' + Answers(d)
  PROVE  IInv'
<1>1. /\ BaseInv /\ WorkInv /\ EachInv(s) /\ ObjInv(kind, ses[s])
      /\ ses \in [Sessions -> CSession] /\ owed \in [Sessions -> Nat]
  BY DEF IInv, BaseInv
<1>2. ses'[s] = d
  BY <1>1
<1>3. PlaceInv(s)'
  BY <1>1, <1>2, PlaceStep DEF EachInv
<1>4. OnlineInv(s)'
  <2>1. s \in online' => s \in online \/ Publishing(s)
    OBVIOUS
  <2>. QED  BY <1>1, <1>2, <2>1, OnlineStep DEF EachInv
<1>5. QuotaInv(s)'
  <2> SUFFICES ASSUME kind = "resource"
               PROVE  d.inflight = TasksOf(s)'
    BY <1>2 DEF QuotaInv
  <2>1. ses[s].inflight = TasksOf(s)
    BY <1>1 DEF EachInv, QuotaInv
  <2>2. TasksOf(s) \in Nat
    BY <1>1, TasksNat
  <2>3. d \in CSession
    BY DEF ObjInv
  <2>4. d.inflight \in Nat
    BY <2>3, SessionsAssumption DEF CSession
  <2>. QED  BY <2>1, <2>2, <2>4
<1>6. OwedInv(s)'
  <2> SUFFICES ASSUME IsOpen(d), s \notin unanswered'
               PROVE  owed'[s] <= TasksOf(s)' + Pub(s)' + Answers(d)
    BY <1>2 DEF OwedInv
  <2>1. owed[s] <= TasksOf(s) + Pub(s) + Answers(ses[s])
    BY <1>1 DEF EachInv, OwedInv
  <2>2. TasksOf(s) \in Nat /\ Pub(s) \in Nat /\ Pub(s)' \in Nat
    BY <1>1, TasksNat DEF Pub
  <2>3. Answers(ses[s]) \in Nat /\ Answers(d) \in Nat
    <3>1. ses[s] \in CSession /\ d \in CSession
      BY <1>1 DEF ObjInv
    <3>. QED  BY <3>1, AnswersNat
  <2>4. owed[s] \in Nat /\ owed'[s] \in Nat
    BY <1>1
  <2>. QED  BY <2>1, <2>2, <2>3, <2>4
<1>7. EachInv(s)'
  BY <1>3, <1>4, <1>5, <1>6 DEF EachInv
<1>. QED
  BY <1>7, OneStep

\* The same when the workers' queues do not change.
LEMMA IoSessionStep ==
  ASSUME IInv, NEW s \in Sessions, NEW d, NEW thread \in Threads,
         ses' = [ses EXCEPT ![s] = d], ses[s].sock # "none",
         ObjInv(kind, d), Step(ses[s], d, thread), d.inflight = ses[s].inflight,
         UNCHANGED <<kind, stage, toClose, table, refused, logic, second, online>>,
         owed' \in [Sessions -> Nat], \A t \in Sessions \ {s} : owed'[t] = owed[t],
         unanswered \subseteq unanswered',
         IsOpen(d) => IsOpen(ses[s]),
         IsOpen(d) /\ s \notin unanswered' =>
           owed'[s] = 0 \/ owed'[s] + Answers(ses[s]) <= owed[s] + Answers(d)
  PROVE  IInv'
<1>1. /\ WorkInv /\ ses \in [Sessions -> CSession] /\ owed \in [Sessions -> Nat]
      /\ ObjInv(kind, ses[s])
  BY DEF IInv, BaseInv
<1>2. d.sock # "none"
  BY DEF Step
<1>3. Settled
  BY <1>1, <1>2, KnownSame DEF Settled
<1>4. /\ WorkInv'
      /\ \A t : /\ TasksOf(t)' = TasksOf(t)
                /\ Publishing(t)' <=> Publishing(t)
                /\ CleanupOf(t)' <=> CleanupOf(t)
  BY <1>1, <1>3, NoneMoves
<1>5. OtherTasks(s)
  BY <1>4 DEF OtherTasks
<1>6. TasksOf(s) \in Nat /\ Pub(s) \in Nat /\ Pub(s)' = Pub(s)
  BY <1>1, <1>4, TasksNat DEF Pub
<1>7. d \in CSession /\ ses[s] \in CSession
  BY <1>1 DEF ObjInv
<1>8. Answers(d) \in Nat /\ Answers(ses[s]) \in Nat /\ owed[s] \in Nat /\ owed'[s] \in Nat
  BY <1>1, <1>7, AnswersNat
<1>9. IsOpen(d) /\ s \notin unanswered' =>
        \/ owed'[s] = 0
        \/ owed'[s] + TasksOf(s) + Pub(s) + Answers(ses[s])
             <= owed[s] + TasksOf(s)' + Pub(s)' + Answers(d)
  <2>1. TasksOf(s)' = TasksOf(s)
    BY <1>4
  <2>. QED  BY <1>6, <1>8, <2>1
<1>10. kind = "resource" => d.inflight + TasksOf(s) = ses[s].inflight + TasksOf(s)'
  BY <1>4
<1>11. /\ TasksOf(s)' \in Nat
       /\ Publishing(s)' => Publishing(s)
       /\ CleanupOf(s) => CleanupOf(s)'
  BY <1>4, <1>6
<1>. QED
  BY <1>4, <1>5, <1>9, <1>10, <1>11, SessionStep


LEMMA Basics ==
  ASSUME IInv, NEW s \in Sessions
  PROVE  /\ kind \in {"chat", "resource"} /\ WorkInv
         /\ ses \in [Sessions -> CSession] /\ ses[s] \in CSession
         /\ owed \in [Sessions -> Nat] /\ owed[s] \in Nat
         /\ ObjInv(kind, ses[s]) /\ EachInv(s)
         /\ Answers(ses[s]) \in Nat
<1>1. /\ kind \in Kinds /\ WorkInv /\ ses \in [Sessions -> CSession]
      /\ owed \in [Sessions -> Nat] /\ ObjInv(kind, ses[s]) /\ EachInv(s)
  BY DEF IInv, BaseInv
<1>2. ses[s] \in CSession
  BY <1>1 DEF ObjInv
<1>3. Answers(ses[s]) \in Nat
  BY <1>2, AnswersNat
<1>. QED
  BY <1>1, <1>2, <1>3, SessionsAssumption

-----------------------------------------------------------------------------
(* The steps of the main thread and of the IO threads.                     *)

\* A step that leaves the session closing, or no worse than it was.
LEMMA QuietStep ==
  ASSUME IInv, NEW s \in Sessions, NEW d, NEW thread \in Threads,
         ses' = [ses EXCEPT ![s] = d], ses[s].sock # "none",
         ObjInv(kind, d), Step(ses[s], d, thread), d.inflight = ses[s].inflight,
         UNCHANGED <<kind, stage, toClose, table, refused, logic, second, online,
                     owed, unanswered>>,
         IsOpen(d) => IsOpen(ses[s]) /\ Answers(d) = Answers(ses[s])
  PROVE  IInv'
<1>1. owed \in [Sessions -> Nat] /\ owed[s] \in Nat /\ Answers(ses[s]) \in Nat
  BY Basics
<1>2. IsOpen(d) => owed'[s] + Answers(ses[s]) <= owed[s] + Answers(d)
  BY <1>1
<1>. QED
  BY <1>1, <1>2, IoSessionStep

LEMMA HeartbeatExpiredStep ==
  ASSUME IInv, NEW s \in Sessions, HeartbeatExpired(s)
  PROVE  IInv'
<1> DEFINE d == BeginClose(ses[s], "main")
<1>1. ObjInv(kind, ses[s]) /\ EachInv(s)
  BY Basics
<1>2. /\ ses' = [ses EXCEPT ![s] = d] /\ s \in table
      /\ UNCHANGED <<kind, stage, toClose, table, refused, logic, second, online, owed, unanswered>>
  BY DEF HeartbeatExpired, history
<1>3. ses[s].sock # "none"
  BY <1>1, <1>2 DEF EachInv, PlaceInv
<1>4. "main" \in Threads
  BY DEF Threads
<1>5. ObjInv(kind, d) /\ Step(ses[s], d, "main") /\ d.inflight = ses[s].inflight /\ ~Alive(d)
  BY <1>1, <1>3, <1>4, BeginCloseDoes
<1> HIDE DEF d
<1>. QED
  BY <1>2, <1>3, <1>4, <1>5, QuietStep DEF IsOpen, Alive

LEMMA AsyncReadStep ==
  ASSUME IInv, NEW s \in Sessions, NEW f \in {"login", "request", "bad", "other"}, AsyncRead(s, f)
  PROVE  IInv'
<1> DEFINE c == ses[s]
           g == IF IsOpen(c) THEN f ELSE "none"
           d == [c EXCEPT !.read = FALSE, !.got = g]
<1>1. ObjInv(kind, c) /\ c \in CSession /\ ses \in [Sessions -> CSession]
  BY Basics
<1>2. /\ ses' = [ses EXCEPT ![s].read = FALSE, ![s].got = g] /\ c.sock # "none"
      /\ UNCHANGED <<kind, stage, toClose, table, refused, logic, second, online, owed, unanswered>>
  BY DEF AsyncRead, history, IoFree
<1>3. g \in {"none", "login", "request", "bad", "other"}
  OBVIOUS
<1> HIDE DEF g
<1>4. ses' = [ses EXCEPT ![s] = d]
  BY <1>1, <1>2
<1>5. d \in CSession
  BY <1>1, <1>3 DEF CSession
<1>6. /\ d.sock = c.sock /\ d.life = c.life /\ d.closer = c.closer
      /\ d.posted = c.posted /\ d.queue = c.queue
      /\ d.pending = c.pending /\ d.inflight = c.inflight
  BY <1>1 DEF CSession
<1>7. (d.writing <=> c.writing) /\ (d.bound <=> c.bound)
  BY <1>1 DEF CSession
<1> HIDE DEF d
<1>8. Calm(c, d)
  BY <1>6, <1>7 DEF Calm
<1>9. ObjInv(kind, d)
  BY <1>1, <1>2, <1>5, <1>8, CalmObj
<1>10. Step(c, d, "io") /\ (IsOpen(d) => IsOpen(c) /\ Answers(d) = Answers(c))
  BY <1>8, CalmIsStep
<1>. QED
  BY <1>2, <1>4, <1>6, <1>9, <1>10, QuietStep DEF Threads

\* BeginClose on the IO thread, after a flag was changed.
LEMMA IoCloses ==
  ASSUME IInv, NEW s \in Sessions, ses[s].sock # "none",
         NEW c \in CSession, Calm(ses[s], c), c.inflight = ses[s].inflight,
         ses' = [ses EXCEPT ![s] = BeginClose(c, "io")],
         UNCHANGED <<kind, stage, toClose, table, refused, logic, second, online, owed, unanswered>>
  PROVE  IInv'
<1> DEFINE d == BeginClose(c, "io")
<1>1. ObjInv(kind, ses[s])
  BY Basics
<1>2. ObjInv(kind, c) /\ c.sock # "none"
  BY <1>1, CalmObj DEF Calm
<1>3. "io" \in Threads
  BY DEF Threads
<1>4. ObjInv(kind, d) /\ Step(c, d, "io") /\ d.inflight = c.inflight /\ ~Alive(d)
  BY <1>2, <1>3, BeginCloseDoes
<1> HIDE DEF d
<1>5. Step(ses[s], d, "io")
  BY <1>4, CalmThenStep
<1>. QED
  BY <1>3, <1>4, <1>5, QuietStep DEF IsOpen, Alive, d

LEMMA TimerIs ==
  ASSUME NEW c \in CSession
  PROVE  LET d == [c EXCEPT !.timer = FALSE]
         IN  d \in CSession /\ Calm(c, d) /\ d.inflight = c.inflight
<1> DEFINE d == [c EXCEPT !.timer = FALSE]
<1>1. d \in CSession
  BY DEF CSession
<1>2. /\ d.sock = c.sock /\ d.life = c.life /\ d.closer = c.closer
      /\ d.posted = c.posted /\ d.queue = c.queue
      /\ d.pending = c.pending /\ d.inflight = c.inflight
  BY DEF CSession
<1>3. (d.writing <=> c.writing) /\ (d.bound <=> c.bound)
  BY DEF CSession
<1> HIDE DEF d
<1>4. Calm(c, d)
  BY <1>2, <1>3 DEF Calm
<1>. QED
  BY <1>1, <1>2, <1>4 DEF d

LEMMA ReadErrorStep ==
  ASSUME IInv, NEW s \in Sessions, ReadError(s)
  PROVE  IInv'
<1> DEFINE c == [ses[s] EXCEPT !.read = FALSE]
<1>1. ses[s] \in CSession
  BY Basics
<1>2. /\ ses' = [ses EXCEPT ![s] = BeginClose(c, "io")] /\ ses[s].sock # "none"
      /\ UNCHANGED <<kind, stage, toClose, table, refused, logic, second, online, owed, unanswered>>
  BY DEF ReadError, IoFree, ioFrame
<1>3. c \in CSession /\ Calm(ses[s], c) /\ c.inflight = ses[s].inflight
  BY <1>1, ReadIs
<1> HIDE DEF c
<1>. QED
  BY <1>2, <1>3, IoCloses

LEMMA DrainTimeoutStep ==
  ASSUME IInv, NEW s \in Sessions, DrainTimeout(s)
  PROVE  IInv'
<1> DEFINE c == [ses[s] EXCEPT !.timer = FALSE]
<1>1. ses[s] \in CSession
  BY Basics
<1>2. /\ ses' = [ses EXCEPT ![s] = BeginClose(c, "io")] /\ ses[s].sock # "none"
      /\ UNCHANGED <<kind, stage, toClose, table, refused, logic, second, online, owed, unanswered>>
  BY DEF DrainTimeout, IoFree, ioFrame
<1>3. c \in CSession /\ Calm(ses[s], c) /\ c.inflight = ses[s].inflight
  BY <1>1, TimerIs
<1> HIDE DEF c
<1>. QED
  BY <1>2, <1>3, IoCloses

LEMMA RunPostedStep ==
  ASSUME IInv, NEW s \in Sessions, RunPosted(s)
  PROVE  IInv'
<1> DEFINE b == ses[s]
           d == Ran(b)
<1>1. /\ kind \in {"chat", "resource"} /\ ObjInv(kind, b) /\ EachInv(s)
      /\ b \in CSession /\ owed \in [Sessions -> Nat] /\ owed[s] \in Nat
      /\ Answers(b) \in Nat
  BY Basics
<1>2. /\ b.sock # "none" /\ b.closer # "io" /\ b.posted # <<>>
      /\ UNCHANGED <<kind, stage, toClose, table, refused, logic, second, online, owed>>
  BY DEF RunPosted, IoFree, IoBusy
<1>3. ses' = [ses EXCEPT ![s] = d]
  BY DEF RunPosted, Ran, Popped
<1>4. /\ unanswered \subseteq unanswered'
      /\ IsOpen(Popped(b)) /\ Head(b.posted) = "rsp" /\ QueueFull(Popped(b)) => s \in unanswered'
  BY DEF RunPosted, Popped
<1>5. Contains(b.posted, "barrier") => ~Alive(b) /\ b.closer = "none"
  <2>1. Contains(b.posted, "barrier") => stage \in {"drain", "stopped"}
    BY <1>1 DEF EachInv, PlaceInv
  <2>2. stage \in {"drain", "stopped"} =>
          ~Alive(b) /\ b.closer \notin {"main", "logic", "second"}
    BY <1>1, <1>2 DEF EachInv, PlaceInv
  <2>3. b.closer \in {"none", "io", "logic", "second", "main"}
    BY <1>1 DEF CSession
  <2>. QED  BY <1>2, <2>1, <2>2, <2>3
<1>6. /\ ObjInv(kind, d) /\ Step(b, d, "io") /\ d.inflight = b.inflight
      /\ IsOpen(d) => /\ IsOpen(b)
                      /\ \/ Answers(d) = Answers(b)
                         \/ Head(b.posted) = "rsp" /\ QueueFull(Popped(b))
  BY <1>1, <1>2, <1>5, RanDoes
<1>7. IsOpen(Popped(b)) <=> IsOpen(b)
  BY <1>1, <1>2, PoppedIs DEF IsOpen
<1> HIDE DEF b, d
<1>8. IsOpen(d) /\ s \notin unanswered' => Answers(d) = Answers(b)
  BY <1>4, <1>6, <1>7
<1>9. IsOpen(d) /\ s \notin unanswered' => owed'[s] + Answers(b) <= owed[s] + Answers(d)
  BY <1>1, <1>2, <1>8
<1>. QED
  BY <1>1, <1>2, <1>3, <1>4, <1>6, <1>9, IoSessionStep DEF Threads, b

LEMMA WriteDoneStep ==
  ASSUME IInv, NEW s \in Sessions, WriteDone(s)
  PROVE  IInv'
<1> DEFINE b == ses[s]
           d == HandleWrite(b)
           o == IF Head(b.queue) = "rsp" /\ owed[s] > 0 THEN owed[s] - 1 ELSE owed[s]
<1>1. /\ kind \in {"chat", "resource"} /\ ObjInv(kind, b)
      /\ owed \in [Sessions -> Nat] /\ owed[s] \in Nat /\ Answers(b) \in Nat
  BY Basics
<1>2. /\ b.sock # "none" /\ b.writing /\ ses' = [ses EXCEPT ![s] = d]
      /\ owed' = [owed EXCEPT ![s] = o]
      /\ UNCHANGED <<kind, stage, toClose, table, refused, logic, second, online, unanswered>>
  BY DEF WriteDone, IoFree, ioFrame
<1>3. o \in Nat
  BY <1>1
<1>4. owed' \in [Sessions -> Nat] /\ owed'[s] = o /\ \A t \in Sessions \ {s} : owed'[t] = owed[t]
  <2> HIDE DEF o
  <2>. QED  BY <1>1, <1>2, <1>3
<1>5. /\ ObjInv(kind, d) /\ Step(b, d, "io") /\ d.inflight = b.inflight
      /\ IsOpen(d) => /\ IsOpen(b)
                      /\ Answers(b) = Answers(d) + IF Head(b.queue) = "rsp" THEN 1 ELSE 0
  BY <1>1, <1>2, HandleWriteDoes
<1>6. Answers(d) \in Nat
  BY <1>5, AnswersNat DEF ObjInv
<1> HIDE DEF b, d
<1>7. IsOpen(d) => owed'[s] = 0 \/ owed'[s] + Answers(b) <= owed[s] + Answers(d)
  BY <1>1, <1>4, <1>5, <1>6
<1>. QED
  BY <1>1, <1>2, <1>4, <1>5, <1>7, IoSessionStep DEF Threads, b


LEMMA WriteErrorStep ==
  ASSUME IInv, NEW s \in Sessions, WriteError(s)
  PROVE  IInv'
<1> DEFINE d == HandleWriteError(ses[s])
<1>1. kind \in {"chat", "resource"} /\ ObjInv(kind, ses[s])
  BY Basics
<1>2. /\ ses' = [ses EXCEPT ![s] = d] /\ ses[s].sock # "none"
      /\ UNCHANGED <<kind, stage, toClose, table, refused, logic, second, online, owed, unanswered>>
  BY DEF WriteError, IoFree, ioFrame
<1>3. ObjInv(kind, d) /\ Step(ses[s], d, "io") /\ d.inflight = ses[s].inflight /\ ~IsOpen(d)
  BY <1>1, <1>2, HandleWriteErrorDoes
<1> HIDE DEF d
<1>. QED
  BY <1>2, <1>3, QuietStep DEF Threads

\* A request goes to the logic workers, and is charged to its session.
LEMMA RequestPosted ==
  ASSUME IInv, NEW s \in Sessions, ses[s].sock # "none", NEW d \in CSession,
         Calm(ses[s], d), ses' = [ses EXCEPT ![s] = d],
         NEW f \in Load, Ingress, logic' = [logic EXCEPT !.q = Append(@, <<f, s>>)],
         owed' = [owed EXCEPT ![s] = @ + 1],
         kind = "resource" => d.inflight = ses[s].inflight + 1,
         UNCHANGED <<kind, stage, toClose, table, refused, second, online, unanswered>>
  PROVE  IInv'
<1>1. /\ kind \in {"chat", "resource"} /\ WorkInv /\ ses \in [Sessions -> CSession]
      /\ owed \in [Sessions -> Nat] /\ owed[s] \in Nat
      /\ ObjInv(kind, ses[s]) /\ Answers(ses[s]) \in Nat /\ ses[s] \in CSession
  BY Basics
<1>2. ObjInv(kind, d) /\ d.sock # "none"
  BY <1>1, CalmObj DEF Calm
<1>3. Settled /\ s \in Known
  <2>1. Known' = Known
    BY <1>1, <1>2, KnownSame
  <2>. QED  BY <2>1 DEF Settled, Known
<1>4. f \in QueueNames /\ stage \notin {"second", "drain", "stopped"}
  BY DEF Load, QueueNames, TaskNames, Ingress
<1>5. /\ WorkInv' /\ OtherTasks(s)
      /\ TasksOf(s)' = TasksOf(s) + 1
      /\ Publishing(s)' <=> Publishing(s)
      /\ CleanupOf(s) => CleanupOf(s)'
  BY <1>1, <1>3, <1>4, TaskPosted
<1>6. TasksOf(s) \in Nat /\ Pub(s) \in Nat /\ Pub(s)' = Pub(s)
  BY <1>1, <1>5, TasksNat DEF Pub
<1>7. /\ owed' \in [Sessions -> Nat] /\ owed'[s] = owed[s] + 1
      /\ \A t \in Sessions \ {s} : owed'[t] = owed[t]
  BY <1>1
<1>8. Step(ses[s], d, "io") /\ Answers(d) = Answers(ses[s]) /\ (IsOpen(d) <=> IsOpen(ses[s]))
  BY CalmIsStep
<1>9. owed'[s] + TasksOf(s) + Pub(s) + Answers(ses[s])
        <= owed[s] + TasksOf(s)' + Pub(s)' + Answers(d)
  BY <1>1, <1>5, <1>6, <1>7, <1>8
<1>10. TasksOf(s)' \in Nat
  BY <1>5, <1>6
<1>11. kind = "resource" => d.inflight + TasksOf(s) = ses[s].inflight + TasksOf(s)'
  <2>1. ses[s].inflight \in Nat
    BY <1>1, SessionsAssumption DEF CSession
  <2>. QED  BY <1>5, <1>6, <2>1
<1>. QED
  BY <1>2, <1>5, <1>7, <1>8, <1>9, <1>10, <1>11, SessionStep DEF Threads

LEMMA GotIs ==
  ASSUME NEW c \in CSession, NEW g \in {"none", "login", "request", "bad", "other"},
         NEW r \in BOOLEAN
  PROVE  LET d == [c EXCEPT !.got = g, !.routed = r]
         IN  d \in CSession /\ Calm(c, d) /\ d.inflight = c.inflight
<1> DEFINE d == [c EXCEPT !.got = g, !.routed = r]
<1>1. d \in CSession
  BY DEF CSession
<1>2. /\ d.sock = c.sock /\ d.life = c.life /\ d.closer = c.closer
      /\ d.posted = c.posted /\ d.queue = c.queue
      /\ d.pending = c.pending /\ d.inflight = c.inflight
  BY DEF CSession
<1>3. (d.writing <=> c.writing) /\ (d.bound <=> c.bound)
  BY DEF CSession
<1> HIDE DEF d
<1>4. Calm(c, d)
  BY <1>2, <1>3 DEF Calm
<1>. QED
  BY <1>1, <1>2, <1>4 DEF d

LEMMA HandledIs ==
  ASSUME NEW c \in CSession
  PROVE  LET d == [c EXCEPT !.got = "none"]
         IN  d \in CSession /\ Calm(c, d) /\ d.inflight = c.inflight
<1> DEFINE d == [c EXCEPT !.got = "none"]
<1>1. d \in CSession
  BY DEF CSession
<1>2. /\ d.sock = c.sock /\ d.life = c.life /\ d.closer = c.closer
      /\ d.posted = c.posted /\ d.queue = c.queue
      /\ d.pending = c.pending /\ d.inflight = c.inflight
  BY DEF CSession
<1>3. (d.writing <=> c.writing) /\ (d.bound <=> c.bound)
  BY DEF CSession
<1> HIDE DEF d
<1>4. Calm(c, d)
  BY <1>2, <1>3 DEF Calm
<1>. QED
  BY <1>1, <1>2, <1>4 DEF d

LEMMA ChargedIs ==
  ASSUME NEW c \in CSession, NEW i \in 0..TaskLimit, NEW r \in BOOLEAN
  PROVE  LET d == [c EXCEPT !.read = r, !.inflight = i]
         IN  d \in CSession /\ Calm(c, d) /\ d.inflight = i
<1> DEFINE d == [c EXCEPT !.read = r, !.inflight = i]
<1>1. d \in CSession
  BY DEF CSession
<1>2. /\ d.sock = c.sock /\ d.life = c.life /\ d.closer = c.closer
      /\ d.posted = c.posted /\ d.queue = c.queue
      /\ d.pending = c.pending /\ d.inflight = i
  BY DEF CSession
<1>3. (d.writing <=> c.writing) /\ (d.bound <=> c.bound)
  BY DEF CSession
<1> HIDE DEF d
<1>4. Calm(c, d)
  BY <1>2, <1>3 DEF Calm
<1>. QED
  BY <1>1, <1>2, <1>4 DEF d

LEMMA CalmTwice ==
  ASSUME NEW b, NEW c, NEW d, Calm(b, c), Calm(c, d)
  PROVE  Calm(b, d)
BY DEF Calm

LEMMA ChatReadStep ==
  ASSUME IInv, NEW s \in Sessions, ses[s].got # "none", kind = "chat", ChatRead(s, ses[s].got),
         UNCHANGED <<kind, table, second, online, stage, toClose, unanswered, refused>>
  PROVE  IInv'
<1> DEFINE b == ses[s]
           f == b.got
           r == b.routed \/ f = "login"
           c == [b EXCEPT !.got = "none", !.routed = r]
           more == [c EXCEPT !.read = TRUE]
           d == Send(c, "term", "io")
<1>1. /\ kind \in {"chat", "resource"} /\ b \in CSession
      /\ owed \in [Sessions -> Nat] /\ owed[s] \in Nat
      /\ ObjInv(kind, b) /\ Answers(b) \in Nat
  BY Basics
<1>2. b.sock # "none" /\ f \in {"login", "request", "bad", "other"}
  BY <1>1 DEF ObjInv, CSession
<1>3. c \in CSession /\ Calm(b, c) /\ c.inflight = b.inflight
  BY <1>1, GotIs
<1>4. \/ ses' = [ses EXCEPT ![s] = BeginClose(c, "io")] /\ UNCHANGED <<logic, owed>>
      \/ ses' = [ses EXCEPT ![s] = d] /\ UNCHANGED <<logic, owed>>
      \/ /\ f \in Load /\ Ingress /\ ses' = [ses EXCEPT ![s] = more]
         /\ logic' = [logic EXCEPT !.q = Append(@, <<f, s>>)]
         /\ owed' = [owed EXCEPT ![s] = @ + 1]
  BY <1>2 DEF ChatRead, Load
<1>5. more \in CSession /\ Calm(c, more)
  BY <1>3, ReadIs
<1> HIDE DEF b, f, c, more
<1>6. CASE ses' = [ses EXCEPT ![s] = BeginClose(c, "io")] /\ UNCHANGED <<logic, owed>>
  BY <1>2, <1>3, <1>6, IoCloses DEF b
<1>7. CASE ses' = [ses EXCEPT ![s] = d] /\ UNCHANGED <<logic, owed>>
  <2>1. ObjInv(kind, c) /\ c.sock # "none" /\ Answers(c) = Answers(b) /\ (IsOpen(c) => IsOpen(b))
    BY <1>1, <1>2, <1>3, CalmObj, CalmIsStep DEF Calm
  <2>2. /\ ObjInv(kind, d) /\ Step(c, d, "io") /\ d.inflight = c.inflight
        /\ IsOpen(d) => IsOpen(c) /\ Answers(d) = Answers(c) + 1
    BY <1>1, <2>1, SendDoes DEF Threads
  <2> HIDE DEF d
  <2>3. Step(b, d, "io")
    BY <1>3, <2>2, CalmThenStep
  <2>4. IsOpen(d) => owed'[s] + Answers(b) <= owed[s] + Answers(d)
    BY <1>1, <1>7, <2>1, <2>2
  <2>. QED  BY <1>1, <1>2, <1>3, <1>7, <2>1, <2>2, <2>3, <2>4, IoSessionStep DEF Threads, b
<1>8. CASE /\ f \in Load /\ Ingress /\ ses' = [ses EXCEPT ![s] = more]
           /\ logic' = [logic EXCEPT !.q = Append(@, <<f, s>>)]
           /\ owed' = [owed EXCEPT ![s] = @ + 1]
  <2>1. Calm(b, more)
    BY <1>3, <1>5, CalmTwice
  <2>. QED  BY <1>2, <1>5, <1>8, <2>1, RequestPosted DEF b
<1>. QED
  BY <1>4, <1>6, <1>7, <1>8

LEMMA ResourceReadStep ==
  ASSUME IInv, NEW s \in Sessions, ses[s].got # "none", kind = "resource",
         ResourceRead(s, ses[s].got),
         UNCHANGED <<kind, table, second, online, stage, toClose, unanswered, refused>>
  PROVE  IInv'
<1> DEFINE b == ses[s]
           f == b.got
           c == [b EXCEPT !.got = "none"]
           i == IF Ingress THEN c.inflight + 1 ELSE c.inflight
           d == [c EXCEPT !.read = TRUE, !.inflight = i]
<1>1. /\ b \in CSession /\ owed \in [Sessions -> Nat] /\ owed[s] \in Nat
      /\ ObjInv(kind, b) /\ EachInv(s)
  BY Basics
<1>2. b.sock # "none" /\ f \in {"login", "request", "bad", "other"} /\ b.inflight \in 0..TaskLimit
  BY <1>1 DEF ObjInv, CSession
<1>3. c \in CSession /\ Calm(b, c) /\ c.inflight = b.inflight
  BY <1>1, HandledIs
<1>4. \/ ses' = [ses EXCEPT ![s] = BeginClose(c, "io")] /\ UNCHANGED <<logic, owed>>
      \/ /\ f \in Load /\ ~(c.inflight >= TaskLimit) /\ ses' = [ses EXCEPT ![s] = d]
         /\ logic' = IF Ingress THEN [logic EXCEPT !.q = Append(@, <<f, s>>)] ELSE logic
         /\ owed' = [owed EXCEPT ![s] = @ + 1]
  BY <1>2 DEF ResourceRead, Load
<1> HIDE DEF b, f, c
<1>5. CASE ses' = [ses EXCEPT ![s] = BeginClose(c, "io")] /\ UNCHANGED <<logic, owed>>
  BY <1>2, <1>3, <1>5, IoCloses DEF b
<1>6. CASE /\ f \in Load /\ ~(c.inflight >= TaskLimit) /\ ses' = [ses EXCEPT ![s] = d]
           /\ logic' = IF Ingress THEN [logic EXCEPT !.q = Append(@, <<f, s>>)] ELSE logic
           /\ owed' = [owed EXCEPT ![s] = @ + 1]
  <2>1. i \in 0..TaskLimit
    BY <1>2, <1>3, <1>6, SessionsAssumption
  <2>2. d \in CSession /\ Calm(c, d) /\ d.inflight = i
    BY <1>3, <2>1, ChargedIs
  <2>3. i = IF Ingress THEN b.inflight + 1 ELSE b.inflight
    BY <1>3
  <2> HIDE DEF d, i
  <2>4. Calm(b, d)
    BY <1>3, <2>2, CalmTwice
  <2>5. CASE Ingress
    BY <1>2, <1>6, <2>2, <2>3, <2>4, <2>5, RequestPosted DEF b
  <2>6. CASE ~Ingress
    <3>1. ~IsOpen(b)
      BY <1>1, <1>2, <2>6 DEF EachInv, PlaceInv, Alive, IsOpen, Ingress, b
    <3>2. ObjInv(kind, d)
      BY <1>1, <1>2, <2>2, <2>4, CalmObj
    <3>3. Step(b, d, "io") /\ ~IsOpen(d)
      BY <2>4, <3>1, CalmIsStep
    <3>4. owed' \in [Sessions -> Nat] /\ \A t \in Sessions \ {s} : owed'[t] = owed[t]
      BY <1>1, <1>6
    <3>. QED
      BY <1>2, <1>6, <2>2, <2>3, <2>6, <3>2, <3>3, <3>4, IoSessionStep DEF Threads, b
  <2>. QED  BY <2>5, <2>6
<1>. QED
  BY <1>4, <1>5, <1>6

LEMMA PostMsgToQueStep ==
  ASSUME IInv, NEW s \in Sessions, PostMsgToQue(s)
  PROVE  IInv'
<1>1. kind \in {"chat", "resource"}
  BY Basics
<1>2. /\ ses[s].got # "none"
      /\ UNCHANGED <<kind, table, second, online, stage, toClose, unanswered, refused>>
      /\ kind = "chat" => ChatRead(s, ses[s].got)
      /\ kind # "chat" => ResourceRead(s, ses[s].got)
  BY DEF PostMsgToQue
<1>. QED
  BY <1>1, <1>2, ChatReadStep, ResourceReadStep


-----------------------------------------------------------------------------
(* The steps of the workers.                                               *)

LEMMA CalmSelf ==
  ASSUME NEW c
  PROVE  Calm(c, c)
BY DEF Calm

LEMMA ReturnIs ==
  ASSUME kind \in {"chat", "resource"}, NEW c \in CSession,
         kind = "resource" => c.inflight # 0
  PROVE  LET d == Return(c)
         IN  /\ d \in CSession /\ Calm(c, d) /\ (d.bound <=> c.bound)
             /\ kind = "resource" => c.inflight = d.inflight + 1
<1>1. CASE kind = "chat"
  <2>1. Return(c) = c
    BY <1>1 DEF Return
  <2>. QED  BY <1>1, <2>1, CalmSelf
<1>2. CASE kind = "resource"
  <2> DEFINE i == c.inflight - 1
             d == [c EXCEPT !.inflight = i]
  <2>1. i \in 0..TaskLimit /\ c.inflight = i + 1
    BY <1>2, SessionsAssumption DEF CSession
  <2>2. Return(c) = d
    BY <1>2 DEF Return
  <2> HIDE DEF i
  <2>3. d \in CSession
    BY <2>1 DEF CSession
  <2>4. /\ d.sock = c.sock /\ d.life = c.life /\ d.closer = c.closer
        /\ d.posted = c.posted /\ d.queue = c.queue
        /\ d.pending = c.pending /\ d.inflight = i
    BY DEF CSession
  <2>5. (d.writing <=> c.writing) /\ (d.bound <=> c.bound)
    BY DEF CSession
  <2> HIDE DEF d
  <2>6. Calm(c, d)
    BY <2>4, <2>5 DEF Calm
  <2>. QED  BY <2>1, <2>2, <2>3, <2>4, <2>5, <2>6
<1>. QED
  BY <1>1, <1>2

LEMMA ReturnSettled ==
  ASSUME IInv, NEW s \in Sessions, ses[s].sock # "none", NEW e \in CSession, e.sock # "none",
         ses' = [ses EXCEPT ![s] = Return(e)], UNCHANGED <<kind, stage>>
  PROVE  Settled
<1>1. Return(e).sock = e.sock
  BY DEF Return, CSession
<1>2. ses \in [Sessions -> CSession]
  BY Basics
<1> DEFINE d == Return(e)
<1>3. d.sock # "none" /\ ses' = [ses EXCEPT ![s] = d]
  BY <1>1
<1> HIDE DEF d
<1>4. Known' = Known
  BY <1>2, <1>3, KnownSame
<1>. QED
  BY <1>4 DEF Settled

LEMMA RunningTask ==
  ASSUME IInv, NEW n, NEW s, logic.run = <<<<n, s>>>>
  PROVE  /\ n \in RunNames /\ s \in Known /\ s \in Sessions /\ ses[s].sock # "none"
         /\ stage \notin {"second", "drain", "stopped"}
<1>1. WorkInv
  BY DEF IInv
<1>2. PICK t \in RunNames \X Known : logic.run = <<t>>
  BY <1>1 DEF WorkInv
<1>3. t = <<n, s>>
  BY <1>2
<1>4. stage \notin {"second", "drain", "stopped"}
  BY <1>1 DEF WorkInv
<1>. QED
  BY <1>2, <1>3, <1>4 DEF Known

\* The end of a task, with its answer; the token of its quota goes with it.
LEMMA TaskReturns ==
  ASSUME IInv, NEW s \in Sessions, ses[s].sock # "none", NEW thread \in Threads,
         NEW e, ObjInv(kind, e), Step(ses[s], e, thread), e.inflight = ses[s].inflight,
         IsOpen(e) => IsOpen(ses[s]),
         IsOpen(e) /\ s \notin unanswered' => Answers(e) = Answers(ses[s]) + 1,
         ses' = [ses EXCEPT ![s] = Return(e)],
         UNCHANGED <<kind, stage, toClose, table, refused, owed>>,
         unanswered \subseteq unanswered',
         WorkInv', OtherTasks(s), TasksOf(s)' \in Nat,
         kind = "resource" => TasksOf(s) = TasksOf(s)' + 1,
         TasksOf(s) + Pub(s) = TasksOf(s)' + Pub(s)' + 1,
         online' = online \/ (online' = online \cup {s} /\ Publishing(s)),
         Publishing(s)' => Publishing(s), CleanupOf(s) => CleanupOf(s)'
  PROVE  IInv'
<1> DEFINE d == Return(e)
<1>1. /\ kind \in {"chat", "resource"} /\ WorkInv /\ EachInv(s)
      /\ owed \in [Sessions -> Nat] /\ owed[s] \in Nat
      /\ ses[s] \in CSession /\ Answers(ses[s]) \in Nat
  BY Basics
<1>2. e \in CSession /\ e.sock # "none"
  BY DEF ObjInv, Step
<1>3. kind = "resource" => e.inflight # 0
  <2>1. kind = "resource" => ses[s].inflight = TasksOf(s)
    BY <1>1 DEF EachInv, QuotaInv
  <2>. QED  BY <2>1
<1>4. /\ d \in CSession /\ Calm(e, d)
      /\ kind = "resource" => e.inflight = d.inflight + 1
  BY <1>1, <1>2, <1>3, ReturnIs
<1> HIDE DEF d
<1>5. ObjInv(kind, d)
  BY <1>2, <1>4, CalmObj
<1>6. Step(ses[s], d, thread)
  BY <1>4, StepThenCalm
<1>7. Answers(d) = Answers(e) /\ (IsOpen(d) <=> IsOpen(e)) /\ Answers(e) \in Nat
  BY <1>2, <1>4, CalmIsStep, AnswersNat
<1>8. TasksOf(s) \in Nat /\ Pub(s) \in Nat /\ Pub(s)' \in Nat
  BY <1>1, TasksNat DEF Pub
<1>9. IsOpen(d) /\ s \notin unanswered' =>
        owed'[s] + TasksOf(s) + Pub(s) + Answers(ses[s])
          <= owed[s] + TasksOf(s)' + Pub(s)' + Answers(d)
  BY <1>1, <1>7, <1>8
<1>10. kind = "resource" => d.inflight + TasksOf(s) = ses[s].inflight + TasksOf(s)'
  <2>1. d.inflight \in Nat
    BY <1>4, SessionsAssumption DEF CSession
  <2>. QED  BY <1>4, <1>8, <2>1
<1>11. owed' \in [Sessions -> Nat] /\ \A t \in Sessions \ {s} : owed'[t] = owed[t]
  BY <1>1
<1>12. ses' = [ses EXCEPT ![s] = d]
  BY DEF d
<1>. QED
  BY <1>5, <1>6, <1>7, <1>9, <1>10, <1>11, <1>12, SessionStep

\* A task of a logic worker ends; a delivery may follow it.
LEMMA LogicTaskEnds ==
  ASSUME IInv, NEW s \in Sessions, NEW n \in {"login", "request", "publish"},
         logic.run = <<<<n, s>>>>, NEW e, ObjInv(kind, e), Step(ses[s], e, "logic"),
         e.inflight = ses[s].inflight, IsOpen(e) => IsOpen(ses[s]),
         IsOpen(e) /\ s \notin unanswered' => Answers(e) = Answers(ses[s]) + 1,
         TaskDone(s, e),
         UNCHANGED <<kind, stage, toClose, table, refused, owed>>,
         unanswered \subseteq unanswered',
         second' = second \/ second' = Append(second, <<"deliver", s>>),
         online' = online \/ (online' = online \cup {s} /\ n = "publish")
  PROVE  IInv'
<1>1. WorkInv
  BY DEF IInv
<1>2. n \in RunNames /\ ses[s].sock # "none"
  BY RunningTask
<1>3. ses' = [ses EXCEPT ![s] = Return(e)] /\ logic' = [logic EXCEPT !.run = <<>>]
  BY DEF TaskDone
<1>4. e \in CSession /\ e.sock # "none"
  BY <1>2 DEF ObjInv, Step
<1>5. Settled
  BY <1>2, <1>3, <1>4, ReturnSettled
<1>6. /\ WorkInv' /\ OtherTasks(s)
      /\ TasksOf(s) = TasksOf(s)' + IF n \in Load THEN 1 ELSE 0
      /\ TasksOf(s)' \in Nat
      /\ ~Publishing(s)' /\ (Publishing(s) <=> n = "publish")
      /\ CleanupOf(s) => CleanupOf(s)'
  <2>1. CASE second' = second
    BY <1>1, <1>3, <1>5, <2>1, TaskOver
  <2>2. CASE second' = Append(second, <<"deliver", s>>)
    <3>1. "deliver" \in {"deliver", "file"} /\ "deliver" # "file"
      OBVIOUS
    <3>. QED  BY <1>1, <1>3, <1>5, <2>2, <3>1, TaskPassed
  <2>. QED  BY <2>1, <2>2
<1>7. kind = "resource" => TasksOf(s) = TasksOf(s)' + 1
  BY <1>2, <1>6 DEF RunNames, Load
<1>8. TasksOf(s) + Pub(s) = TasksOf(s)' + Pub(s)' + 1
  BY <1>6 DEF Pub, Load
<1>. QED
  BY <1>2, <1>3, <1>6, <1>7, <1>8, TaskReturns DEF Threads

LEMMA BoundIs ==
  ASSUME NEW c \in CSession
  PROVE  LET d == TrySetUserId(c)
         IN  /\ d \in CSession /\ Calm(c, d) /\ d.inflight = c.inflight
             /\ IsOpen(c) => d.bound
<1> DEFINE v == IsOpen(c) \/ c.bound
           d == [c EXCEPT !.bound = v]
<1>1. v \in BOOLEAN /\ (c.bound => v) /\ (IsOpen(c) => v)
  OBVIOUS
<1>2. TrySetUserId(c) = d
  BY DEF TrySetUserId
<1> HIDE DEF v
<1>3. d \in CSession
  BY <1>1 DEF CSession
<1>4. /\ d.sock = c.sock /\ d.life = c.life /\ d.closer = c.closer
      /\ d.posted = c.posted /\ d.queue = c.queue
      /\ d.pending = c.pending /\ d.inflight = c.inflight
  BY DEF CSession
<1>5. (d.writing <=> c.writing) /\ (d.bound <=> v)
  BY DEF CSession
<1> HIDE DEF d
<1>6. Calm(c, d)
  BY <1>1, <1>4, <1>5 DEF Calm
<1>. QED
  BY <1>1, <1>2, <1>3, <1>4, <1>5, <1>6

\* A task ends with an answer or a last frame.
LEMMA AnswerEnds ==
  ASSUME IInv, NEW s \in Sessions, NEW n \in {"login", "request", "publish"},
         logic.run = <<<<n, s>>>>, NEW c \in CSession, Calm(ses[s], c),
         c.inflight = ses[s].inflight, NEW f \in {"rsp", "term"},
         TaskDone(s, Send(c, f, "logic")),
         UNCHANGED <<kind, stage, toClose, table, refused, owed, unanswered>>,
         second' = second \/ second' = Append(second, <<"deliver", s>>),
         online' = online \/ (online' = online \cup {s} /\ n = "publish")
  PROVE  IInv'
<1> DEFINE e == Send(c, f, "logic")
<1>1. kind \in {"chat", "resource"} /\ ObjInv(kind, ses[s])
  BY Basics
<1>2. ses[s].sock # "none"
  BY RunningTask
<1>3. /\ ObjInv(kind, c) /\ c.sock # "none" /\ Answers(c) = Answers(ses[s])
      /\ IsOpen(c) => IsOpen(ses[s])
  BY <1>1, <1>2, CalmObj, CalmIsStep DEF Calm
<1>4. /\ ObjInv(kind, e) /\ Step(c, e, "logic") /\ e.inflight = c.inflight
      /\ IsOpen(e) => IsOpen(c) /\ Answers(e) = Answers(c) + 1
  BY <1>1, <1>3, SendDoes DEF Threads
<1>5. TaskDone(s, e)
  OBVIOUS
<1> HIDE DEF e
<1>6. Step(ses[s], e, "logic")
  BY <1>4, CalmThenStep
<1>7. IsOpen(e) => IsOpen(ses[s]) /\ Answers(e) = Answers(ses[s]) + 1
  BY <1>3, <1>4
<1>. QED
  BY <1>4, <1>5, <1>6, <1>7, LogicTaskEnds

LEMMA LoginHandlerStep ==
  ASSUME IInv, NEW s \in Sessions, LoginHandler(s)
  PROVE  IInv'
<1>1. /\ ses[s] \in CSession /\ ses \in [Sessions -> CSession] /\ WorkInv
      /\ owed \in [Sessions -> Nat] /\ owed[s] \in Nat
      /\ ObjInv(kind, ses[s]) /\ Answers(ses[s]) \in Nat
  BY Basics
<1>2. /\ logic.run = <<<<"login", s>>>> /\ kind = "chat"
      /\ UNCHANGED <<kind, stage, toClose, table, refused, owed, second, online, unanswered>>
  BY DEF LoginHandler, Task, workerFrame
<1>3. Calm(ses[s], ses[s])
  BY CalmSelf
<1>4. ASSUME NEW f \in {"rsp", "term"}, TaskDone(s, Send(ses[s], f, "logic"))
      PROVE  IInv'
  BY <1>1, <1>2, <1>3, <1>4, AnswerEnds
<1>5. ASSUME IsOpen(ses[s]), ses' = [ses EXCEPT ![s] = TrySetUserId(@)],
             logic' = [logic EXCEPT !.run = <<<<"publish", s>>>>]
      PROVE  IInv'
  <2> DEFINE d == TrySetUserId(ses[s])
  <2>1. ses' = [ses EXCEPT ![s] = d]
    BY <1>5
  <2>2. d \in CSession /\ Calm(ses[s], d) /\ d.bound
    BY <1>1, <1>5, BoundIs
  <2> HIDE DEF d
  <2>3. ses[s].sock # "none"
    BY <1>2, RunningTask
  <2>4. ObjInv(kind, d) /\ d.sock # "none"
    BY <1>1, <2>2, <2>3, CalmObj DEF Calm
  <2>5. Step(ses[s], d, "logic") /\ Answers(d) = Answers(ses[s]) /\ IsOpen(d)
    BY <1>5, <2>2, CalmIsStep
  <2>6. Settled
    BY <1>1, <1>2, <2>1, <2>3, <2>4, KnownSame DEF Settled
  <2>7. /\ WorkInv' /\ OtherTasks(s)
        /\ TasksOf(s) = TasksOf(s)' + 1 /\ TasksOf(s)' \in Nat
        /\ Publishing(s)' /\ ~Publishing(s)
        /\ CleanupOf(s) => CleanupOf(s)'
    BY <1>1, <1>2, <1>5, <2>6, TaskBinds
  <2>8. owed'[s] + TasksOf(s) + Pub(s) + Answers(ses[s])
          <= owed[s] + TasksOf(s)' + Pub(s)' + Answers(d)
    <3>1. Pub(s) = 0 /\ Pub(s)' = 1
      BY <2>7 DEF Pub
    <3>. QED  BY <1>1, <1>2, <2>5, <2>7, <3>1
  <2>9. Alive(d)
    BY <2>5 DEF Alive, IsOpen
  <2>. QED
    BY <1>1, <1>2, <1>5, <2>1, <2>2, <2>3, <2>4, <2>5, <2>7, <2>8, <2>9, SessionStep DEF Threads
<1>. QED
  BY <1>4, <1>5 DEF LoginHandler

LEMMA PublishStep ==
  ASSUME IInv, NEW s \in Sessions, Publish(s)
  PROVE  IInv'
<1>1. ses[s] \in CSession /\ Calm(ses[s], ses[s])
  BY Basics, CalmSelf
<1>2. /\ logic.run = <<<<"publish", s>>>> /\ TaskDone(s, Send(ses[s], "rsp", "logic"))
      /\ online' = online \cup {s}
      /\ UNCHANGED <<kind, stage, toClose, table, refused, owed, second, unanswered>>
  BY DEF Publish, Task, workerFrame
<1>. QED
  BY <1>1, <1>2, AnswerEnds

LEMMA handleResourceLoginStep ==
  ASSUME IInv, NEW s \in Sessions, handleResourceLogin(s)
  PROVE  IInv'
<1>1. ses[s] \in CSession /\ Calm(ses[s], ses[s]) /\ ObjInv(kind, ses[s])
  BY Basics, CalmSelf
<1>2. /\ logic.run = <<<<"login", s>>>>
      /\ UNCHANGED <<kind, stage, toClose, table, refused, owed, second, online>>
  BY DEF handleResourceLogin, Task, workerFrame
<1>3. ASSUME TaskDone(s, Send(ses[s], "rsp", "logic")), UNCHANGED unanswered
      PROVE  IInv'
  BY <1>1, <1>2, <1>3, AnswerEnds
<1>4. ASSUME TaskDone(s, Send(TrySetUserId(ses[s]), "rsp", "logic")), UNCHANGED unanswered
      PROVE  IInv'
  <2> DEFINE c == TrySetUserId(ses[s])
  <2>1. c \in CSession /\ Calm(ses[s], c) /\ c.inflight = ses[s].inflight
    BY <1>1, BoundIs
  <2>2. TaskDone(s, Send(c, "rsp", "logic"))
    BY <1>4
  <2> HIDE DEF c
  <2>. QED  BY <1>2, <1>4, <2>1, <2>2, AnswerEnds
<1>5. ASSUME TaskDone(s, ses[s]), unanswered' = unanswered \union {s}
      PROVE  IInv'
  <2>1. Step(ses[s], ses[s], "logic")
    BY <1>1, CalmIsStep
  <2>. QED  BY <1>1, <1>2, <1>5, <2>1, LogicTaskEnds
<1>. QED
  BY <1>3, <1>4, <1>5 DEF handleResourceLogin


\* The workers behind the logic workers still take their tasks.
LEMMA SecondTakes ==
  ASSUME IInv, NEW n, NEW s, logic.run = <<<<n, s>>>>, NEW t, PostSecond(t)
  PROVE  second' = Append(second, t) /\ refused' = refused
<1>1. SecondOpen /\ refused = FALSE
  <2>1. stage \notin {"second", "drain", "stopped"}
    BY RunningTask
  <2>. QED  BY <2>1 DEF IInv, BaseInv, SecondOpen
<1>. QED
  BY <1>1 DEF PostSecond

LEMMA DispatchClientMessageStep ==
  ASSUME IInv, NEW s \in Sessions, DispatchClientMessage(s)
  PROVE  IInv'
<1>1. ses[s] \in CSession /\ Calm(ses[s], ses[s])
  BY Basics, CalmSelf
<1>2. /\ logic.run = <<<<"request", s>>>> /\ TaskDone(s, Send(ses[s], "rsp", "logic"))
      /\ UNCHANGED <<kind, stage, toClose, table, owed, online, unanswered>>
      /\ \/ UNCHANGED <<second, refused>>
         \/ PostSecond(<<"deliver", s>>)
  BY DEF DispatchClientMessage, Task, workerFrame
<1>3. /\ second' = second \/ second' = Append(second, <<"deliver", s>>)
      /\ refused' = refused
  BY <1>2, SecondTakes
<1>. QED
  BY <1>1, <1>2, <1>3, AnswerEnds

\* A step of the queues alone: as many tasks of the session as before.
LEMMA QueueStep ==
  ASSUME IInv, NEW s \in Sessions, ses[s].sock # "none", ses' = ses,
         UNCHANGED <<kind, stage, toClose, table, refused, owed, online, unanswered>>,
         WorkInv', OtherTasks(s), TasksOf(s)' = TasksOf(s),
         Publishing(s)' <=> Publishing(s), CleanupOf(s) => CleanupOf(s)'
  PROVE  IInv'
<1>1. /\ ses \in [Sessions -> CSession] /\ WorkInv /\ ses[s] \in CSession
      /\ owed \in [Sessions -> Nat] /\ owed[s] \in Nat
      /\ ObjInv(kind, ses[s]) /\ Answers(ses[s]) \in Nat
  BY Basics
<1> DEFINE d == ses[s]
<1>2. ses' = [ses EXCEPT ![s] = d]
  BY <1>1
<1>3. Step(ses[s], d, "logic")
  BY CalmSelf, CalmIsStep
<1>4. TasksOf(s) \in Nat /\ Pub(s) \in Nat /\ Pub(s)' = Pub(s)
  BY <1>1, TasksNat DEF Pub
<1>5. owed'[s] + TasksOf(s) + Pub(s) + Answers(ses[s])
        <= owed[s] + TasksOf(s)' + Pub(s)' + Answers(d)
  BY <1>1, <1>4
<1>6. TasksOf(s)' \in Nat /\ d.inflight + TasksOf(s) = ses[s].inflight + TasksOf(s)'
  BY <1>4
<1>. QED
  BY <1>1, <1>2, <1>3, <1>5, <1>6, SessionStep DEF Threads

LEMMA task_callbackStep ==
  ASSUME IInv, NEW s \in Sessions, task_callback(s)
  PROVE  IInv'
<1>1. ses[s] \in CSession /\ Calm(ses[s], ses[s]) /\ WorkInv
  BY Basics, CalmSelf
<1>2. /\ logic.run = <<<<"request", s>>>>
      /\ UNCHANGED <<kind, stage, toClose, table, owed, online, unanswered>>
  BY DEF task_callback, Task, workerFrame
<1>3. ASSUME NEW f \in {"rsp", "term"}, TaskDone(s, Send(ses[s], f, "logic")),
             UNCHANGED <<second, refused>>
      PROVE  IInv'
  BY <1>1, <1>2, <1>3, AnswerEnds
<1>4. ASSUME logic' = [logic EXCEPT !.run = <<>>], PostSecond(<<"file", s>>),
             ses' = IF SecondOpen THEN ses ELSE [ses EXCEPT ![s] = Return(@)]
      PROVE  IInv'
  <2>1. /\ stage \notin {"second", "drain", "stopped"} /\ ses[s].sock # "none"
        /\ second' = Append(second, <<"file", s>>) /\ refused' = refused
    BY <1>2, <1>4, RunningTask, SecondTakes
  <2>2. ses' = ses
    BY <1>4, <2>1 DEF IInv, BaseInv, SecondOpen
  <2>3. Settled
    BY <1>2, <2>2 DEF Settled, Known
  <2>4. "file" \in {"deliver", "file"} /\ "request" \in Load /\ "request" \notin {"publish", "cleanup"}
    BY DEF Load
  <2>5. /\ WorkInv' /\ OtherTasks(s)
        /\ TasksOf(s) = TasksOf(s)' + 1 - 1
        /\ TasksOf(s)' \in Nat
        /\ ~Publishing(s)' /\ ~Publishing(s)
        /\ CleanupOf(s) => CleanupOf(s)'
    BY <1>1, <1>2, <1>4, <2>1, <2>3, <2>4, TaskPassed
  <2>6. TasksOf(s)' = TasksOf(s)
    BY <2>5
  <2>. QED  BY <1>2, <2>1, <2>2, <2>5, <2>6, QueueStep
<1>. QED
  BY <1>3, <1>4 DEF task_callback

LEMMA PostToUserStep ==
  ASSUME IInv, NEW s \in Sessions, NEW what \in {"kick", "push"}, PostToUser(s, what)
  PROVE  IInv'
<1>1. WorkInv /\ ObjInv(kind, ses[s]) /\ EachInv(s)
  BY Basics
<1>2. /\ kind = "chat" /\ Ingress /\ s \in online
      /\ logic' = [logic EXCEPT !.q = Append(@, <<what, s>>)]
      /\ ses' = ses
      /\ UNCHANGED <<kind, stage, toClose, table, refused, owed, second, online, unanswered>>
  BY DEF PostToUser, workerFrame
<1>3. ses[s].sock # "none"
  BY <1>1, <1>2 DEF EachInv, OnlineInv, ObjInv
<1>4. Settled /\ s \in Known
  BY <1>2, <1>3 DEF Settled, Known
<1>5. /\ what \in QueueNames /\ stage \notin {"second", "drain", "stopped"}
      /\ what \notin Load
  BY <1>2 DEF QueueNames, TaskNames, Ingress, Load
<1>6. /\ WorkInv' /\ OtherTasks(s) /\ TasksOf(s)' = TasksOf(s) + 0
      /\ Publishing(s)' <=> Publishing(s)
      /\ CleanupOf(s) => CleanupOf(s)'
  BY <1>1, <1>2, <1>4, <1>5, TaskPosted
<1>7. TasksOf(s)' = TasksOf(s)
  BY <1>1, <1>6, TasksNat
<1>. QED
  BY <1>2, <1>3, <1>6, <1>7, QueueStep

LEMMA NotifyUserStep ==
  ASSUME IInv, NEW s \in Sessions, NEW what \in {"kick", "push"}, NotifyUser(s, what)
  PROVE  IInv'
<1> DEFINE f == IF what = "kick" THEN "term" ELSE "push"
           d == Send(ses[s], f, "logic")
<1>1. /\ kind \in {"chat", "resource"} /\ ses \in [Sessions -> CSession] /\ WorkInv
      /\ owed \in [Sessions -> Nat] /\ owed[s] \in Nat
      /\ ObjInv(kind, ses[s]) /\ Answers(ses[s]) \in Nat
  BY Basics
<1>2. /\ logic.run = <<<<what, s>>>> /\ logic' = [logic EXCEPT !.run = <<>>]
      /\ ses' = [ses EXCEPT ![s] = d] \/ ses' = ses
      /\ UNCHANGED <<kind, stage, toClose, table, refused, owed, second, online, unanswered>>
  BY DEF NotifyUser, Task, workerFrame
<1>3. /\ ses[s].sock # "none" /\ kind = "chat"
      /\ what \notin Load /\ what \notin {"publish", "cleanup"}
  BY <1>1, <1>2, RunningTask DEF RunNames, Load
<1>4. ASSUME Settled
      PROVE  /\ WorkInv' /\ OtherTasks(s) /\ TasksOf(s)' = TasksOf(s) /\ TasksOf(s)' \in Nat
             /\ ~Publishing(s)' /\ ~Publishing(s)
             /\ CleanupOf(s) => CleanupOf(s)'
  <2>1. /\ WorkInv' /\ OtherTasks(s) /\ TasksOf(s) = TasksOf(s)' + 0 /\ TasksOf(s)' \in Nat
        /\ ~Publishing(s)' /\ ~Publishing(s)
        /\ CleanupOf(s) => CleanupOf(s)'
    BY <1>1, <1>2, <1>3, <1>4, TaskOver
  <2>2. TasksOf(s)' = TasksOf(s)
    BY <2>1
  <2>. QED  BY <2>1, <2>2
<1>5. CASE ses' = ses
  <2>1. Settled
    BY <1>2, <1>5 DEF Settled, Known
  <2>. QED  BY <1>2, <1>3, <1>4, <1>5, <2>1, QueueStep
<1>6. CASE ses' = [ses EXCEPT ![s] = d]
  <2>1. f \in {"rsp", "push", "term"}
    OBVIOUS
  <2> HIDE DEF f
  <2>2. /\ ObjInv(kind, d) /\ Step(ses[s], d, "logic") /\ d.inflight = ses[s].inflight
        /\ IsOpen(d) => /\ IsOpen(ses[s])
                        /\ Answers(d) = Answers(ses[s]) + IF f = "push" THEN 0 ELSE 1
    BY <1>1, <1>3, <2>1, SendDoes DEF Threads
  <2> HIDE DEF d
  <2>3. d.sock # "none"
    BY <1>3, <2>2 DEF Step
  <2>4. Settled
    BY <1>1, <1>2, <1>3, <1>6, <2>3, KnownSame DEF Settled
  <2>5. /\ WorkInv' /\ OtherTasks(s) /\ TasksOf(s)' = TasksOf(s) /\ TasksOf(s)' \in Nat
        /\ ~Publishing(s)' /\ ~Publishing(s)
        /\ CleanupOf(s) => CleanupOf(s)'
    BY <1>4, <2>4
  <2>6. Pub(s) = 0 /\ Pub(s)' = 0
    BY <2>5 DEF Pub
  <2>7. IsOpen(d) => owed'[s] + TasksOf(s) + Pub(s) + Answers(ses[s])
                       <= owed[s] + TasksOf(s)' + Pub(s)' + Answers(d)
    BY <1>1, <1>2, <2>2, <2>5, <2>6
  <2>. QED
    BY <1>1, <1>2, <1>3, <1>6, <2>2, <2>5, <2>7, SessionStep DEF Threads
<1>. QED
  BY <1>2, <1>5, <1>6

LEMMA CleanupUserPresenceStep ==
  ASSUME IInv, NEW s \in Sessions, CleanupUserPresence(s)
  PROVE  IInv'
<1>1. /\ ses \in [Sessions -> CSession] /\ WorkInv /\ EachInv(s)
      /\ owed \in [Sessions -> Nat] /\ ObjInv(kind, ses[s])
  BY Basics
<1>2. /\ logic.run = <<<<"cleanup", s>>>> /\ logic' = [logic EXCEPT !.run = <<>>]
      /\ ses' = ses /\ online' = online \ {s}
      /\ UNCHANGED <<kind, stage, toClose, table, refused, owed, second, unanswered>>
  BY DEF CleanupUserPresence, Task, workerFrame
<1>3. Settled /\ "cleanup" \notin Load /\ "cleanup" # "publish"
  BY <1>2 DEF Settled, Known, Load
<1>4. /\ WorkInv' /\ OtherTasks(s) /\ TasksOf(s) = TasksOf(s)' + 0 /\ TasksOf(s)' \in Nat
      /\ ~Publishing(s)' /\ ~Publishing(s)
  BY <1>1, <1>2, <1>3, TaskOver
<1>5. TasksOf(s)' = TasksOf(s) /\ Pub(s) = 0 /\ Pub(s)' = 0
  BY <1>4 DEF Pub
<1>6. EachInv(s)'
  <2>1. PlaceInv(s)'
    BY <1>1, <1>2 DEF EachInv, PlaceInv
  <2>2. QuotaInv(s)'
    BY <1>1, <1>2, <1>5 DEF EachInv, QuotaInv
  <2>3. OnlineInv(s)'
    BY <1>2, <1>4 DEF OnlineInv
  <2>4. OwedInv(s)'
    BY <1>1, <1>2, <1>5 DEF EachInv, OwedInv
  <2>. QED  BY <2>1, <2>2, <2>3, <2>4 DEF EachInv
<1>7. ses' = [ses EXCEPT ![s] = ses[s]]
  BY <1>1, <1>2
<1>8. owed' \in [Sessions -> Nat] /\ \A t \in Sessions \ {s} : owed'[t] = owed[t]
  BY <1>1, <1>2
<1>. QED
  BY <1>1, <1>2, <1>4, <1>6, <1>7, <1>8, OneStep

LEMMA RunLoopStep ==
  ASSUME IInv, RunLoop
  PROVE  IInv'
<1> DEFINE n == Head(logic.q)[1]
           s == Head(logic.q)[2]
           drop == n \in Load /\ ~IsOpen(ses[s])
<1>1. /\ logic.run = <<>> /\ logic.q # <<>>
      /\ logic' = [q |-> Tail(logic.q), run |-> IF drop THEN <<>> ELSE <<Head(logic.q)>>]
      /\ ses' = IF drop /\ kind = "resource" THEN [ses EXCEPT ![s].inflight = @ - 1] ELSE ses
      /\ UNCHANGED <<kind, stage, toClose, table, refused, owed, second, online, unanswered>>
  BY DEF RunLoop, workerFrame, Load
<1>2. WorkInv
  BY DEF IInv
<1>3. Head(logic.q) = <<n, s>> /\ s \in Known
  BY <1>1, <1>2, HeadTask
<1>4. PICK m, c : m = n /\ c = s
  OBVIOUS
<1>5. /\ c \in Sessions /\ c \in Known /\ ses[c].sock # "none"
      /\ Head(logic.q) = <<m, c>>
  BY <1>3, <1>4 DEF Known
<1>6. CASE ~drop
  <2>1. ses' = ses /\ logic' = [q |-> Tail(logic.q), run |-> <<Head(logic.q)>>]
    BY <1>1, <1>6
  <2>2. Settled
    BY <1>1, <2>1 DEF Settled, Known
  <2>3. /\ WorkInv'
        /\ \A t : /\ TasksOf(t)' = TasksOf(t)
                  /\ ~Publishing(t)' /\ ~Publishing(t)
                  /\ CleanupOf(t) => CleanupOf(t)'
    BY <1>1, <1>2, <2>1, <2>2, TaskTaken
  <2>4. OtherTasks(c)
    BY <2>3 DEF OtherTasks
  <2>. QED  BY <1>1, <1>5, <2>1, <2>3, <2>4, QueueStep
<1>7. CASE drop
  <2> DEFINE e == ses[c]
  <2>1. /\ m \in Load /\ ~IsOpen(e)
        /\ logic' = [q |-> Tail(logic.q), run |-> <<>>]
        /\ ses' = IF kind = "resource" THEN [ses EXCEPT ![c].inflight = @ - 1] ELSE ses
    BY <1>1, <1>4, <1>7
  <2>2. /\ ses \in [Sessions -> CSession] /\ e \in CSession /\ ObjInv(kind, e)
    BY <1>5, Basics
  <2>3. ses' = [ses EXCEPT ![c] = Return(e)]
    BY <1>5, <2>1, <2>2 DEF Return
  <2>4. Settled
    BY <1>1, <1>5, <2>2, <2>3, ReturnSettled
  <2>5. /\ WorkInv' /\ OtherTasks(c)
        /\ TasksOf(c) = TasksOf(c)' + 1 /\ TasksOf(c)' \in Nat
        /\ ~Publishing(c)' /\ ~Publishing(c)
        /\ CleanupOf(c) => CleanupOf(c)'
    BY <1>1, <1>2, <1>5, <2>1, <2>4, TaskDropped
  <2>6. TasksOf(c) + Pub(c) = TasksOf(c)' + Pub(c)' + 1
    BY <2>5 DEF Pub
  <2>7. Step(ses[c], e, "logic")
    BY CalmSelf, CalmIsStep
  <2>. QED
    BY <1>1, <1>5, <2>1, <2>2, <2>3, <2>5, <2>6, <2>7, TaskReturns DEF Threads
<1>. QED
  BY <1>6, <1>7

LEMMA SecondTaskStep ==
  ASSUME IInv, SecondTask
  PROVE  IInv'
<1>1. /\ second # <<>> /\ second' = Tail(second) /\ logic' = logic
      /\ UNCHANGED <<kind, stage, toClose, table, refused, owed, online>>
  BY DEF SecondTask, workerFrame
<1>2. WorkInv
  BY DEF IInv
<1>3. Head(second) \in {"deliver", "file"} \X Known
  BY <1>1, <1>2 DEF WorkInv
<1>4. PICK m \in {"deliver", "file"}, s \in Known : Head(second) = <<m, s>>
  BY <1>3
<1>5. s \in Sessions /\ ses[s].sock # "none"
  BY DEF Known
<1>6. \/ m = "deliver" /\ ses' = ses /\ unanswered' = unanswered
      \/ m = "file" /\ ses' = [ses EXCEPT ![s] = Return(Send(@, "rsp", "second"))]
         /\ unanswered' = unanswered
      \/ m = "file" /\ ses' = [ses EXCEPT ![s] = Return(@)] /\ unanswered' = unanswered \cup {s}
  BY <1>4 DEF SecondTask
<1>7. /\ kind \in {"chat", "resource"} /\ ses \in [Sessions -> CSession] /\ ses[s] \in CSession
      /\ ObjInv(kind, ses[s])
  BY <1>5, Basics
<1>8. ASSUME Settled
      PROVE  /\ WorkInv' /\ OtherTasks(s)
             /\ TasksOf(s) = TasksOf(s)' + IF m = "file" THEN 1 ELSE 0
             /\ TasksOf(s)' \in Nat
             /\ Publishing(s)' <=> Publishing(s)
             /\ CleanupOf(s) => CleanupOf(s)'
  BY <1>1, <1>2, <1>4, <1>8, SecondTaken
<1>9. CASE m = "deliver" /\ ses' = ses /\ unanswered' = unanswered
  <2>1. Settled
    BY <1>1, <1>9 DEF Settled, Known
  <2>2. TasksOf(s)' = TasksOf(s)
    BY <1>8, <1>9, <2>1
  <2>. QED  BY <1>1, <1>5, <1>8, <1>9, <2>1, <2>2, QueueStep
<1>10. ASSUME m = "file", NEW e, ObjInv(kind, e), Step(ses[s], e, "second"),
              e.inflight = ses[s].inflight, IsOpen(e) => IsOpen(ses[s]),
              IsOpen(e) /\ s \notin unanswered' => Answers(e) = Answers(ses[s]) + 1,
              ses' = [ses EXCEPT ![s] = Return(e)], unanswered \subseteq unanswered'
       PROVE  IInv'
  <2>1. e \in CSession /\ e.sock # "none"
    BY <1>5, <1>10 DEF ObjInv, Step
  <2>2. Settled
    BY <1>1, <1>5, <1>10, <2>1, ReturnSettled
  <2>3. /\ WorkInv' /\ OtherTasks(s)
        /\ TasksOf(s) = TasksOf(s)' + 1 /\ TasksOf(s)' \in Nat
        /\ Publishing(s)' <=> Publishing(s)
        /\ CleanupOf(s) => CleanupOf(s)'
    BY <1>8, <1>10, <2>2
  <2>4. TasksOf(s) + Pub(s) = TasksOf(s)' + Pub(s)' + 1
    BY <2>3 DEF Pub
  <2>. QED
    BY <1>1, <1>5, <1>10, <2>3, <2>4, TaskReturns DEF Threads
<1>11. CASE m = "file" /\ ses' = [ses EXCEPT ![s] = Return(Send(@, "rsp", "second"))]
            /\ unanswered' = unanswered
  <2> DEFINE e == Send(ses[s], "rsp", "second")
  <2>1. /\ ObjInv(kind, e) /\ Step(ses[s], e, "second") /\ e.inflight = ses[s].inflight
        /\ IsOpen(e) => IsOpen(ses[s]) /\ Answers(e) = Answers(ses[s]) + 1
    BY <1>5, <1>7, SendDoes DEF Threads
  <2>2. ses' = [ses EXCEPT ![s] = Return(e)]
    BY <1>11
  <2> HIDE DEF e
  <2>. QED  BY <1>10, <1>11, <2>1, <2>2
<1>12. CASE m = "file" /\ ses' = [ses EXCEPT ![s] = Return(@)] /\ unanswered' = unanswered \cup {s}
  <2>1. Step(ses[s], ses[s], "second")
    BY CalmSelf, CalmIsStep
  <2>2. ses' = [ses EXCEPT ![s] = Return(ses[s])]
    BY <1>12
  <2>. QED  BY <1>7, <1>10, <1>12, <2>1, <2>2
<1>. QED
  BY <1>6, <1>9, <1>11, <1>12


-----------------------------------------------------------------------------
(* Accepts, the rest of Close(), and the signal handler.                   *)

LEMMA SeqGrows ==
  ASSUME NEW S, NEW T, S \subseteq T, NEW q \in Seq(S)
  PROVE  q \in Seq(T)
OBVIOUS

LEMMA StartedIs ==
  ASSUME NEW c \in CSession
  PROVE  LET d == [c EXCEPT !.sock = "open", !.posted = <<"start">>]
         IN  /\ d \in CSession
             /\ d.sock = "open" /\ d.life = c.life /\ d.closer = c.closer
             /\ d.posted = <<"start">> /\ d.queue = c.queue
             /\ d.pending = c.pending /\ d.inflight = c.inflight
             /\ (d.writing <=> c.writing) /\ (d.bound <=> c.bound)
<1> DEFINE q == <<"start">>
           d == [c EXCEPT !.sock = "open", !.posted = q]
<1>1. q \in Seq(Ops)
  BY DEF Ops
<1> HIDE DEF q
<1>2. d \in CSession
  BY <1>1 DEF CSession
<1>3. /\ d.sock = "open" /\ d.life = c.life /\ d.closer = c.closer
      /\ d.posted = q /\ d.queue = c.queue
      /\ d.pending = c.pending /\ d.inflight = c.inflight
  BY DEF CSession
<1>4. (d.writing <=> c.writing) /\ (d.bound <=> c.bound)
  BY DEF CSession
<1> HIDE DEF d
<1>. QED
  BY <1>2, <1>3, <1>4 DEF d, q

LEMMA HandleAcceptStep ==
  ASSUME IInv, NEW s \in Sessions, HandleAccept(s)
  PROVE  IInv'
<1> DEFINE c == ses[s]
           d == [c EXCEPT !.sock = "open", !.posted = <<"start">>]
<1>1. /\ ses \in [Sessions -> CSession] /\ WorkInv /\ EachInv(s) /\ c \in CSession
      /\ owed \in [Sessions -> Nat] /\ ObjInv(kind, c)
  BY Basics
<1>2. /\ stage = "run" /\ c.sock = "none"
      /\ ses' = [ses EXCEPT ![s].sock = "open", ![s].posted = <<"start">>]
      /\ table' = table \cup {s}
      /\ UNCHANGED <<kind, logic, second, online, stage, toClose, owed, unanswered, refused>>
  BY DEF HandleAccept, history
<1>3. ses' = [ses EXCEPT ![s] = d]
  BY <1>1, <1>2
<1>4. /\ d \in CSession
      /\ d.sock = "open" /\ d.life = c.life /\ d.closer = c.closer
      /\ d.posted = <<"start">> /\ d.queue = c.queue
      /\ d.pending = c.pending /\ d.inflight = c.inflight
      /\ (d.writing <=> c.writing) /\ (d.bound <=> c.bound)
  BY <1>1, StartedIs
<1> HIDE DEF d
<1>5. /\ c.life = "open" /\ c.closer = "none" /\ c.posted = <<>> /\ c.queue = <<>> /\ ~c.bound
      /\ c.writing => c.queue # <<>>
      /\ kind = "resource" => c.pending = Len(c.queue) + Frames(c)
  BY <1>1, <1>2 DEF ObjInv
<1> HIDE DEF c
<1>6. Frames(c) = 0 /\ Frames(d) = 0 /\ Answers(d) = Answers(c)
  <2>1. Count(<<>>, {"rsp", "term"}) = 0 /\ Count(<<"start">>, {"rsp", "term"}) = 0
    BY CountEmpty, CountOne
  <2>. QED  BY <1>4, <1>5, <2>1 DEF Frames, Answers
<1>7. \A x : Contains(d.posted, x) <=> x = "start"
  BY <1>4 DEF Contains
<1>8. ObjInv(kind, d)
  BY <1>4, <1>5, <1>6, <1>7 DEF ObjInv, Alive
<1>9. ses'[s] = d /\ \A t \in Sessions \ {s} : ses'[t] = ses[t]
  BY <1>1, <1>3
<1>10. /\ \A t : /\ TasksOf(t)' = TasksOf(t)
                 /\ Publishing(t)' <=> Publishing(t)
                 /\ CleanupOf(t)' <=> CleanupOf(t)
  BY <1>2 DEF TasksOf, Publishing, CleanupOf
<1>11. OtherTasks(s)
  BY <1>10 DEF OtherTasks
<1>12. WorkInv'
  <2>1. Known \subseteq Known'
    BY <1>2, <1>9 DEF Known, c
  <2>2. QueueNames' = QueueNames /\ RunNames' = RunNames
    BY <1>2, NamesSame
  <2>3. /\ logic \in [q : Seq(QueueNames \X Known), run : Seq(RunNames \X Known)]
        /\ second \in Seq({"deliver", "file"} \X Known)
    BY <1>1 DEF WorkInv
  <2>4. /\ QueueNames \X Known \subseteq QueueNames \X Known'
        /\ RunNames \X Known \subseteq RunNames \X Known'
        /\ {"deliver", "file"} \X Known \subseteq {"deliver", "file"} \X Known'
    BY <2>1
  <2>5. /\ logic.q \in Seq(QueueNames \X Known') /\ logic.run \in Seq(RunNames \X Known')
        /\ second \in Seq({"deliver", "file"} \X Known')
    <3>1. logic.q \in Seq(QueueNames \X Known) /\ logic.run \in Seq(RunNames \X Known)
      BY <2>3
    <3>2. logic.q \in Seq(QueueNames \X Known')
      BY <2>4, <3>1, SeqGrows
    <3>3. logic.run \in Seq(RunNames \X Known')
      BY <2>4, <3>1, SeqGrows
    <3>4. second \in Seq({"deliver", "file"} \X Known')
      BY <2>3, <2>4, SeqGrows
    <3>. QED  BY <3>2, <3>3, <3>4
  <2>6. logic \in [q : Seq(QueueNames \X Known'), run : Seq(RunNames \X Known')]
    BY <2>3, <2>5
  <2>7. logic.run = <<>> \/ \E t \in RunNames \X Known' : logic.run = <<t>>
    BY <1>1, <2>4 DEF WorkInv
  <2>. QED  BY <1>2, <2>2, <2>5, <2>6, <2>7 DEF WorkInv
<1>13. PlaceInv(s)'
  BY <1>2, <1>4, <1>5, <1>7, <1>9 DEF PlaceInv, Alive
<1>14. QuotaInv(s)'
  BY <1>1, <1>2, <1>4, <1>9, <1>10 DEF EachInv, QuotaInv, c
<1>15. OnlineInv(s)'
  BY <1>1, <1>2, <1>5, <1>10 DEF EachInv, OnlineInv, c
<1>16. OwedInv(s)'
  <2>1. IsOpen(c)
    BY <1>5 DEF IsOpen
  <2>2. Pub(s)' = Pub(s)
    BY <1>10 DEF Pub
  <2>. QED  BY <1>1, <1>2, <1>6, <1>9, <1>10, <2>1, <2>2 DEF EachInv, OwedInv, c
<1>17. EachInv(s)'
  BY <1>13, <1>14, <1>15, <1>16 DEF EachInv
<1>18. owed' \in [Sessions -> Nat] /\ \A t \in Sessions \ {s} : owed'[t] = owed[t]
  BY <1>1, <1>2
<1>. QED
  BY <1>2, <1>3, <1>8, <1>11, <1>12, <1>17, <1>18, OneStep

LEMMA ShutBound ==
  ASSUME NEW b \in CSession
  PROVE  Shut(b).bound <=> b.bound
<1> DEFINE c == [b EXCEPT !.closer = "none"]
           q == Append(b.posted, "close")
           d == [c EXCEPT !.posted = q]
<1>1. c \in CSession
  BY DEF CSession
<1>2. c.posted = b.posted
  BY DEF CSession
<1>3. c.bound <=> b.bound
  BY DEF CSession
<1>4. q \in Seq(Ops)
  BY DEF CSession, Ops
<1>5. Shut(b) = IF b.closer = "io" THEN CompleteClose(c) ELSE d
  BY <1>2 DEF Shut
<1> HIDE DEF c, q
<1>6. CompleteClose(c).bound <=> c.bound
  BY <1>1, CompleteCloseIs
<1>7. d.bound <=> c.bound
  BY <1>1, <1>4, PostIs
<1> HIDE DEF d
<1>. QED
  BY <1>3, <1>5, <1>6, <1>7

LEMMA FinishCloseStep ==
  ASSUME IInv, NEW s \in Sessions, FinishClose(s)
  PROVE  IInv'
<1> DEFINE b == ses[s]
           d == Shut(b)
           cleanup == kind = "chat" /\ b.bound
           gone == \/ ~cleanup /\ online' = online
                   \/ ~Publishing(s) /\ online' = online \ {s}
<1>1. /\ ses \in [Sessions -> CSession] /\ WorkInv /\ EachInv(s) /\ b \in CSession
      /\ owed \in [Sessions -> Nat] /\ ObjInv(kind, b)
  BY Basics
<1>2. [b EXCEPT !.closer = "none"].bound <=> b.bound
  BY <1>1 DEF CSession
<1>3. /\ b.closer # "none" /\ ses' = [ses EXCEPT ![s] = d]
      /\ table' = table \ {s} /\ owed' = [owed EXCEPT ![s] = 0]
      /\ UNCHANGED <<kind, second, stage, toClose, unanswered, refused>>
  BY DEF FinishClose, Shut
<1>4. \/ ~cleanup /\ UNCHANGED <<logic, online>>
      \/ cleanup /\ Ingress
         /\ logic' = [logic EXCEPT !.q = Append(@, <<"cleanup", s>>)] /\ UNCHANGED online
      \/ cleanup /\ ~Publishing(s) /\ online' = online \ {s} /\ UNCHANGED logic
  BY <1>2 DEF FinishClose
<1>5. b.life = "closing" /\ b.sock # "none"
  BY <1>1, <1>3 DEF ObjInv
<1>6. b.closer # "io" => ~Contains(b.posted, "barrier")
  <2>1. b.closer \in {"io", "logic", "second", "main"}
    BY <1>1, <1>3 DEF CSession
  <2>. QED  BY <1>1, <2>1 DEF EachInv, PlaceInv
<1>7. /\ ObjInv(kind, d) /\ ~Alive(d) /\ d.closer = "none" /\ d.sock # "none"
      /\ d.inflight = b.inflight
      /\ Contains(d.posted, "barrier") <=> Contains(b.posted, "barrier")
  BY <1>1, <1>3, <1>6, ShutDoes
<1>8. d.bound <=> b.bound
  BY <1>1, ShutBound
<1> HIDE DEF b, d
<1>9. Settled /\ s \in Known
  <2>1. Known' = Known
    BY <1>1, <1>3, <1>5, <1>7, KnownSame DEF b
  <2>. QED  BY <1>3, <1>5, <2>1 DEF Settled, Known, b
<1>10. ses'[s] = d
  BY <1>1, <1>3
<1>11. /\ WorkInv' /\ OtherTasks(s) /\ TasksOf(s)' = TasksOf(s)
       /\ Publishing(s)' <=> Publishing(s)
       /\ gone \/ CleanupOf(s)'
  <2>1. CASE gone /\ logic' = logic
    <3>1. /\ WorkInv'
          /\ \A t : /\ TasksOf(t)' = TasksOf(t)
                    /\ Publishing(t)' <=> Publishing(t)
                    /\ CleanupOf(t)' <=> CleanupOf(t)
      BY <1>1, <1>3, <1>9, <2>1, NoneMoves
    <3>. QED  BY <2>1, <3>1 DEF OtherTasks
  <2>2. CASE cleanup /\ Ingress /\ logic' = [logic EXCEPT !.q = Append(@, <<"cleanup", s>>)]
    <3>1. /\ "cleanup" \in QueueNames /\ stage \notin {"second", "drain", "stopped"}
          /\ "cleanup" \notin Load
      BY <2>2 DEF QueueNames, TaskNames, Ingress, Load
    <3>2. /\ WorkInv' /\ OtherTasks(s) /\ TasksOf(s)' = TasksOf(s) + 0
          /\ Publishing(s)' <=> Publishing(s)
          /\ CleanupOf(s)'
      BY <1>1, <1>3, <1>9, <2>2, <3>1, TaskPosted
    <3>3. TasksOf(s)' = TasksOf(s)
      BY <1>1, <3>2, TasksNat
    <3>. QED  BY <3>2, <3>3
  <2>. QED  BY <1>4, <2>1, <2>2
<1>12. PlaceInv(s)'
  <2>1. PlaceInv(s)
    BY <1>1 DEF EachInv
  <2>2. stage # "stopped"
    BY <1>5, <2>1 DEF PlaceInv, b
  <2>3. /\ stage \notin {"drain", "stopped"} => ~Contains(d.posted, "barrier")
        /\ stage = "drain" => Contains(d.posted, "barrier")
    BY <1>5, <1>7, <2>1 DEF PlaceInv, b
  <2>. QED  BY <1>3, <1>7, <1>10, <2>2, <2>3 DEF PlaceInv
<1>13. QuotaInv(s)'
  BY <1>1, <1>3, <1>7, <1>10, <1>11 DEF EachInv, QuotaInv, b
<1>14. OnlineInv(s)'
  <2>1. s \in online \/ Publishing(s) => cleanup
    BY <1>1 DEF EachInv, OnlineInv, b
  <2>2. CASE gone
    BY <1>11, <2>1, <2>2 DEF OnlineInv
  <2>3. CASE cleanup /\ CleanupOf(s)'
    BY <1>3, <1>8, <1>10, <2>3 DEF OnlineInv
  <2>4. online' = online => (~cleanup => gone)
    OBVIOUS
  <2>. QED  BY <1>4, <1>11, <2>2, <2>3, <2>4
<1>15. OwedInv(s)'
  BY <1>7, <1>10 DEF OwedInv, IsOpen, Alive
<1>16. EachInv(s)'
  BY <1>12, <1>13, <1>14, <1>15 DEF EachInv
<1>17. owed' \in [Sessions -> Nat] /\ \A t \in Sessions \ {s} : owed'[t] = owed[t]
  BY <1>1, <1>3
<1>18. online' = online \/ online' = online \ {s}
  BY <1>4
<1>. QED
  BY <1>3, <1>7, <1>11, <1>16, <1>17, <1>18, OneStep

LEMMA StopCloseStep ==
  ASSUME IInv, NEW s \in Sessions, StopClose(s)
  PROVE  IInv'
<1> DEFINE c == ses[s]
           d == BeginClose(c, "main")
<1>1. /\ ses \in [Sessions -> CSession] /\ WorkInv /\ EachInv(s)
      /\ owed \in [Sessions -> Nat] /\ ObjInv(kind, c)
  BY Basics
<1>2. /\ stage = "closing" /\ s \in toClose /\ toClose' = toClose \ {s}
      /\ ses' = [ses EXCEPT ![s] = d]
      /\ UNCHANGED <<kind, table, logic, second, online, stage, owed, unanswered, refused>>
  BY DEF StopClose, stopFrame, history
<1>3. c.sock # "none" /\ "main" \in Threads
  BY <1>1, <1>2 DEF EachInv, PlaceInv, Threads
<1>4. ObjInv(kind, d) /\ Step(c, d, "main") /\ d.inflight = c.inflight /\ ~Alive(d)
  BY <1>1, <1>3, BeginCloseDoes
<1> HIDE DEF c, d
<1>5. ses'[s] = d /\ d.sock # "none"
  BY <1>1, <1>2, <1>3, <1>4 DEF Step
<1>6. Settled
  <2>1. Known' = Known
    BY <1>1, <1>2, <1>3, <1>5, KnownSame DEF c
  <2>. QED  BY <1>2, <2>1 DEF Settled
<1>7. /\ WorkInv'
      /\ \A t : /\ TasksOf(t)' = TasksOf(t)
                /\ Publishing(t)' <=> Publishing(t)
                /\ CleanupOf(t)' <=> CleanupOf(t)
  BY <1>1, <1>2, <1>6, NoneMoves
<1>8. OtherTasks(s)
  BY <1>7 DEF OtherTasks
<1>9. PlaceInv(s)'
  <2>1. s \in table => Alive(c) \/ c.closer # "none"
    BY <1>1 DEF EachInv, PlaceInv, c
  <2>2. s \in table => d.closer # "none"
    BY <1>4, <2>1 DEF Step, Alive
  <2>3. ~Contains(d.posted, "barrier")
    BY <1>1, <1>2, <1>4 DEF EachInv, PlaceInv, Step, c
  <2>. QED  BY <1>2, <1>4, <1>5, <2>2, <2>3 DEF PlaceInv
<1>10. QuotaInv(s)'
  BY <1>1, <1>2, <1>4, <1>5, <1>7 DEF EachInv, QuotaInv, c
<1>11. OnlineInv(s)'
  BY <1>1, <1>2, <1>3, <1>4, <1>5, <1>7, OnlineStep DEF EachInv, c
<1>12. OwedInv(s)'
  BY <1>4, <1>5 DEF OwedInv, IsOpen, Alive
<1>13. EachInv(s)'
  BY <1>9, <1>10, <1>11, <1>12 DEF EachInv
<1>14. owed' \in [Sessions -> Nat] /\ \A t \in Sessions \ {s} : owed'[t] = owed[t]
  BY <1>1, <1>2
<1>. QED
  BY <1>2, <1>4, <1>7, <1>8, <1>13, <1>14, OneStep


\* main() goes on: only the stage and the list of CServer::Stop change.
LEMMA StageStep ==
  ASSUME IInv,
         UNCHANGED <<kind, ses, table, logic, second, online, owed, unanswered, refused>>,
         stage' \in {"run", "closing", "logic", "second", "drain", "stopped"},
         toClose' \subseteq Sessions,
         stage' \in {"second", "drain", "stopped"} => logic.q = <<>> /\ logic.run = <<>>,
         stage' \in {"drain", "stopped"} => second = <<>>,
         \A s \in Sessions : PlaceInv(s)'
  PROVE  IInv'
<1>1. /\ BaseInv /\ WorkInv /\ \A s \in Sessions : ObjInv(kind, ses[s]) /\ EachInv(s)
  BY DEF IInv
<1>2. BaseInv'
  BY <1>1 DEF BaseInv
<1>3. Known' = Known
  BY DEF Known
<1>4. QueueNames' = QueueNames /\ RunNames' = RunNames
  BY NamesSame
<1>5. WorkInv'
  BY <1>1, <1>3, <1>4 DEF WorkInv
<1>6. ASSUME NEW s \in Sessions
      PROVE  ObjInv(kind', ses'[s]) /\ EachInv(s)'
  <2>1. TasksOf(s)' = TasksOf(s)
    BY DEF TasksOf
  <2>2. (Publishing(s)' <=> Publishing(s)) /\ (CleanupOf(s)' <=> CleanupOf(s))
    BY DEF Publishing, CleanupOf
  <2>3. Pub(s)' = Pub(s)
    BY <2>2 DEF Pub
  <2>4. EachInv(s)
    BY <1>1
  <2>5. QuotaInv(s)'
    BY <2>1, <2>4 DEF EachInv, QuotaInv
  <2>6. OnlineInv(s)'
    BY <2>2, <2>4 DEF EachInv, OnlineInv
  <2>7. OwedInv(s)'
    BY <2>1, <2>3, <2>4 DEF EachInv, OwedInv
  <2>8. ObjInv(kind', ses'[s])
    BY <1>1
  <2>. QED  BY <2>5, <2>6, <2>7, <2>8 DEF EachInv
<1>. QED
  BY <1>2, <1>5, <1>6 DEF IInv

LEMMA EachPlace ==
  ASSUME IInv, NEW s \in Sessions
  PROVE  PlaceInv(s) /\ ObjInv(kind, ses[s])
BY DEF IInv, EachInv

LEMMA StopServerStep ==
  ASSUME IInv, StopServer
  PROVE  IInv'
<1>1. /\ stage = "run" /\ stage' = "closing" /\ toClose' = table
      /\ UNCHANGED <<kind, ses, table, logic, second, online, owed, unanswered, refused>>
  BY DEF StopServer, stopFrame, history
<1>2. table \subseteq Sessions
  BY DEF IInv, BaseInv
<1>3. ASSUME NEW s \in Sessions
      PROVE  PlaceInv(s)'
  <2>1. PlaceInv(s)
    BY EachPlace
  <2>. QED  BY <1>1, <2>1 DEF PlaceInv
<1>. QED
  BY <1>1, <1>2, <1>3, StageStep

LEMMA StopLogicStep ==
  ASSUME IInv, StopLogic
  PROVE  IInv'
<1>1. /\ stage = "closing" /\ stage' = "logic" /\ toClose = {} /\ toClose' = toClose
      /\ Free("main")
      /\ UNCHANGED <<kind, ses, table, logic, second, online, owed, unanswered, refused>>
  BY DEF StopLogic, stopFrame, history
<1>2. ASSUME NEW s \in Sessions
      PROVE  PlaceInv(s)'
  <2>1. PlaceInv(s) /\ ses[s].closer # "main"
    BY <1>1, EachPlace DEF Free
  <2>. QED  BY <1>1, <2>1 DEF PlaceInv
<1>. QED
  BY <1>1, <1>2, StageStep

LEMMA StopSecondStep ==
  ASSUME IInv, StopSecond
  PROVE  IInv'
<1>1. /\ stage = "logic" /\ stage' = "second" /\ logic = Idle /\ toClose' = toClose
      /\ Free("logic")
      /\ UNCHANGED <<kind, ses, table, logic, second, online, owed, unanswered, refused>>
  BY DEF StopSecond, stopFrame, history
<1>2. toClose' \subseteq Sessions /\ logic.q = <<>> /\ logic.run = <<>>
  BY <1>1 DEF IInv, BaseInv, Idle
<1>3. ASSUME NEW s \in Sessions
      PROVE  PlaceInv(s)'
  <2>1. PlaceInv(s) /\ ses[s].closer # "logic"
    BY <1>1, EachPlace DEF Free
  <2>. QED  BY <1>1, <2>1 DEF PlaceInv
<1>. QED
  BY <1>1, <1>2, <1>3, StageStep

LEMMA StopIoStep ==
  ASSUME IInv, StopIo
  PROVE  IInv'
<1>1. /\ stage = "drain" /\ stage' = "stopped" /\ toClose' = toClose
      /\ \A s \in Sessions : "barrier" \notin Range(ses[s].posted)
      /\ UNCHANGED <<kind, ses, table, logic, second, online, owed, unanswered, refused>>
  BY DEF StopIo, stopFrame, history
<1>2. toClose' \subseteq Sessions /\ logic.q = <<>> /\ logic.run = <<>> /\ second = <<>>
  BY <1>1 DEF IInv, BaseInv, WorkInv
<1>3. ASSUME NEW s \in Sessions
      PROVE  PlaceInv(s)'
  <2>1. PlaceInv(s) /\ ses[s].posted \in Seq(Ops)
    BY EachPlace DEF ObjInv, CSession
  <2>2. ~Contains(ses[s].posted, "barrier")
    BY <1>1, <2>1 DEF Contains, Range
  <2>. QED  BY <1>1, <2>1, <2>2 DEF PlaceInv
<1>. QED
  BY <1>1, <1>2, <1>3, StageStep

\* The barrier behind what an IO thread has to do.
LEMMA BarrierPosted ==
  ASSUME NEW k, NEW c, ObjInv(k, c), c.sock # "none"
  PROVE  LET d == [c EXCEPT !.posted = Append(@, "barrier")]
         IN  /\ ObjInv(k, d) /\ Contains(d.posted, "barrier")
             /\ d.sock = c.sock /\ d.life = c.life /\ d.closer = c.closer
             /\ d.inflight = c.inflight /\ (d.bound <=> c.bound) /\ Answers(d) = Answers(c)
<1> DEFINE q == Append(c.posted, "barrier")
           d == [c EXCEPT !.posted = q]
<1>1. c \in CSession /\ c.posted \in Seq(Ops) /\ "barrier" \in Ops
  BY DEF ObjInv, CSession, Ops
<1>2. q \in Seq(Ops)
  BY <1>1
<1>3. /\ d \in CSession
      /\ d.sock = c.sock /\ d.life = c.life /\ d.closer = c.closer
      /\ d.posted = q /\ d.queue = c.queue
      /\ d.pending = c.pending /\ d.inflight = c.inflight
      /\ (d.writing <=> c.writing) /\ (d.bound <=> c.bound)
  BY <1>1, <1>2, PostIs
<1>4. [c EXCEPT !.posted = Append(@, "barrier")] = d
  OBVIOUS
<1>5. \A x : Contains(q, x) <=> Contains(c.posted, x) \/ x = "barrier"
  BY <1>1, ContainsAppend
<1>6. CloseFirst(c.posted) => CloseFirst(q)
  BY <1>1, CloseFirstAppend
<1>7. Count(q, {"rsp", "term"}) = Count(c.posted, {"rsp", "term"})
  <2>1. Count(q, {"rsp", "term"}) = Count(c.posted, {"rsp", "term"}) + 0
    BY <1>1, CountAppend
  <2>2. Count(c.posted, {"rsp", "term"}) \in Nat
    BY <1>1, CountFinite
  <2>. QED  BY <2>1, <2>2
<1> HIDE DEF d, q
<1>8. Frames(d) = Frames(c) /\ Answers(d) = Answers(c)
  BY <1>3, <1>7 DEF Frames, Answers
<1>9. ObjInv(k, d)
  BY <1>3, <1>5, <1>6, <1>8 DEF ObjInv, Alive
<1>10. Contains(d.posted, "barrier")
  BY <1>3, <1>5
<1>. QED
  BY <1>3, <1>4, <1>8, <1>9, <1>10

LEMMA DrainStep ==
  ASSUME IInv, Drain
  PROVE  IInv'
<1>1. /\ BaseInv /\ WorkInv /\ ses \in [Sessions -> CSession]
      /\ \A s \in Sessions : ObjInv(kind, ses[s]) /\ EachInv(s)
  BY DEF IInv, BaseInv
<1>2. /\ stage = "second" /\ second = <<>> /\ Free("second") /\ stage' = "drain"
      /\ ses' = [s \in Sessions |-> IF ses[s].sock = "none" THEN ses[s]
                                    ELSE [ses[s] EXCEPT !.posted = Append(@, "barrier")]]
      /\ UNCHANGED <<kind, table, logic, second, online, toClose, owed, unanswered, refused>>
  BY DEF Drain, stopFrame, history
<1>3. ASSUME NEW s \in Sessions
      PROVE  LET c == ses[s]
                 d == ses'[s]
             IN  /\ ObjInv(kind, d) /\ (c.sock # "none" => Contains(d.posted, "barrier"))
                 /\ d.sock = c.sock /\ d.life = c.life /\ d.closer = c.closer
                 /\ d.inflight = c.inflight /\ (d.bound <=> c.bound) /\ Answers(d) = Answers(c)
  <2> DEFINE e == [ses[s] EXCEPT !.posted = Append(@, "barrier")]
  <2>1. ses'[s] = IF ses[s].sock = "none" THEN ses[s] ELSE e
    BY <1>2
  <2>2. ses[s].sock # "none" =>
          /\ ObjInv(kind, e) /\ Contains(e.posted, "barrier")
          /\ e.sock = ses[s].sock /\ e.life = ses[s].life /\ e.closer = ses[s].closer
          /\ e.inflight = ses[s].inflight /\ (e.bound <=> ses[s].bound)
          /\ Answers(e) = Answers(ses[s])
    BY <1>1, BarrierPosted
  <2> HIDE DEF e
  <2>3. ObjInv(kind, ses[s])
    BY <1>1
  <2>. QED  BY <2>1, <2>2, <2>3
<1>4. BaseInv'
  <2>1. \A s \in Sessions : ses'[s] \in CSession
    BY <1>3 DEF ObjInv
  <2>2. DOMAIN ses' = Sessions /\ ses' = [s \in DOMAIN ses' |-> ses'[s]]
    BY <1>2
  <2>3. ses' \in [Sessions -> CSession]
    BY <2>1, <2>2
  <2>. QED  BY <1>1, <1>2, <2>3 DEF BaseInv
<1>5. WorkInv'
  <2>1. Known' = Known
    BY <1>3 DEF Known
  <2>2. QueueNames' = QueueNames /\ RunNames' = RunNames
    BY <1>2, NamesSame
  <2>. QED  BY <1>1, <1>2, <2>1, <2>2 DEF WorkInv
<1>6. ASSUME NEW s \in Sessions
      PROVE  EachInv(s)'
  <2> DEFINE c == ses[s]
             d == ses'[s]
  <2>1. /\ c.sock # "none" => Contains(d.posted, "barrier")
        /\ d.sock = c.sock /\ d.life = c.life /\ d.closer = c.closer
        /\ d.inflight = c.inflight /\ (d.bound <=> c.bound) /\ Answers(d) = Answers(c)
    BY <1>3
  <2>2. PlaceInv(s) /\ QuotaInv(s) /\ OnlineInv(s) /\ OwedInv(s) /\ ObjInv(kind, c)
    BY <1>1 DEF EachInv
  <2>3. TasksOf(s)' = TasksOf(s)
    BY <1>2 DEF TasksOf
  <2>4. (Publishing(s)' <=> Publishing(s)) /\ (CleanupOf(s)' <=> CleanupOf(s))
    BY <1>2 DEF Publishing, CleanupOf
  <2>5. Pub(s)' = Pub(s)
    BY <2>4 DEF Pub
  <2>6. c.closer # "second"
    BY <1>2 DEF Free
  <2>7. PlaceInv(s)'
    BY <1>2, <2>1, <2>2, <2>6 DEF PlaceInv, Alive
  <2>8. QuotaInv(s)'
    BY <1>2, <2>1, <2>2, <2>3 DEF QuotaInv
  <2>9. OnlineInv(s)'
    BY <1>2, <2>1, <2>2, <2>4 DEF OnlineInv, Alive
  <2>10. OwedInv(s)'
    BY <1>2, <2>1, <2>2, <2>3, <2>5 DEF OwedInv, IsOpen
  <2>. QED  BY <2>7, <2>8, <2>9, <2>10 DEF EachInv
<1>7. \A s \in Sessions : ObjInv(kind', ses'[s])
  BY <1>2, <1>3
<1>. QED
  BY <1>4, <1>5, <1>6, <1>7 DEF IInv

-----------------------------------------------------------------------------
(* The invariant, and what it says.                                        *)

LEMMA Initially ==
  ASSUME Init
  PROVE  IInv
<1>1. /\ kind \in Kinds /\ ses = [s \in Sessions |-> NewSession]
      /\ table = {} /\ online = {} /\ toClose = {} /\ logic = Idle /\ second = <<>>
      /\ stage = "run" /\ owed = [s \in Sessions |-> 0] /\ refused = FALSE
  BY DEF Init
<1>2. NewSession \in CSession
  BY SessionsAssumption DEF NewSession, CSession
<1>3. BaseInv
  BY <1>1, <1>2 DEF BaseInv
<1>4. logic.q = <<>> /\ logic.run = <<>>
  BY <1>1 DEF Idle
<1>5. WorkInv
  BY <1>1, <1>4 DEF WorkInv, Idle
<1>6. \A x : ~Contains(<<>>, x)
  BY DEF Contains
<1>7. Frames(NewSession) = 0 /\ Answers(NewSession) = 0
  BY CountEmpty DEF Frames, Answers, NewSession
<1>8. \A k : ObjInv(k, NewSession)
  BY <1>2, <1>6, <1>7 DEF ObjInv, NewSession, Alive
<1>9. ASSUME NEW s \in Sessions
      PROVE  ObjInv(kind, ses[s]) /\ EachInv(s)
  <2>1. ses[s] = NewSession /\ owed[s] = 0
    BY <1>1
  <2>2. TasksOf(s) = 0
    BY <1>1, <1>4, CountEmpty DEF TasksOf
  <2>3. ~Publishing(s) /\ Pub(s) = 0
    BY <1>4 DEF Publishing, Pub
  <2>4. PlaceInv(s)
    BY <1>1, <1>6, <2>1 DEF PlaceInv, NewSession, Alive
  <2>5. QuotaInv(s)
    BY <2>1, <2>2 DEF QuotaInv, NewSession
  <2>6. OnlineInv(s)
    BY <1>1, <2>3 DEF OnlineInv
  <2>7. OwedInv(s)
    BY <1>7, <2>1, <2>2, <2>3 DEF OwedInv
  <2>. QED  BY <1>8, <2>1, <2>4, <2>5, <2>6, <2>7 DEF EachInv
<1>. QED
  BY <1>3, <1>5, <1>9 DEF IInv

LEMMA Stutter ==
  ASSUME IInv, UNCHANGED vars
  PROVE  IInv'
<1>1. UNCHANGED <<kind, ses, table, logic, second, online, stage, toClose, owed, unanswered, refused>>
  BY DEF vars, history
<1>2. /\ stage' \in {"run", "closing", "logic", "second", "drain", "stopped"}
      /\ toClose' \subseteq Sessions
      /\ stage' \in {"second", "drain", "stopped"} => logic.q = <<>> /\ logic.run = <<>>
      /\ stage' \in {"drain", "stopped"} => second = <<>>
  BY <1>1 DEF IInv, BaseInv, WorkInv
<1>3. ASSUME NEW s \in Sessions
      PROVE  PlaceInv(s)'
  <2>1. PlaceInv(s)
    BY EachPlace
  <2>. QED  BY <1>1, <2>1 DEF PlaceInv
<1>. QED
  BY <1>1, <1>2, <1>3, StageStep

LEMMA NextStep ==
  ASSUME IInv, [Next]_vars
  PROVE  IInv'
<1>1. ASSUME NEW s \in Sessions, HandleAccept(s)  PROVE IInv'
  BY <1>1, HandleAcceptStep
<1>2. ASSUME NEW s \in Sessions, HeartbeatExpired(s)  PROVE IInv'
  BY <1>2, HeartbeatExpiredStep
<1>3. ASSUME NEW s \in Sessions, PostToUser(s, "kick") \/ PostToUser(s, "push")  PROVE IInv'
  BY <1>3, PostToUserStep
<1>4. ASSUME NEW s \in Sessions, NEW f \in {"login", "request", "bad", "other"}, AsyncRead(s, f)
      PROVE  IInv'
  BY <1>4, AsyncReadStep
<1>5. ASSUME NEW s \in Sessions, ReadError(s) \/ WriteDone(s) \/ WriteError(s)  PROVE IInv'
  BY <1>5, ReadErrorStep, WriteDoneStep, WriteErrorStep
<1>6. ASSUME IoStep  PROVE IInv'
  BY <1>6, RunPostedStep, PostMsgToQueStep, DrainTimeoutStep, FinishCloseStep DEF IoStep
<1>7. ASSUME NEW s \in Sessions,
             \/ LoginHandler(s) \/ Publish(s) \/ handleResourceLogin(s)
             \/ DispatchClientMessage(s) \/ task_callback(s) \/ CleanupUserPresence(s)
      PROVE  IInv'
  BY <1>7, LoginHandlerStep, PublishStep, handleResourceLoginStep,
     DispatchClientMessageStep, task_callbackStep, CleanupUserPresenceStep
<1>8. ASSUME NEW s \in Sessions, NotifyUser(s, "kick") \/ NotifyUser(s, "push")  PROVE IInv'
  BY <1>8, NotifyUserStep
<1>9. ASSUME LogicStep  PROVE IInv'
  BY <1>7, <1>8, <1>9, RunLoopStep DEF LogicStep
<1>10. ASSUME StopStep  PROVE IInv'
  BY <1>10, StopCloseStep, StopLogicStep, StopSecondStep, DrainStep, StopIoStep DEF StopStep
<1>11. ASSUME SecondTask \/ StopServer  PROVE IInv'
  BY <1>11, SecondTaskStep, StopServerStep
<1>12. ASSUME UNCHANGED vars  PROVE IInv'
  BY <1>12, Stutter
<1>. QED
  BY <1>1, <1>2, <1>3, <1>4, <1>5, <1>6, <1>9, <1>10, <1>11, <1>12 DEF Next

(* In every state the object of a session, its place in the connection     *)
(* table, the tasks the workers hold for it and how far main() has stopped *)
(* the server fit together (CSession, CServer, LogicSystem, main).         *)
THEOREM Invariance == Spec => []IInv
<1>1. Init => IInv
  BY Initially
<1>2. IInv /\ [Next]_vars => IInv'
  BY NextStep
<1>. QED
  BY <1>1, <1>2, PTL DEF Spec

(* What a ResourceServer session is charged for is what it holds, for any  *)
(* number of sessions and any limits: _send_pending_frames is the frames   *)
(* posted or queued, and what SessionTaskQuota holds of _inflight_task_-   *)
(* bytes the tasks in the logic and the file queue.                        *)
THEOREM ChargesAlwaysExact == Spec => []ChargesExact
<1>1. ASSUME IInv
      PROVE  ChargesExact
  <2>1. BaseInv /\ WorkInv /\ \A s \in Sessions : ObjInv(kind, ses[s]) /\ EachInv(s)
    BY <1>1 DEF IInv
  <2>2. Known \subseteq Sessions /\ QueueNames \subseteq TaskNames
    BY DEF Known, QueueNames, TaskNames
  <2>3. /\ QueueNames \X Known \subseteq TaskNames \X Sessions
        /\ {"deliver", "file"} \X Known \subseteq {"deliver", "file"} \X Sessions
    BY <2>2
  <2>4. logic.q \in Seq(QueueNames \X Known) /\ second \in Seq({"deliver", "file"} \X Known)
    BY <2>1 DEF WorkInv
  <2>5. logic.q \in Seq(TaskNames \X Sessions)
    BY <2>3, <2>4, SeqGrows
  <2>6. second \in Seq({"deliver", "file"} \X Sessions)
    BY <2>3, <2>4, SeqGrows
  <2>7. TypeOK
    BY <2>1, <2>5, <2>6 DEF TypeOK, BaseInv
  <2>8. ASSUME kind = "resource", NEW s \in Sessions
        PROVE  /\ ses[s].pending = Len(ses[s].queue) + Count(ses[s].posted, {"rsp", "term"})
               /\ ses[s].inflight = TasksOf(s)
    BY <2>1, <2>8 DEF ObjInv, EachInv, QuotaInv, Frames
  <2>. QED  BY <2>7, <2>8 DEF ChargesExact
<1>. QED
  BY <1>1, Invariance, PTL

(* A session that is open and idle has answered every request it took, in  *)
(* both servers: the answer of a handler is posted to the IO thread, sent  *)
(* in the order of the queue, and lost only with the session (CSession,    *)
(* LogicSystem, FileWorker).                                               *)
THEOREM AlwaysAnsweredOrClosed == Spec => []AnsweredOrClosed
<1>1. ASSUME IInv
      PROVE  AnsweredOrClosed
  <2> SUFFICES ASSUME NEW s \in Sessions, IsOpen(ses[s]), ses[s].posted = <<>>,
                      ses[s].queue = <<>>, TasksOf(s) = 0, logic.run # <<<<"publish", s>>>>,
                      s \notin unanswered
               PROVE  owed[s] = 0
    BY DEF AnsweredOrClosed
  <2>1. EachInv(s) /\ WorkInv /\ owed[s] \in Nat
    BY <1>1, Basics
  <2>2. owed[s] <= TasksOf(s) + Pub(s) + Answers(ses[s])
    BY <2>1 DEF EachInv, OwedInv
  <2>3. ~Publishing(s)
    <3>1. logic.run = <<>> \/ \E t : logic.run = <<t>>
      BY <2>1 DEF WorkInv
    <3>2. ASSUME NEW t, logic.run = <<t>>, Publishing(s)
          PROVE  FALSE
      <4>1. Head(<<t>>) = t
        OBVIOUS
      <4>2. t = <<"publish", s>>
        BY <3>2, <4>1 DEF Publishing
      <4>. QED  BY <3>2, <4>2
    <3>3. Publishing(s) => logic.run # <<>>
      BY DEF Publishing
    <3>. QED  BY <3>1, <3>2, <3>3
  <2>4. Pub(s) = 0
    BY <2>3 DEF Pub
  <2>5. Answers(ses[s]) = 0
    BY CountEmpty DEF Answers, Frames
  <2>. QED  BY <2>1, <2>2, <2>4, <2>5
<1>. QED
  BY <1>1, Invariance, PTL

(* A stop is clean, however many sessions there are and whatever they are  *)
(* doing: no drained task finds the next queue closed, and behind the IO   *)
(* pool no session is open, none is in the table of CServer and no user    *)
(* is left online (main, CServer::Stop, LogicSystem::Stop, Drain).         *)
THEOREM StopsAreClean == Spec => []StoppedIsClean
<1>1. ASSUME IInv
      PROVE  StoppedIsClean
  <2>1. BaseInv /\ WorkInv /\ \A s \in Sessions : ObjInv(kind, ses[s]) /\ EachInv(s)
    BY <1>1 DEF IInv
  <2>2. refused = FALSE /\ table \subseteq Sessions /\ online \subseteq Sessions
    BY <2>1 DEF BaseInv
  <2>3. ASSUME stage = "stopped", NEW s \in Sessions
        PROVE  /\ ses[s].sock # "none" => ses[s].life = "closed"
               /\ s \notin table /\ s \notin online
    <3>1. PlaceInv(s) /\ OnlineInv(s) /\ ObjInv(kind, ses[s])
      BY <2>1 DEF EachInv
    <3>2. ses[s].sock # "none" => ses[s].life = "closed"
      BY <2>3, <3>1 DEF PlaceInv
    <3>3. ses[s].sock # "none" => ~Alive(ses[s]) /\ ses[s].closer = "none"
      BY <3>1, <3>2 DEF ObjInv, Alive
    <3>4. s \notin table
      BY <3>1, <3>3 DEF PlaceInv
    <3>5. logic.q = <<>> /\ logic.run = <<>>
      BY <2>1, <2>3 DEF WorkInv
    <3>6. ~CleanupOf(s)
      BY <3>5 DEF CleanupOf, Contains
    <3>7. ses[s].bound => ses[s].sock # "none"
      BY <3>1 DEF ObjInv
    <3>8. s \notin online
      BY <3>1, <3>3, <3>6, <3>7 DEF OnlineInv
    <3>. QED  BY <3>2, <3>4, <3>8
  <2>. QED  BY <2>2, <2>3 DEF StoppedIsClean
<1>. QED
  BY <1>1, Invariance, PTL
=============================================================================
