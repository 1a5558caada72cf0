--------------------------- MODULE Presence_proofs ---------------------------
(***************************************************************************)
(* Theorems about Presence, for every number of servers, sessions, login   *)
(* requests and faults.                                                    *)
(***************************************************************************)
EXTENDS Presence, TLAPS

\* The time a prover has for a step.
USE ZenonT(3), SMTT(30)

-----------------------------------------------------------------------------
(* The inductive invariant.                                                *)

FaultsOK == faults \in [count : Nat, max : Nat, kinds : SUBSET AllFaults]

\* What is posted to the worker of v: logins and cleanups of its own sessions.
TasksOf(v) ==
  {t \in Tasks : t.session # None =>
     Home[t.session] = v /\ (t.task = "cleanup" => life[t.session] = "closed")}

\* A task is where its handler can be, and an idle worker at the start.
Fits(queue, where, asked) ==
  /\ where # "start" => queue # <<>> /\ Head(queue).task # "kick"
  /\ where \in {"kick", "rpc", "bind", "uip", "table", "session"} => Head(queue).task = "login"
  /\ where \in {"check", "delUip"} => Head(queue).task = "cleanup"
  /\ where = "rpc" <=> asked # None

WorkersInv ==
  \A v \in Servers :
    shard[v] \in Seq(TasksOf(v)) /\ Fits(shard[v], step[v], target[v])

\* A session has been open when it is bound.
BoundInv ==
  /\ newest # None => newest \in bound
  /\ \A s \in bound : life[s] # "new"

InLock(v) == step[v] \notin {"start", "lock"}

\* Only the holder of the lock is between its acquisition and its release.
LockInv == \A v \in Servers : InLock(v) => lock = v

\* The session that the running task is about.
Current(v) == Head(shard[v]).session

\* The writes of a login are under way.
Publishing(v) == step[v] \in {"uip", "table", "session"}

\* A login publishes the session it has bound, in this order.
PublishInv(v) ==
  Publishing(v) =>
    /\ newest = Current(v)
    /\ step[v] \in {"table", "session"} => uip = v
    /\ step[v] = "session" => table[v] = newest

NewestOpen == newest # None /\ life[newest] = "open"

Routed ==
  uip = Home[newest] /\ usession = newest /\ table[Home[newest]] = newest

\* Outside of these writes the newest session can be found, and its keys are
\* not about to be deleted.
RoutedInv ==
  /\ NewestOpen /\ (\A v \in Servers : ~Publishing(v)) => Routed
  /\ \A v \in Servers : step[v] = "delUip" => ~NewestOpen

RoutingInv == LockInv /\ RoutedInv /\ \A v \in Servers : PublishInv(v)

IInv ==
  /\ TypeOK
  /\ FaultsOK
  /\ WorkersInv
  /\ BoundInv
  /\ LockHolds => RoutingInv

-----------------------------------------------------------------------------
(* Queues.                                                                 *)

Queued(q) == {q[i] : i \in DOMAIN q}

LEMMA QueueEmpty ==
  /\ \A S : <<>> \in Seq(S)
  /\ Queued(<<>>) = {}
  <1>1. ASSUME NEW S PROVE <<>> \in Seq(S)
    OBVIOUS
  <1>2. DOMAIN <<>> = {}
    OBVIOUS
  <1> QED
    BY <1>1, <1>2 DEF Queued

LEMMA QueueMonotone ==
  ASSUME NEW S, NEW T, S \subseteq T, NEW q \in Seq(S)
  PROVE  q \in Seq(T)
  OBVIOUS

LEMMA QueueAppend ==
  ASSUME NEW S, NEW q \in Seq(S), NEW t \in S
  PROVE  /\ Append(q, t) \in Seq(S) /\ Append(q, t) # <<>>
         /\ Head(Append(q, t)) = IF q = <<>> THEN t ELSE Head(q)
         /\ Queued(Append(q, t)) = Queued(q) \cup {t}
  <1>1. Append(q, t) \in Seq(S) /\ Append(q, t) # <<>>
    <2>1. Append(q, t) \in Seq(S) /\ Len(Append(q, t)) = Len(q) + 1 /\ Len(q) \in Nat
      OBVIOUS
    <2>2. Len(<<>>) = 0
      OBVIOUS
    <2> QED
      BY <2>1, <2>2
  <1>2. Head(Append(q, t)) = IF q = <<>> THEN t ELSE Head(q)
    OBVIOUS
  <1>3. /\ DOMAIN Append(q, t) = 1 .. Len(q) + 1 /\ DOMAIN q = 1 .. Len(q)
        /\ Append(q, t)[Len(q) + 1] = t /\ Len(q) \in Nat
        /\ \A i \in 1 .. Len(q) : Append(q, t)[i] = q[i]
    OBVIOUS
  <1>4. Queued(Append(q, t)) = Queued(q) \cup {t}
    BY <1>3, SMT DEF Queued
  <1> QED
    BY <1>1, <1>2, <1>4

LEMMA QueueTail ==
  ASSUME NEW S, NEW q \in Seq(S), q # <<>>
  PROVE  /\ Head(q) \in S /\ Tail(q) \in Seq(S)
         /\ Queued(q) \subseteq Queued(Tail(q)) \cup {Head(q)}
  <1>1. Head(q) \in S /\ Tail(q) \in Seq(S)
    OBVIOUS
  <1>2. /\ DOMAIN q = 1 .. Len(q) /\ DOMAIN Tail(q) = 1 .. Len(q) - 1 /\ Len(q) \in Nat
        /\ Head(q) = q[1]
        /\ \A i \in 1 .. Len(q) - 1 : Tail(q)[i] = q[i + 1]
    OBVIOUS
  <1>3. ASSUME NEW i \in 1 .. Len(q)
        PROVE  q[i] \in Queued(Tail(q)) \cup {Head(q)}
    <2>1. CASE i = 1
      BY <1>2, <2>1
    <2>2. CASE i # 1
      <3>1. i - 1 \in DOMAIN Tail(q) /\ Tail(q)[i - 1] = q[i]
        BY <1>2, <2>2
      <3> QED
        BY <3>1 DEF Queued
    <2> QED
      BY <2>1, <2>2
  <1> QED
    BY <1>1, <1>2, <1>3 DEF Queued

LEMMA TaskTypes ==
  /\ \A s \in Sessions : Login(s) \in Tasks /\ Cleanup(s) \in Tasks
  /\ Kick \in Tasks
  /\ \A s : Login(s).task = "login" /\ Login(s).session = s
  /\ \A s : Cleanup(s).task = "cleanup" /\ Cleanup(s).session = s
  /\ Kick.task = "kick" /\ Kick.session = None
  /\ \A t \in Tasks : /\ t.task \in {"login", "cleanup", "kick"}
                      /\ t.task # "kick" => t.session \in Sessions /\ t.session # None
                      /\ t.task = "kick" => t = Kick
                      /\ t.task = "login" => t = Login(t.session)
                      /\ t.task = "cleanup" => t = Cleanup(t.session)
  BY HomeAssumption DEF Tasks, Login, Cleanup, Kick

-----------------------------------------------------------------------------
(* The parts of the invariant.                                             *)

LEMMA FaultCounted ==
  ASSUME TypeOK, FaultsOK, NEW kind, Fault(kind)
  PROVE  /\ FaultsOK' /\ faults'.count = faults.count + 1 /\ faults'.count # 0
         /\ faults'.count \in 0 .. faults'.max
         /\ \A n \in 0 .. faults.count : n \in 0 .. faults'.count /\ n + 1 \in 0 .. faults'.count
         /\ LockHolds' => LockHolds /\ kind \notin {"lockExpires", "redis"}
  <1>1. /\ faults.count \in Nat /\ faults.max \in Nat /\ faults.count < faults.max
        /\ kind \in faults.kinds
        /\ faults' = [faults EXCEPT !.count = @ + 1]
    BY DEF Fault, FaultsOK
  <1>2. /\ faults' \in [count : Nat, max : Nat, kinds : SUBSET AllFaults]
        /\ faults'.count = faults.count + 1 /\ faults'.max = faults.max
        /\ faults'.kinds = faults.kinds
    BY <1>1, SMT DEF FaultsOK
  <1>3. LockHolds' => LockHolds /\ kind \notin {"lockExpires", "redis"}
    <2>1. faults'.count # 0
      BY <1>1, <1>2
    <2> QED
      BY <1>1, <1>2, <2>1 DEF LockHolds
  <1> QED
    BY <1>1, <1>2, <1>3, SMT DEF FaultsOK

ClosedStays == \A s \in Sessions : life[s] = "closed" => life'[s] = "closed"

LEMMA TasksGrow ==
  ASSUME ClosedStays, NEW v
  PROVE  TasksOf(v) \subseteq TasksOf(v)'
  BY TaskTypes DEF ClosedStays, TasksOf

LEMMA FitsMore ==
  ASSUME NEW q \in Seq(Tasks), NEW t \in Tasks, NEW where, NEW asked, Fits(q, where, asked)
  PROVE  Fits(Append(q, t), where, asked)
  <1>1. /\ Append(q, t) # <<>>
        /\ Head(Append(q, t)) = IF q = <<>> THEN t ELSE Head(q)
    BY QueueAppend
  <1>2. where # "start" => q # <<>>
    BY DEF Fits
  <1> QED
    BY <1>1, <1>2 DEF Fits

\* The task that a worker runs is about a session of its server.
LEMMA HeadTask ==
  ASSUME IInv, NEW v \in Servers, shard[v] # <<>>
  PROVE  /\ Head(shard[v]) \in TasksOf(v) /\ Head(shard[v]) \in Tasks
         /\ Tail(shard[v]) \in Seq(TasksOf(v))
         /\ Head(shard[v]).task \in {"login", "cleanup"} =>
              Current(v) \in Sessions /\ Current(v) # None /\ Home[Current(v)] = v
         /\ Head(shard[v]).task = "cleanup" => life[Current(v)] = "closed"
  <1>1. Head(shard[v]) \in TasksOf(v) /\ Tail(shard[v]) \in Seq(TasksOf(v))
    BY QueueTail DEF IInv, WorkersInv
  <1> QED
    BY <1>1, TaskTypes DEF TasksOf, Current

\* A worker that goes on with its task.
LEMMA GotoWorkers ==
  ASSUME IInv, NEW v \in Servers, NEW where \in Steps, ClosedStays,
         step' = [step EXCEPT ![v] = where], shard' = shard,
         \A w \in Servers \ {v} : target'[w] = target[w],
         Fits(shard[v], where, target'[v])
  PROVE  WorkersInv' /\ step' \in [Servers -> Steps] /\ shard' \in [Servers -> Seq(Tasks)]
  <1>1. step \in [Servers -> Steps] /\ shard \in [Servers -> Seq(Tasks)]
    BY DEF IInv, TypeOK
  <1>2. ASSUME NEW w \in Servers
        PROVE  shard'[w] \in Seq(TasksOf(w)')
    BY TasksGrow, QueueMonotone DEF IInv, WorkersInv
  <1>3. ASSUME NEW w \in Servers
        PROVE  Fits(shard'[w], step'[w], target'[w])
    <2>1. CASE w = v
      BY <1>1, <2>1
    <2>2. CASE w # v
      <3>1. shard'[w] = shard[w] /\ step'[w] = step[w] /\ target'[w] = target[w]
        BY <1>1, <2>2
      <3>2. Fits(shard[w], step[w], target[w])
        BY DEF IInv, WorkersInv
      <3> QED
        BY <3>1, <3>2
    <2> QED
      BY <2>1, <2>2
  <1> QED
    BY <1>1, <1>2, <1>3 DEF WorkersInv

\* A worker that is done with its task.
LEMMA FinishWorkers ==
  ASSUME IInv, NEW v \in Servers, Finish(v), shard[v] # <<>>, step[v] # "rpc",
         ClosedStays, target' = target
  PROVE  WorkersInv' /\ step' \in [Servers -> Steps] /\ shard' \in [Servers -> Seq(Tasks)]
  <1>1. step \in [Servers -> Steps] /\ shard \in [Servers -> Seq(Tasks)]
    BY DEF IInv, TypeOK
  <1>2. /\ shard' = [shard EXCEPT ![v] = Tail(shard[v])]
        /\ step' = [step EXCEPT ![v] = "start"]
    BY DEF Finish
  <1>3. ASSUME NEW w \in Servers
        PROVE  shard'[w] \in Seq(TasksOf(w)')
    <2>1. shard'[w] \in Seq(TasksOf(w))
      BY <1>1, <1>2, HeadTask DEF IInv, WorkersInv
    <2> QED
      BY <2>1, TasksGrow, QueueMonotone
  <1>4. ASSUME NEW w \in Servers
        PROVE  Fits(shard'[w], step'[w], target'[w])
    <2>0. Fits(shard[w], step[w], target[w])
      BY DEF IInv, WorkersInv
    <2>1. CASE w = v
      <3>1. target'[v] = None /\ step'[v] = "start"
        BY <1>1, <1>2, <2>0, <2>1 DEF Fits
      <3> QED
        BY <2>1, <3>1 DEF Fits
    <2>2. CASE w # v
      <3>1. shard'[w] = shard[w] /\ step'[w] = step[w] /\ target'[w] = target[w]
        BY <1>1, <1>2, <2>2
      <3> QED
        BY <2>0, <3>1
    <2> QED
      BY <2>1, <2>2
  <1>5. shard' \in [Servers -> Seq(Tasks)]
    <2>1. Tail(shard[v]) \in Seq(Tasks)
      BY <1>1, QueueTail
    <2> QED
      BY <1>1, <1>2, <2>1
  <1>6. step' \in [Servers -> Steps]
    BY <1>1, <1>2 DEF Steps
  <1> QED
    BY <1>3, <1>4, <1>5, <1>6 DEF WorkersInv

\* A task that is posted to a worker.
LEMMA PostWorkers ==
  ASSUME IInv, NEW v \in Servers, NEW t \in Tasks, t \in TasksOf(v)', ClosedStays,
         shard' = [shard EXCEPT ![v] = Append(@, t)],
         \A w \in Servers : Fits(shard[w], step'[w], target'[w])
  PROVE  /\ WorkersInv' /\ shard' \in [Servers -> Seq(Tasks)]
         /\ \A w \in Servers : shard[w] # <<>> => Head(shard'[w]) = Head(shard[w])
         /\ \A w \in Servers : Queued(shard[w]) \subseteq Queued(shard'[w])
         /\ t \in Queued(shard'[v])
  <1>1. shard \in [Servers -> Seq(Tasks)]
    BY DEF IInv, TypeOK
  <1>2. /\ shard'[v] = Append(shard[v], t)
        /\ \A w \in Servers \ {v} : shard'[w] = shard[w]
        /\ shard[v] \in Seq(Tasks)
    BY <1>1
  <1>3. shard' \in [Servers -> Seq(Tasks)]
    <2>1. Append(shard[v], t) \in Seq(Tasks)
      BY <1>2, QueueAppend
    <2> QED
      BY <1>1, <2>1
  <1>4. \A w \in Servers : shard[w] \in Seq(TasksOf(w)')
    BY TasksGrow, QueueMonotone DEF IInv, WorkersInv
  <1>5. \A w \in Servers : shard'[w] \in Seq(TasksOf(w)')
    <2>1. Append(shard[v], t) \in Seq(TasksOf(v)')
      BY <1>4, QueueAppend
    <2> QED
      BY <1>2, <1>4, <2>1
  <1>6. \A w \in Servers : Fits(shard'[w], step'[w], target'[w])
    <2>1. Fits(Append(shard[v], t), step'[v], target'[v])
      BY <1>2, FitsMore
    <2> QED
      BY <1>2, <2>1
  <1>7. /\ shard[v] # <<>> => Head(shard'[v]) = Head(shard[v])
        /\ Queued(shard[v]) \subseteq Queued(shard'[v]) /\ t \in Queued(shard'[v])
    BY <1>2, QueueAppend
  <1> QED
    BY <1>2, <1>3, <1>5, <1>6, <1>7 DEF WorkersInv

\* Steps after which the newest session can be found as well as before.
LEMMA RoutingKept ==
  ASSUME IInv, LockHolds,
         uip' = uip, usession' = usession, newest' = newest,
         \A v \in Servers : InLock(v)' => lock' = v,
         \A v \in Servers : Publishing(v)' =>
           step'[v] = step[v] /\ Current(v)' = Current(v) /\ table'[v] = table[v],
         \A v \in Servers : Publishing(v) => Publishing(v)' \/ ~NewestOpen',
         \A v \in Servers : step'[v] = "delUip" => step[v] = "delUip",
         NewestOpen' => NewestOpen /\ table'[Home[newest]] = table[Home[newest]]
  PROVE  RoutingInv'
  <1>1. RoutingInv
    BY DEF IInv
  <1>2. LockInv'
    BY DEF LockInv
  <1>3. RoutedInv'
    <2>1. RoutedInv
      BY <1>1 DEF RoutingInv
    <2>2. ASSUME NewestOpen', \A v \in Servers : ~Publishing(v)'
          PROVE  Routed'
      <3>1. Routed
        BY <2>1, <2>2 DEF RoutedInv
      <3> QED
        BY <2>2, <3>1 DEF Routed
    <2>3. \A v \in Servers : step'[v] = "delUip" => ~NewestOpen'
      BY <2>1 DEF RoutedInv
    <2> QED
      BY <2>2, <2>3 DEF RoutedInv
  <1>4. ASSUME NEW v \in Servers
        PROVE  PublishInv(v)'
    <2>1. PublishInv(v)
      BY <1>1 DEF RoutingInv
    <2>2. CASE Publishing(v)'
      <3>1. step'[v] = step[v] /\ Current(v)' = Current(v) /\ table'[v] = table[v]
        BY <2>2
      <3>2. Publishing(v)
        BY <2>2, <3>1 DEF Publishing
      <3> QED
        BY <2>1, <3>1, <3>2 DEF PublishInv
    <2>3. CASE ~Publishing(v)'
      BY <2>3 DEF PublishInv
    <2> QED
      BY <2>2, <2>3
  <1> QED
    BY <1>2, <1>3, <1>4 DEF RoutingInv

\* The same for a step of a worker that publishes nothing.
LEMMA RoutingKeptBy ==
  ASSUME IInv, LockHolds, NEW v \in Servers,
         uip' = uip, usession' = usession, newest' = newest,
         \A w \in Servers \ {v} :
           /\ step'[w] = step[w] /\ table'[w] = table[w]
           /\ Publishing(w) => Current(w)' = Current(w),
         ~Publishing(v), ~Publishing(v)', step'[v] # "delUip",
         InLock(v)' => lock' = v,
         \A w \in Servers \ {v} : lock = w => lock' = w,
         NewestOpen' => NewestOpen /\ table'[Home[newest]] = table[Home[newest]]
  PROVE  RoutingInv'
  <1>1. LockInv
    BY DEF IInv, RoutingInv
  <1>2. ASSUME NEW w \in Servers, InLock(w)'
        PROVE  lock' = w
    <2>1. CASE w = v
      BY <1>2, <2>1
    <2>2. CASE w # v
      <3>1. InLock(w)
        BY <1>2, <2>2 DEF InLock
      <3> QED
        BY <1>1, <2>2, <3>1 DEF LockInv
    <2> QED
      BY <2>1, <2>2
  <1>3. \A w \in Servers \ {v} : Publishing(w)' <=> Publishing(w)
    BY DEF Publishing
  <1> QED
    BY <1>2, <1>3, RoutingKept

-----------------------------------------------------------------------------
(* Steps of the IO threads.                                                *)

\* A step that moves a session, and changes neither the keys nor the workers
\* except for what it posts.
LEMMA RoutingKeptIO ==
  ASSUME IInv, LockHolds,
         UNCHANGED <<step, table, redisVars, newest>>,
         \A w \in Servers : shard[w] # <<>> => Head(shard'[w]) = Head(shard[w]),
         NewestOpen' => NewestOpen
  PROVE  RoutingInv'
  <1>1. LockInv
    BY DEF IInv, RoutingInv
  <1>2. uip' = uip /\ usession' = usession /\ lock' = lock
    BY DEF redisVars
  <1>3. \A w \in Servers : InLock(w)' => lock' = w
    BY <1>1, <1>2 DEF LockInv, InLock
  <1>4. ASSUME NEW w \in Servers
        PROVE  /\ Publishing(w)' <=> Publishing(w)
               /\ Publishing(w) => Current(w)' = Current(w)
    <2>1. Publishing(w)' <=> Publishing(w)
      BY DEF Publishing
    <2>2. Publishing(w) => shard[w] # <<>>
      BY DEF IInv, WorkersInv, Fits, Publishing
    <2> QED
      BY <2>1, <2>2 DEF Current
  <1>5. NewestOpen' => table'[Home[newest]] = table[Home[newest]]
    OBVIOUS
  <1> QED
    BY <1>2, <1>3, <1>4, <1>5, RoutingKept

\* A step that leaves the workers alone.
LEMMA SameWorkers ==
  ASSUME IInv, ClosedStays, UNCHANGED <<shard, step, target>>
  PROVE  WorkersInv'
  <1>1. \A w \in Servers : shard'[w] \in Seq(TasksOf(w)')
    BY TasksGrow, QueueMonotone DEF IInv, WorkersInv
  <1> QED
    BY <1>1 DEF IInv, WorkersInv

LEMMA SameFaults ==
  ASSUME IInv, faults' = faults
  PROVE  FaultsOK' /\ (LockHolds' => LockHolds)
  BY DEF IInv, FaultsOK, LockHolds

LEMMA HandleAcceptStep ==
  ASSUME IInv, NEW s \in Sessions, HandleAccept(s)
  PROVE  IInv'
  <1>1. TypeOK'
    BY DEF IInv, TypeOK, HandleAccept, redisVars
  <1>2. ClosedStays /\ \A x \in Sessions : life[x] # "new" => life'[x] = life[x]
    BY DEF IInv, TypeOK, HandleAccept, ClosedStays
  <1>3. WorkersInv'
    BY <1>2, SameWorkers DEF HandleAccept
  <1>4. BoundInv'
    BY <1>2 DEF IInv, TypeOK, BoundInv, HandleAccept
  <1>5. LockHolds' => RoutingInv'
    <2>1. newest # None => newest \in Sessions /\ life[newest] # "new"
      BY DEF IInv, TypeOK, BoundInv
    <2>2. NewestOpen' => NewestOpen
      BY <1>2, <2>1 DEF HandleAccept, NewestOpen
    <2> QED
      BY <2>2, SameFaults, RoutingKeptIO DEF HandleAccept
  <1> QED
    BY <1>1, <1>3, <1>4, <1>5, SameFaults DEF IInv, HandleAccept

LEMMA LoginRequestStep ==
  ASSUME IInv, NEW s \in Sessions, LoginRequest(s)
  PROVE  IInv'
  <1>1. /\ Home[s] \in Servers /\ Login(s) \in Tasks /\ Login(s) \in TasksOf(Home[s])'
        /\ ClosedStays
        /\ shard' = [shard EXCEPT ![Home[s]] = Append(@, Login(s))]
    BY HomeAssumption, TaskTypes DEF TasksOf, ClosedStays, LoginRequest
  <1>2. \A w \in Servers : Fits(shard[w], step'[w], target'[w])
    BY DEF IInv, WorkersInv, LoginRequest
  <1>3. /\ WorkersInv' /\ shard' \in [Servers -> Seq(Tasks)]
        /\ \A w \in Servers : shard[w] # <<>> => Head(shard'[w]) = Head(shard[w])
    BY <1>1, <1>2, PostWorkers
  <1>4. TypeOK'
    <2>1. logins' \in Nat
      BY SMT DEF IInv, TypeOK, LoginRequest
    <2> QED
      BY <1>3, <2>1 DEF IInv, TypeOK, LoginRequest, redisVars
  <1>5. BoundInv'
    BY DEF IInv, BoundInv, LoginRequest
  <1>6. LockHolds' => RoutingInv'
    <2>1. NewestOpen' => NewestOpen
      BY DEF LoginRequest, NewestOpen
    <2> QED
      BY <1>3, <2>1, SameFaults, RoutingKeptIO DEF LoginRequest
  <1> QED
    BY <1>3, <1>4, <1>5, <1>6, SameFaults DEF IInv, LoginRequest

LEMMA SendAndCloseStep ==
  ASSUME IInv, NEW s \in Sessions, SendAndClose(s)
  PROVE  IInv'
  <1>1. TypeOK'
    BY DEF IInv, TypeOK, SendAndClose, redisVars
  <1>2. /\ ClosedStays
        /\ \A x \in Sessions : /\ life'[x] = "open" => life[x] = "open"
                               /\ life[x] # "new" => life'[x] # "new"
    BY DEF IInv, TypeOK, SendAndClose, ClosedStays
  <1>3. WorkersInv'
    BY <1>2, SameWorkers DEF SendAndClose
  <1>4. BoundInv'
    BY <1>2 DEF IInv, TypeOK, BoundInv, SendAndClose
  <1>5. LockHolds' => RoutingInv'
    <2>1. NewestOpen' => NewestOpen
      BY <1>2 DEF IInv, TypeOK, SendAndClose, NewestOpen
    <2> QED
      BY <2>1, SameFaults, RoutingKeptIO DEF SendAndClose
  <1> QED
    BY <1>1, <1>3, <1>4, <1>5, SameFaults DEF IInv, SendAndClose

LEMMA BeginCloseStep ==
  ASSUME IInv, NEW s \in Sessions, BeginClose(s)
  PROVE  IInv'
  <1>1. TypeOK'
    BY DEF IInv, TypeOK, BeginClose, redisVars
  <1>2. /\ ClosedStays
        /\ \A x \in Sessions : /\ life'[x] = "open" => life[x] = "open"
                               /\ life[x] # "new" => life'[x] # "new"
    BY DEF IInv, TypeOK, BeginClose, ClosedStays
  <1>3. WorkersInv'
    BY <1>2, SameWorkers DEF BeginClose
  <1>4. BoundInv'
    BY <1>2 DEF IInv, TypeOK, BoundInv, BeginClose
  <1>5. LockHolds' => RoutingInv'
    <2>1. NewestOpen' => NewestOpen
      BY <1>2 DEF IInv, TypeOK, BeginClose, NewestOpen
    <2> QED
      BY <2>1, SameFaults, RoutingKeptIO DEF BeginClose
  <1> QED
    BY <1>1, <1>3, <1>4, <1>5, SameFaults DEF IInv, BeginClose

LEMMA CompleteCloseStep ==
  ASSUME IInv, NEW s \in Sessions, CompleteClose(s)
  PROVE  IInv'
  <1>1. /\ ClosedStays /\ life'[s] = "closed"
        /\ \A x \in Sessions : /\ life'[x] = "open" => life[x] = "open"
                               /\ life[x] # "new" => life'[x] # "new"
    BY DEF IInv, TypeOK, CompleteClose, ClosedStays
  <1>2. /\ WorkersInv' /\ shard' \in [Servers -> Seq(Tasks)]
        /\ \A w \in Servers : shard[w] # <<>> => Head(shard'[w]) = Head(shard[w])
    <2>1. CASE s \in bound
      <3>1. /\ Home[s] \in Servers /\ Cleanup(s) \in Tasks /\ Cleanup(s) \in TasksOf(Home[s])'
            /\ shard' = [shard EXCEPT ![Home[s]] = Append(@, Cleanup(s))]
        BY <1>1, <2>1, HomeAssumption, TaskTypes DEF TasksOf, CompleteClose
      <3>2. \A w \in Servers : Fits(shard[w], step'[w], target'[w])
        BY DEF IInv, WorkersInv, CompleteClose
      <3> QED
        BY <1>1, <3>1, <3>2, PostWorkers
    <2>2. CASE s \notin bound
      <3>1. UNCHANGED <<shard, step, target>>
        BY <2>2 DEF CompleteClose
      <3> QED
        BY <1>1, <3>1, SameWorkers DEF IInv, TypeOK
    <2> QED
      BY <2>1, <2>2
  <1>3. TypeOK'
    BY <1>2 DEF IInv, TypeOK, CompleteClose, redisVars
  <1>4. BoundInv'
    BY <1>1 DEF IInv, TypeOK, BoundInv, CompleteClose
  <1>5. LockHolds' => RoutingInv'
    <2>1. NewestOpen' => NewestOpen
      BY <1>1 DEF IInv, TypeOK, CompleteClose, NewestOpen
    <2> QED
      BY <1>2, <2>1, SameFaults, RoutingKeptIO DEF CompleteClose
  <1> QED
    BY <1>2, <1>3, <1>4, <1>5, SameFaults DEF IInv, CompleteClose

-----------------------------------------------------------------------------
(* Steps of the workers.                                                   *)

LEMMA GotoFrame ==
  ASSUME TypeOK, NEW v \in Servers, NEW where, Goto(v, where)
  PROVE  /\ shard' = shard /\ step' = [step EXCEPT ![v] = where] /\ step'[v] = where
         /\ \A w \in Servers \ {v} : step'[w] = step[w]
         /\ \A w \in Servers : Current(w)' = Current(w)
  BY DEF TypeOK, Goto, Current

LEMMA FinishFrame ==
  ASSUME TypeOK, NEW v \in Servers, Finish(v)
  PROVE  /\ step'[v] = "start" /\ shard'[v] = Tail(shard[v])
         /\ \A w \in Servers \ {v} : /\ step'[w] = step[w] /\ shard'[w] = shard[w]
                                     /\ Current(w)' = Current(w)
  BY DEF TypeOK, Finish, Current

\* A worker inside the lock holds it.
LEMMA HolderInLock ==
  ASSUME IInv, LockHolds, NEW v \in Servers, step[v] \notin {"start", "lock"}
  PROVE  lock = v /\ \A w \in Servers \ {v} : ~InLock(w) /\ ~Publishing(w)
  BY DEF IInv, RoutingInv, LockInv, InLock, Publishing

LEMMA DispatchLoginStep ==
  ASSUME IInv, NEW v \in Servers, DispatchLogin(v)
  PROVE  IInv'
  <1>1. /\ shard[v] # <<>> /\ Head(shard[v]).task = "login" /\ step[v] = "start"
        /\ UNCHANGED <<life, bound, logins, target, table, late, redisVars, newest, faults>>
    BY DEF DispatchLogin, At, Running
  <1>2. TypeOK /\ ClosedStays
    BY <1>1 DEF IInv, ClosedStays
  <1>3. Current(v) \in Sessions
    BY <1>1, HeadTask
  <1>4. kicked' \subseteq Sessions /\ (Finish(v) \/ Goto(v, "lock"))
    BY <1>2, <1>3 DEF DispatchLogin, Current, TypeOK
  <1>5. Fits(shard[v], "lock", target[v])
    BY <1>1 DEF IInv, WorkersInv, Fits
  <1>6. /\ WorkersInv' /\ step' \in [Servers -> Steps] /\ shard' \in [Servers -> Seq(Tasks)]
        /\ step'[v] \in {"start", "lock"}
        /\ \A w \in Servers \ {v} : step'[w] = step[w] /\ Current(w)' = Current(w)
    <2>1. CASE Finish(v)
      BY <1>1, <1>2, <2>1, FinishWorkers, FinishFrame
    <2>2. CASE Goto(v, "lock")
      <3>1. "lock" \in Steps
        BY DEF Steps
      <3> QED
        BY <1>1, <1>2, <1>5, <2>2, <3>1, GotoWorkers, GotoFrame
    <2> QED
      BY <1>4, <2>1, <2>2
  <1>7. TypeOK'
    BY <1>1, <1>2, <1>4, <1>6 DEF TypeOK, redisVars
  <1>8. BoundInv'
    BY <1>1 DEF IInv, BoundInv
  <1>9. LockHolds' => RoutingInv'
    <2>1. ~Publishing(v) /\ ~Publishing(v)' /\ ~InLock(v)' /\ step'[v] # "delUip"
      BY <1>1, <1>6 DEF Publishing, InLock
    <2>2. NewestOpen' => NewestOpen
      BY <1>1 DEF NewestOpen
    <2> QED
      BY <1>1, <1>6, <2>1, <2>2, SameFaults, RoutingKeptBy DEF redisVars
  <1> QED
    BY <1>1, <1>6, <1>7, <1>8, <1>9, SameFaults DEF IInv

LEMMA AcquireLockStep ==
  ASSUME IInv, NEW v \in Servers, AcquireLock(v)
  PROVE  IInv'
  <1> DEFINE where == IF Running(v, "login") THEN "kick" ELSE "check"
  <1>1. /\ shard[v] # <<>> /\ step[v] = "lock" /\ lock = None /\ lock' = v
        /\ Goto(v, where)
        /\ UNCHANGED <<sessionVars, target, table, late, uip, usession, newest, faults>>
    BY DEF AcquireLock
  <1>2. TypeOK /\ ClosedStays
    BY <1>1 DEF IInv, ClosedStays, sessionVars
  <1>3. where \in Steps /\ where \in {"kick", "check"}
    BY DEF Steps
  <1>4. Fits(shard[v], where, target[v])
    <2>1. /\ Head(shard[v]).task # "kick" /\ target[v] = None
          /\ Head(shard[v]) \in Tasks
      BY <1>1, HeadTask DEF IInv, WorkersInv, Fits
    <2> QED
      BY <1>1, <2>1, TaskTypes DEF Fits, Running
  <1>5. /\ WorkersInv' /\ step' \in [Servers -> Steps] /\ shard' \in [Servers -> Seq(Tasks)]
        /\ step'[v] = where
        /\ \A w \in Servers \ {v} : step'[w] = step[w] /\ Current(w)' = Current(w)
    <2> HIDE DEF where
    <2> QED
      BY <1>1, <1>2, <1>3, <1>4, GotoWorkers, GotoFrame
  <1>6. TypeOK'
    BY <1>1, <1>2, <1>5 DEF TypeOK, sessionVars
  <1>7. BoundInv'
    BY <1>1 DEF IInv, BoundInv, sessionVars
  <1>8. LockHolds' => RoutingInv'
    <2>1. ~Publishing(v) /\ ~Publishing(v)' /\ step'[v] # "delUip"
      BY <1>1, <1>3, <1>5 DEF Publishing
    <2>2. NewestOpen' => NewestOpen
      BY <1>1 DEF NewestOpen, sessionVars
    <2>3. \A w \in Servers : lock # w
      BY <1>1, HomeAssumption
    <2> QED
      BY <1>1, <1>5, <2>1, <2>2, <2>3, SameFaults, RoutingKeptBy
  <1> QED
    BY <1>1, <1>5, <1>6, <1>7, <1>8, SameFaults DEF IInv

LEMMA AcquireLockTimesOutStep ==
  ASSUME IInv, NEW v \in Servers, AcquireLockTimesOut(v)
  PROVE  IInv'
  <1>1. /\ shard[v] # <<>> /\ step[v] = "lock" /\ Fault("lockWait") /\ Finish(v)
        /\ UNCHANGED <<sessionVars, target, table, late, redisVars, newest>>
    BY DEF AcquireLockTimesOut
  <1>2. TypeOK /\ FaultsOK /\ ClosedStays
    BY <1>1 DEF IInv, ClosedStays, sessionVars
  <1>3. /\ WorkersInv' /\ step' \in [Servers -> Steps] /\ shard' \in [Servers -> Seq(Tasks)]
        /\ step'[v] = "start"
        /\ \A w \in Servers \ {v} : step'[w] = step[w] /\ Current(w)' = Current(w)
    BY <1>1, <1>2, FinishWorkers, FinishFrame
  <1>4. TypeOK'
    <2>1. late' \in [Servers -> 0 .. faults'.count] /\ faults'.count \in 0 .. faults'.max
      BY <1>1, <1>2, FaultCounted DEF TypeOK
    <2> QED
      BY <1>1, <1>2, <1>3, <2>1 DEF TypeOK, sessionVars, redisVars
  <1>5. BoundInv'
    BY <1>1 DEF IInv, BoundInv, sessionVars
  <1>6. LockHolds' => RoutingInv'
    <2>1. ~Publishing(v) /\ ~Publishing(v)' /\ ~InLock(v)' /\ step'[v] # "delUip"
      BY <1>1, <1>3 DEF Publishing, InLock
    <2>2. NewestOpen' => NewestOpen
      BY <1>1 DEF NewestOpen, sessionVars
    <2> QED
      BY <1>1, <1>2, <1>3, <2>1, <2>2, FaultCounted, RoutingKeptBy DEF redisVars
  <1> QED
    BY <1>1, <1>2, <1>3, <1>4, <1>5, <1>6, FaultCounted DEF IInv

LEMMA KickOldSessionStep ==
  ASSUME IInv, NEW v \in Servers, KickOldSession(v)
  PROVE  IInv'
  <1>1. /\ shard[v] # <<>> /\ Head(shard[v]).task = "login" /\ step[v] = "kick"
        /\ UNCHANGED <<life, bound, logins, table, late, redisVars, newest, faults>>
    BY DEF KickOldSession, At, Running
  <1>2. TypeOK /\ ClosedStays
    BY <1>1 DEF IInv, ClosedStays
  <1>3. /\ kicked' \subseteq Sessions
        /\ target' \in [Servers -> Servers \cup {None}]
        /\ \A w \in Servers \ {v} : target'[w] = target[w]
        /\ \/ Goto(v, "bind") /\ target' = target
           \/ Goto(v, "rpc") /\ target'[v] # None
    BY <1>2 DEF KickOldSession, TypeOK
  <1>4. Fits(shard[v], "kick", target[v])
    BY <1>1 DEF IInv, WorkersInv
  <1>5. /\ WorkersInv' /\ step' \in [Servers -> Steps] /\ shard' \in [Servers -> Seq(Tasks)]
        /\ step'[v] \in {"bind", "rpc"}
        /\ \A w \in Servers \ {v} : step'[w] = step[w] /\ Current(w)' = Current(w)
    <2>0. "bind" \in Steps /\ "rpc" \in Steps
      BY DEF Steps
    <2>1. CASE Goto(v, "bind") /\ target' = target
      <3>1. Fits(shard[v], "bind", target'[v])
        BY <1>1, <1>4, <2>1 DEF Fits
      <3> QED
        BY <1>2, <1>3, <2>0, <2>1, <3>1, GotoWorkers, GotoFrame
    <2>2. CASE Goto(v, "rpc") /\ target'[v] # None
      <3>1. Fits(shard[v], "rpc", target'[v])
        BY <1>1, <1>4, <2>2 DEF Fits
      <3> QED
        BY <1>2, <1>3, <2>0, <2>2, <3>1, GotoWorkers, GotoFrame
    <2> QED
      BY <1>3, <2>1, <2>2
  <1>6. TypeOK'
    BY <1>1, <1>2, <1>3, <1>5 DEF TypeOK, redisVars
  <1>7. BoundInv'
    BY <1>1 DEF IInv, BoundInv
  <1>8. LockHolds' => RoutingInv'
    <2>1. ~Publishing(v) /\ ~Publishing(v)' /\ step'[v] # "delUip"
      BY <1>1, <1>5 DEF Publishing
    <2>2. NewestOpen' => NewestOpen
      BY <1>1 DEF NewestOpen
    <2>3. LockHolds => lock' = v
      BY <1>1, HolderInLock DEF redisVars
    <2> QED
      BY <1>1, <1>5, <2>1, <2>2, <2>3, SameFaults, RoutingKeptBy DEF redisVars
  <1> QED
    BY <1>1, <1>5, <1>6, <1>7, <1>8, SameFaults DEF IInv

LEMMA PostKickWorkers ==
  ASSUME IInv, NEW v \in Servers, ClosedStays, shard' = PostKick(v, shard),
         \A w \in Servers : Fits(shard[w], step'[w], target'[w])
  PROVE  /\ WorkersInv' /\ shard' \in [Servers -> Seq(Tasks)]
         /\ \A w \in Servers : shard[w] # <<>> => Head(shard'[w]) = Head(shard[w])
         /\ \A w \in Servers : Queued(shard[w]) \subseteq Queued(shard'[w])
  <1>1. CASE table[v] = None
    <2>1. shard' = shard
      BY <1>1 DEF PostKick
    <2>2. \A w \in Servers : shard'[w] \in Seq(TasksOf(w)')
      BY <2>1, TasksGrow, QueueMonotone DEF IInv, WorkersInv
    <2> QED
      BY <2>1, <2>2 DEF IInv, TypeOK, WorkersInv
  <1>2. CASE table[v] # None
    <2>1. shard' = [shard EXCEPT ![v] = Append(@, Kick)]
      BY <1>2 DEF PostKick
    <2>2. Kick \in Tasks /\ Kick \in TasksOf(v)'
      BY TaskTypes DEF TasksOf
    <2> QED
      BY <2>1, <2>2, PostWorkers
  <1> QED
    BY <1>1, <1>2

LEMMA NotifyKickUserStep ==
  ASSUME IInv, NEW v \in Servers, NotifyKickUser(v)
  PROVE  IInv'
  <1>1. /\ shard[v] # <<>> /\ Head(shard[v]).task = "login" /\ step[v] = "rpc"
        /\ shard' = PostKick(target[v], shard)
        /\ step' = [step EXCEPT ![v] = "bind"] /\ target' = [target EXCEPT ![v] = None]
        /\ UNCHANGED <<sessionVars, table, late, redisVars, newest, faults>>
    BY DEF NotifyKickUser, At, Running
  <1>2. TypeOK /\ ClosedStays
    BY <1>1 DEF IInv, ClosedStays, sessionVars
  <1>3. /\ step'[v] = "bind" /\ target'[v] = None
        /\ \A w \in Servers \ {v} : step'[w] = step[w] /\ target'[w] = target[w]
        /\ step' \in [Servers -> Steps] /\ target' \in [Servers -> Servers \cup {None}]
    BY <1>1, <1>2 DEF TypeOK, Steps
  <1>4. target[v] \in Servers
    BY <1>1, <1>2 DEF IInv, WorkersInv, Fits, TypeOK
  <1>5. ASSUME NEW w \in Servers
        PROVE  Fits(shard[w], step'[w], target'[w])
    <2>1. CASE w = v
      BY <1>1, <1>3, <2>1 DEF Fits
    <2>2. CASE w # v
      BY <1>3, <2>2 DEF IInv, WorkersInv
    <2> QED
      BY <2>1, <2>2
  <1>6. /\ WorkersInv' /\ shard' \in [Servers -> Seq(Tasks)]
        /\ \A w \in Servers : shard[w] # <<>> => Head(shard'[w]) = Head(shard[w])
    BY <1>1, <1>2, <1>4, <1>5, PostKickWorkers
  <1>7. TypeOK'
    BY <1>1, <1>2, <1>3, <1>6 DEF TypeOK, sessionVars, redisVars
  <1>8. BoundInv'
    BY <1>1 DEF IInv, BoundInv, sessionVars
  <1>9. LockHolds' => RoutingInv'
    <2>1. ~Publishing(v) /\ ~Publishing(v)' /\ step'[v] # "delUip"
      BY <1>1, <1>3 DEF Publishing
    <2>2. NewestOpen' => NewestOpen
      BY <1>1 DEF NewestOpen, sessionVars
    <2>3. LockHolds => lock' = v /\ \A w \in Servers \ {v} : ~Publishing(w)
      BY <1>1, HolderInLock DEF redisVars
    <2> QED
      BY <1>1, <1>3, <2>1, <2>2, <2>3, SameFaults, RoutingKeptBy DEF redisVars
  <1> QED
    BY <1>1, <1>6, <1>7, <1>8, <1>9, SameFaults DEF IInv

LEMMA NotifyKickUserFailsStep ==
  ASSUME IInv, NEW v \in Servers, NotifyKickUserFails(v)
  PROVE  IInv'
  <1>1. /\ shard[v] # <<>> /\ Head(shard[v]).task = "login" /\ step[v] = "rpc"
        /\ Goto(v, "bind") /\ target' = [target EXCEPT ![v] = None]
        /\ UNCHANGED <<sessionVars, table, redisVars, newest>>
    BY DEF NotifyKickUserFails, At, Running
  <1>2. TypeOK /\ FaultsOK /\ ClosedStays
    BY <1>1 DEF IInv, ClosedStays, sessionVars
  <1>3. PICK kind \in {"kickLost", "kickLate"} :
          Fault(kind) /\ (late' = late \/ late' = [late EXCEPT ![target[v]] = @ + 1])
    BY DEF NotifyKickUserFails
  <1>4. /\ target'[v] = None /\ target' \in [Servers -> Servers \cup {None}]
        /\ \A w \in Servers \ {v} : target'[w] = target[w]
    BY <1>1, <1>2 DEF TypeOK
  <1>5. /\ WorkersInv' /\ step' \in [Servers -> Steps] /\ shard' \in [Servers -> Seq(Tasks)]
        /\ step'[v] = "bind"
        /\ \A w \in Servers \ {v} : step'[w] = step[w] /\ Current(w)' = Current(w)
    <2>1. "bind" \in Steps /\ Fits(shard[v], "bind", target'[v])
      BY <1>1, <1>4 DEF Fits, Steps
    <2> QED
      BY <1>1, <1>2, <1>4, <2>1, GotoWorkers, GotoFrame
  <1>6. TypeOK'
    <2>1. /\ \A n \in 0 .. faults.count : n \in 0 .. faults'.count /\ n + 1 \in 0 .. faults'.count
          /\ faults'.count \in 0 .. faults'.max
      BY <1>2, <1>3, FaultCounted
    <2>2. late \in [Servers -> 0 .. faults.count]
      BY <1>2 DEF TypeOK
    <2>3. late' \in [Servers -> 0 .. faults'.count]
      <3>1. late \in [Servers -> 0 .. faults'.count]
        BY <2>1, <2>2
      <3>2. \A w \in Servers : late[w] + 1 \in 0 .. faults'.count
        BY <2>1, <2>2
      <3> QED
        BY <1>3, <3>1, <3>2
    <2> QED
      BY <1>1, <1>2, <1>4, <1>5, <2>1, <2>3 DEF TypeOK, sessionVars, redisVars
  <1>7. BoundInv'
    BY <1>1 DEF IInv, BoundInv, sessionVars
  <1>8. LockHolds' => RoutingInv'
    <2>1. ~Publishing(v) /\ ~Publishing(v)' /\ step'[v] # "delUip"
      BY <1>1, <1>5 DEF Publishing
    <2>2. NewestOpen' => NewestOpen
      BY <1>1 DEF NewestOpen, sessionVars
    <2>3. LockHolds => lock' = v
      BY <1>1, HolderInLock DEF redisVars
    <2>4. LockHolds' => LockHolds
      BY <1>2, <1>3, FaultCounted
    <2> QED
      BY <1>1, <1>5, <2>1, <2>2, <2>3, <2>4, RoutingKeptBy DEF redisVars
  <1>9. FaultsOK'
    BY <1>2, <1>3, FaultCounted
  <1> QED
    BY <1>5, <1>6, <1>7, <1>8, <1>9 DEF IInv

LEMMA LateKickStep ==
  ASSUME IInv, NEW v \in Servers, LateKick(v)
  PROVE  IInv'
  <1>1. /\ shard' = PostKick(v, shard)
        /\ UNCHANGED <<sessionVars, step, target, table, redisVars, newest, faults>>
    BY DEF LateKick
  <1>2. TypeOK /\ ClosedStays /\ \A w \in Servers : Fits(shard[w], step'[w], target'[w])
    BY <1>1 DEF IInv, ClosedStays, WorkersInv, sessionVars
  <1>3. /\ WorkersInv' /\ shard' \in [Servers -> Seq(Tasks)]
        /\ \A w \in Servers : shard[w] # <<>> => Head(shard'[w]) = Head(shard[w])
    BY <1>1, <1>2, PostKickWorkers
  <1>4. TypeOK'
    <2>1. late \in [Servers -> 0 .. faults.count] /\ faults.count \in Nat
      BY <1>2 DEF TypeOK, IInv, FaultsOK
    <2>2. late' \in [Servers -> 0 .. faults.count]
      BY <2>1, SMT DEF LateKick
    <2> QED
      BY <1>1, <1>2, <1>3, <2>2 DEF TypeOK, sessionVars, redisVars
  <1>5. BoundInv'
    BY <1>1 DEF IInv, BoundInv, sessionVars
  <1>6. LockHolds' => RoutingInv'
    <2>1. NewestOpen' => NewestOpen
      BY <1>1 DEF NewestOpen, sessionVars
    <2> QED
      BY <1>1, <1>3, <2>1, SameFaults, RoutingKeptIO
  <1> QED
    BY <1>1, <1>3, <1>4, <1>5, <1>6, SameFaults DEF IInv

LEMMA ReleaseLockStep ==
  ASSUME IInv, NEW v \in Servers, ReleaseLock(v)
  PROVE  IInv'
  <1>1. /\ shard[v] # <<>> /\ step[v] = "release" /\ Finish(v)
        /\ lock' = IF lock = v THEN None ELSE lock
        /\ UNCHANGED <<sessionVars, target, table, late, uip, usession, newest, faults>>
    BY DEF ReleaseLock
  <1>2. TypeOK /\ ClosedStays
    BY <1>1 DEF IInv, ClosedStays, sessionVars
  <1>3. /\ WorkersInv' /\ step' \in [Servers -> Steps] /\ shard' \in [Servers -> Seq(Tasks)]
        /\ step'[v] = "start"
        /\ \A w \in Servers \ {v} : step'[w] = step[w] /\ Current(w)' = Current(w)
    BY <1>1, <1>2, FinishWorkers, FinishFrame
  <1>4. TypeOK'
    BY <1>1, <1>2, <1>3 DEF TypeOK, sessionVars
  <1>5. BoundInv'
    BY <1>1 DEF IInv, BoundInv, sessionVars
  <1>6. LockHolds' => RoutingInv'
    <2>1. ~Publishing(v) /\ ~Publishing(v)' /\ ~InLock(v)' /\ step'[v] # "delUip"
      BY <1>1, <1>3 DEF Publishing, InLock
    <2>2. NewestOpen' => NewestOpen
      BY <1>1 DEF NewestOpen, sessionVars
    <2> QED
      BY <1>1, <1>3, <2>1, <2>2, SameFaults, RoutingKeptBy
  <1> QED
    BY <1>1, <1>3, <1>4, <1>5, <1>6, SameFaults DEF IInv

LEMMA KickTaskStep ==
  ASSUME IInv, NEW v \in Servers, KickTask(v)
  PROVE  IInv'
  <1>1. /\ shard[v] # <<>> /\ step[v] = "start" /\ Finish(v)
        /\ kicked' = kicked \cup ({table[v]} \ {None})
        /\ UNCHANGED <<life, bound, logins, target, table, late, redisVars, newest, faults>>
    BY DEF KickTask, At, Running
  <1>2. TypeOK /\ ClosedStays
    BY <1>1 DEF IInv, ClosedStays
  <1>3. /\ WorkersInv' /\ step' \in [Servers -> Steps] /\ shard' \in [Servers -> Seq(Tasks)]
        /\ step'[v] = "start"
        /\ \A w \in Servers \ {v} : step'[w] = step[w] /\ Current(w)' = Current(w)
    BY <1>1, <1>2, FinishWorkers, FinishFrame
  <1>4. TypeOK'
    <2>1. kicked' \subseteq Sessions
      BY <1>1, <1>2 DEF TypeOK
    <2> QED
      BY <1>1, <1>2, <1>3, <2>1 DEF TypeOK, redisVars
  <1>5. BoundInv'
    BY <1>1 DEF IInv, BoundInv
  <1>6. LockHolds' => RoutingInv'
    <2>1. ~Publishing(v) /\ ~Publishing(v)' /\ ~InLock(v)' /\ step'[v] # "delUip"
      BY <1>1, <1>3 DEF Publishing, InLock
    <2>2. NewestOpen' => NewestOpen
      BY <1>1 DEF NewestOpen
    <2> QED
      BY <1>1, <1>3, <2>1, <2>2, SameFaults, RoutingKeptBy DEF redisVars
  <1> QED
    BY <1>1, <1>3, <1>4, <1>5, <1>6, SameFaults DEF IInv

\* A step inside the lock that goes on with its task.
LEMMA HolderStep ==
  ASSUME IInv, LockHolds, NEW v \in Servers, NEW where, Goto(v, where), lock' = lock,
         step[v] \notin {"start", "lock"}, where \notin {"start", "lock"},
         PublishInv(v)',
         where = "delUip" => ~NewestOpen',
         ~Publishing(v)' /\ NewestOpen' => Routed'
  PROVE  RoutingInv'
  <1>1. lock = v /\ \A w \in Servers \ {v} : ~InLock(w) /\ ~Publishing(w)
    BY HolderInLock
  <1>2. step'[v] = where /\ \A w \in Servers \ {v} : step'[w] = step[w]
    BY GotoFrame DEF IInv
  <1>3. \A w \in Servers \ {v} : ~InLock(w)' /\ ~Publishing(w)'
    BY <1>1, <1>2 DEF InLock, Publishing
  <1>4. LockInv'
    BY <1>1, <1>3 DEF LockInv
  <1>5. RoutedInv'
    <2>1. \A w \in Servers : step'[w] = "delUip" => ~NewestOpen'
      BY <1>2, <1>3 DEF InLock
    <2> QED
      BY <2>1 DEF RoutedInv
  <1>6. \A w \in Servers : PublishInv(w)'
    BY <1>3 DEF PublishInv
  <1> QED
    BY <1>4, <1>5, <1>6 DEF RoutingInv

\* Before a cleanup or a login has written anything, the newest session can
\* be found.
LEMMA RoutedInLock ==
  ASSUME IInv, LockHolds, NEW v \in Servers, step[v] \notin {"start", "lock"},
         ~Publishing(v), NewestOpen
  PROVE  Routed
  BY HolderInLock DEF IInv, RoutingInv, RoutedInv

LEMMA TrySetUserIdStep ==
  ASSUME IInv, NEW v \in Servers, TrySetUserId(v)
  PROVE  IInv'
  <1>1. /\ shard[v] # <<>> /\ Head(shard[v]).task = "login" /\ step[v] = "bind"
        /\ UNCHANGED <<life, kicked, logins, target, table, late, redisVars, faults>>
    BY DEF TrySetUserId, At, Running
  <1>2. TypeOK /\ ClosedStays
    BY <1>1 DEF IInv, ClosedStays
  <1>3. Current(v) \in Sessions /\ Current(v) # None /\ Home[Current(v)] = v
    BY <1>1, HeadTask
  <1>4. \/ /\ life[Current(v)] = "open" /\ bound' = bound \cup {Current(v)}
           /\ newest' = Current(v) /\ Goto(v, "uip")
        \/ Goto(v, "release") /\ UNCHANGED <<bound, newest>>
    BY DEF TrySetUserId, Current
  <1>5. /\ WorkersInv' /\ step' \in [Servers -> Steps] /\ shard' \in [Servers -> Seq(Tasks)]
        /\ \A w \in Servers : Current(w)' = Current(w)
        /\ \A w \in Servers \ {v} : step'[w] = step[w]
    <2>0. "uip" \in Steps /\ "release" \in Steps
      BY DEF Steps
    <2>1. Fits(shard[v], "bind", target'[v])
      BY <1>1 DEF IInv, WorkersInv
    <2>2. Fits(shard[v], "uip", target'[v]) /\ Fits(shard[v], "release", target'[v])
      BY <1>1, <2>1 DEF Fits
    <2> QED
      BY <1>1, <1>2, <1>4, <2>0, <2>2, GotoWorkers, GotoFrame
  <1>6. TypeOK'
    BY <1>1, <1>2, <1>3, <1>4, <1>5 DEF TypeOK, redisVars
  <1>7. BoundInv'
    BY <1>1, <1>4 DEF IInv, BoundInv
  <1>8. LockHolds' => RoutingInv'
    <2> SUFFICES ASSUME LockHolds, lock' = lock PROVE RoutingInv'
      BY <1>1, SameFaults DEF redisVars
    <2>1. CASE newest' = Current(v) /\ Goto(v, "uip")
      <3>1. step'[v] = "uip"
        BY <1>2, <2>1, GotoFrame
      <3>2. Publishing(v)' /\ PublishInv(v)'
        BY <1>5, <2>1, <3>1 DEF Publishing, PublishInv
      <3> QED
        BY <1>1, <2>1, <3>2, HolderStep
    <2>2. CASE Goto(v, "release") /\ UNCHANGED <<bound, newest>>
      <3>1. step'[v] = "release"
        BY <1>2, <2>2, GotoFrame
      <3>2. ~Publishing(v) /\ ~Publishing(v)' /\ step'[v] # "delUip"
        BY <1>1, <3>1 DEF Publishing
      <3>3. NewestOpen' => NewestOpen
        BY <1>1, <2>2 DEF NewestOpen
      <3>4. lock' = v
        BY <1>1, HolderInLock
      <3> QED
        BY <1>1, <1>5, <2>2, <3>2, <3>3, <3>4, RoutingKeptBy DEF redisVars
    <2> QED
      BY <1>4, <2>1, <2>2
  <1> QED
    BY <1>1, <1>5, <1>6, <1>7, <1>8, SameFaults DEF IInv

LEMMA SetUserIpStep ==
  ASSUME IInv, NEW v \in Servers, SetUserIp(v)
  PROVE  IInv'
  <1>1. /\ step[v] = "uip" /\ uip' = v /\ Goto(v, "table")
        /\ UNCHANGED <<sessionVars, target, table, late, usession, lock, newest, faults>>
    BY DEF SetUserIp, At
  <1>2. TypeOK /\ ClosedStays
    BY <1>1 DEF IInv, ClosedStays, sessionVars
  <1>3. "table" \in Steps /\ Fits(shard[v], "table", target'[v])
    BY <1>1 DEF IInv, WorkersInv, Fits, Steps
  <1>4. /\ WorkersInv' /\ step' \in [Servers -> Steps] /\ shard' \in [Servers -> Seq(Tasks)]
        /\ step'[v] = "table" /\ Current(v)' = Current(v)
    BY <1>1, <1>2, <1>3, GotoWorkers, GotoFrame
  <1>5. TypeOK'
    BY <1>1, <1>2, <1>4 DEF TypeOK, sessionVars
  <1>6. BoundInv'
    BY <1>1 DEF IInv, BoundInv, sessionVars
  <1>7. LockHolds' => RoutingInv'
    <2>1. LockHolds => newest = Current(v)
      BY <1>1 DEF IInv, RoutingInv, PublishInv, Publishing
    <2>2. LockHolds => Publishing(v)' /\ PublishInv(v)'
      BY <1>1, <1>4, <2>1 DEF PublishInv, Publishing
    <2> QED
      BY <1>1, <2>2, SameFaults, HolderStep
  <1> QED
    BY <1>1, <1>4, <1>5, <1>6, <1>7, SameFaults DEF IInv

LEMMA SetUserSessionStep ==
  ASSUME IInv, NEW v \in Servers, SetUserSession(v)
  PROVE  IInv'
  <1>1. /\ shard[v] # <<>> /\ Head(shard[v]).task = "login" /\ step[v] = "table"
        /\ table' = [table EXCEPT ![v] = Current(v)] /\ Goto(v, "session")
        /\ UNCHANGED <<sessionVars, target, late, redisVars, newest, faults>>
    BY DEF SetUserSession, At, Running, Current
  <1>2. TypeOK /\ ClosedStays
    BY <1>1 DEF IInv, ClosedStays, sessionVars
  <1>3. "session" \in Steps /\ Fits(shard[v], "session", target'[v])
    BY <1>1 DEF IInv, WorkersInv, Fits, Steps
  <1>4. /\ WorkersInv' /\ step' \in [Servers -> Steps] /\ shard' \in [Servers -> Seq(Tasks)]
        /\ step'[v] = "session" /\ Current(v)' = Current(v)
    BY <1>1, <1>2, <1>3, GotoWorkers, GotoFrame
  <1>5. table' \in [Servers -> Sessions \cup {None}] /\ table'[v] = Current(v)
    BY <1>1, <1>2, HeadTask DEF TypeOK
  <1>6. TypeOK'
    BY <1>1, <1>2, <1>4, <1>5 DEF TypeOK, sessionVars, redisVars
  <1>7. BoundInv'
    BY <1>1 DEF IInv, BoundInv, sessionVars
  <1>8. LockHolds' => RoutingInv'
    <2>1. LockHolds => newest = Current(v) /\ uip = v
      BY <1>1 DEF IInv, RoutingInv, PublishInv, Publishing
    <2>2. LockHolds => Publishing(v)' /\ PublishInv(v)'
      BY <1>1, <1>4, <1>5, <2>1 DEF PublishInv, Publishing, redisVars
    <2> QED
      BY <1>1, <2>2, SameFaults, HolderStep DEF redisVars
  <1> QED
    BY <1>1, <1>4, <1>6, <1>7, <1>8, SameFaults DEF IInv

LEMMA SetSessionKeyStep ==
  ASSUME IInv, NEW v \in Servers, SetSessionKey(v)
  PROVE  IInv'
  <1>1. /\ shard[v] # <<>> /\ Head(shard[v]).task = "login" /\ step[v] = "session"
        /\ usession' = Current(v) /\ Goto(v, "release")
        /\ UNCHANGED <<sessionVars, target, table, late, uip, lock, newest, faults>>
    BY DEF SetSessionKey, At, Running, Current
  <1>2. TypeOK /\ ClosedStays
    BY <1>1 DEF IInv, ClosedStays, sessionVars
  <1>3. "release" \in Steps /\ Fits(shard[v], "release", target'[v])
    BY <1>1 DEF IInv, WorkersInv, Fits, Steps
  <1>4. /\ WorkersInv' /\ step' \in [Servers -> Steps] /\ shard' \in [Servers -> Seq(Tasks)]
        /\ step'[v] = "release"
    BY <1>1, <1>2, <1>3, GotoWorkers, GotoFrame
  <1>5. Current(v) \in Sessions /\ Home[Current(v)] = v
    BY <1>1, HeadTask
  <1>6. TypeOK'
    BY <1>1, <1>2, <1>4, <1>5 DEF TypeOK, sessionVars
  <1>7. BoundInv'
    BY <1>1 DEF IInv, BoundInv, sessionVars
  <1>8. LockHolds' => RoutingInv'
    <2>1. LockHolds => newest = Current(v) /\ uip = v /\ table[v] = newest
      BY <1>1 DEF IInv, RoutingInv, PublishInv, Publishing
    <2>2. PublishInv(v)' /\ (LockHolds => Routed')
      BY <1>1, <1>4, <1>5, <2>1 DEF PublishInv, Publishing, Routed
    <2> QED
      BY <1>1, <2>2, SameFaults, HolderStep
  <1> QED
    BY <1>1, <1>4, <1>6, <1>7, <1>8, SameFaults DEF IInv

LEMMA RmvUserSessionStep ==
  ASSUME IInv, NEW v \in Servers, RmvUserSession(v)
  PROVE  IInv'
  <1>1. /\ shard[v] # <<>> /\ Head(shard[v]).task = "cleanup" /\ step[v] = "start"
        /\ table' = [table EXCEPT ![v] = IF @ = Current(v) THEN None ELSE @]
        /\ Goto(v, "lock")
        /\ UNCHANGED <<sessionVars, target, late, redisVars, newest, faults>>
    BY DEF RmvUserSession, At, Running, Current
  <1>2. TypeOK /\ ClosedStays
    BY <1>1 DEF IInv, ClosedStays, sessionVars
  <1>3. "lock" \in Steps /\ Fits(shard[v], "lock", target'[v])
    BY <1>1 DEF IInv, WorkersInv, Fits, Steps
  <1>4. /\ WorkersInv' /\ step' \in [Servers -> Steps] /\ shard' \in [Servers -> Seq(Tasks)]
        /\ step'[v] = "lock"
        /\ \A w \in Servers : Current(w)' = Current(w)
        /\ \A w \in Servers \ {v} : step'[w] = step[w]
    BY <1>1, <1>2, <1>3, GotoWorkers, GotoFrame
  <1>5. /\ table' \in [Servers -> Sessions \cup {None}]
        /\ \A w \in Servers \ {v} : table'[w] = table[w]
        /\ table[v] # Current(v) => table'[v] = table[v]
    BY <1>1, <1>2 DEF TypeOK
  <1>6. TypeOK'
    BY <1>1, <1>2, <1>4, <1>5 DEF TypeOK, sessionVars, redisVars
  <1>7. BoundInv'
    BY <1>1 DEF IInv, BoundInv, sessionVars
  <1>8. LockHolds' => RoutingInv'
    <2> SUFFICES ASSUME LockHolds PROVE RoutingInv'
      BY <1>1, SameFaults
    <2>1. ~Publishing(v) /\ ~Publishing(v)' /\ ~InLock(v)' /\ step'[v] # "delUip"
      BY <1>1, <1>4 DEF Publishing, InLock
    <2>2. NewestOpen' => NewestOpen
      BY <1>1 DEF NewestOpen, sessionVars
    <2>3. ASSUME NewestOpen
          PROVE  table'[Home[newest]] = table[Home[newest]]
      <3>1. newest \in Sessions /\ Home[newest] \in Servers
        BY <1>2, <2>3, HomeAssumption DEF NewestOpen, TypeOK
      <3>2. CASE Home[newest] # v
        BY <1>5, <3>1, <3>2
      <3>3. CASE Home[newest] = v
        <4>1. ASSUME NEW w \in Servers, Publishing(w)
              PROVE  FALSE
          <5>1. newest = Current(w)
            BY <4>1 DEF IInv, RoutingInv, PublishInv
          <5>2. shard[w] # <<>> /\ Head(shard[w]).task = "login"
            BY <4>1 DEF IInv, WorkersInv, Fits, Publishing
          <5>3. Home[newest] = w
            BY <5>1, <5>2, HeadTask
          <5> QED
            BY <2>1, <3>3, <4>1, <5>3
        <4>2. table[v] = newest
          BY <2>3, <3>3, <4>1 DEF IInv, RoutingInv, RoutedInv, Routed
        <4>3. life[Current(v)] = "closed"
          BY <1>1, HeadTask
        <4>4. table[v] # Current(v)
          BY <2>3, <4>2, <4>3 DEF NewestOpen
        <4> QED
          BY <1>5, <3>3, <4>4
      <3> QED
        BY <3>2, <3>3
    <2> QED
      BY <1>1, <1>4, <1>5, <2>1, <2>2, <2>3, RoutingKeptBy DEF redisVars
  <1> QED
    BY <1>1, <1>4, <1>6, <1>7, <1>8, SameFaults DEF IInv

LEMMA DelUserSessionStep ==
  ASSUME IInv, NEW v \in Servers, DelUserSession(v)
  PROVE  IInv'
  <1>1. /\ shard[v] # <<>> /\ Head(shard[v]).task = "cleanup" /\ step[v] = "check"
        /\ UNCHANGED <<sessionVars, target, table, late, uip, lock, newest, faults>>
    BY DEF DelUserSession, At, Running
  <1>2. TypeOK /\ ClosedStays
    BY <1>1 DEF IInv, ClosedStays, sessionVars
  <1>3. \/ usession = Current(v) /\ usession' = None /\ Goto(v, "delUip")
        \/ usession' = usession /\ Goto(v, "release")
    BY DEF DelUserSession, Current
  <1>4. "release" \in Steps /\ "delUip" \in Steps
    BY DEF Steps
  <1>5. Fits(shard[v], "release", target'[v]) /\ Fits(shard[v], "delUip", target'[v])
    BY <1>1 DEF IInv, WorkersInv, Fits
  <1>6. WorkersInv' /\ step' \in [Servers -> Steps] /\ shard' \in [Servers -> Seq(Tasks)]
    BY <1>1, <1>2, <1>3, <1>4, <1>5, GotoWorkers, GotoFrame
  <1>7. TypeOK'
    BY <1>1, <1>2, <1>3, <1>6 DEF TypeOK, sessionVars
  <1>8. BoundInv'
    BY <1>1 DEF IInv, BoundInv, sessionVars
  <1>9. LockHolds' => RoutingInv'
    <2> SUFFICES ASSUME LockHolds PROVE RoutingInv'
      BY <1>1, SameFaults
    <2>1. NewestOpen => Routed
      BY <1>1, RoutedInLock DEF Publishing
    <2>2. NewestOpen' <=> NewestOpen
      BY <1>1 DEF NewestOpen, sessionVars
    <2>3. CASE usession = Current(v) /\ usession' = None /\ Goto(v, "delUip")
      <3>1. step'[v] = "delUip"
        BY <1>2, <2>3, GotoFrame
      <3>2. PublishInv(v)'
        BY <3>1 DEF PublishInv, Publishing
      <3>3. ~NewestOpen
        BY <1>1, <2>1, <2>3, HeadTask DEF Routed, NewestOpen
      <3> QED
        BY <1>1, <2>2, <2>3, <3>2, <3>3, HolderStep
    <2>4. CASE usession' = usession /\ Goto(v, "release")
      <3>1. step'[v] = "release"
        BY <1>2, <2>4, GotoFrame
      <3>2. PublishInv(v)'
        BY <3>1 DEF PublishInv, Publishing
      <3>3. NewestOpen' => Routed'
        BY <1>1, <2>1, <2>2, <2>4 DEF Routed
      <3> QED
        BY <1>1, <2>4, <3>2, <3>3, HolderStep
    <2> QED
      BY <1>3, <2>3, <2>4
  <1> QED
    BY <1>1, <1>6, <1>7, <1>8, <1>9, SameFaults DEF IInv

LEMMA DelUserIpStep ==
  ASSUME IInv, NEW v \in Servers, DelUserIp(v)
  PROVE  IInv'
  <1>1. /\ step[v] = "delUip" /\ uip' = None /\ Goto(v, "release")
        /\ UNCHANGED <<sessionVars, target, table, late, usession, lock, newest, faults>>
    BY DEF DelUserIp, At
  <1>2. TypeOK /\ ClosedStays
    BY <1>1 DEF IInv, ClosedStays, sessionVars
  <1>3. "release" \in Steps /\ Fits(shard[v], "release", target'[v])
    BY <1>1 DEF IInv, WorkersInv, Fits, Steps
  <1>4. /\ WorkersInv' /\ step' \in [Servers -> Steps] /\ shard' \in [Servers -> Seq(Tasks)]
        /\ step'[v] = "release"
    BY <1>1, <1>2, <1>3, GotoWorkers, GotoFrame
  <1>5. TypeOK'
    BY <1>1, <1>2, <1>4 DEF TypeOK, sessionVars
  <1>6. BoundInv'
    BY <1>1 DEF IInv, BoundInv, sessionVars
  <1>7. LockHolds' => RoutingInv'
    <2>1. LockHolds => ~NewestOpen
      BY <1>1 DEF IInv, RoutingInv, RoutedInv
    <2>2. ~NewestOpen => ~NewestOpen'
      BY <1>1 DEF NewestOpen, sessionVars
    <2>3. PublishInv(v)'
      BY <1>4 DEF PublishInv, Publishing
    <2> QED
      BY <1>1, <2>1, <2>2, <2>3, SameFaults, HolderStep
  <1> QED
    BY <1>1, <1>4, <1>5, <1>6, <1>7, SameFaults DEF IInv

\* A fault that leaves the lock or a key behind: no claim is made after it.
LEMMA RedisFailsStep ==
  ASSUME IInv, NEW v \in Servers, RedisFails(v)
  PROVE  IInv'
  <1>1. /\ shard[v] # <<>> /\ Fault("redis")
        /\ UNCHANGED <<sessionVars, target, table, late, uip, usession, newest>>
    BY DEF RedisFails
  <1>2. TypeOK /\ FaultsOK /\ ClosedStays
    BY <1>1 DEF IInv, ClosedStays, sessionVars
  <1>3. /\ FaultsOK' /\ ~LockHolds' /\ faults'.count \in 0 .. faults'.max
        /\ \A n \in 0 .. faults.count : n \in 0 .. faults'.count
    BY <1>1, <1>2, FaultCounted
  <1>4. Fits(shard[v], step[v], target[v])
    BY DEF IInv, WorkersInv
  <1>5. \/ /\ lock' = lock
           /\ \E where \in Steps : Goto(v, where) /\ Fits(shard[v], where, target[v])
        \/ step[v] = "release" /\ lock' \in {lock, Orphan} /\ Finish(v)
    <2>1. CASE step[v] \in DOMAIN AfterFailure /\ Goto(v, AfterFailure[step[v]]) /\ lock' = lock
      <3>1. \/ step[v] = "kick" /\ AfterFailure[step[v]] = "bind"
            \/ step[v] = "uip" /\ AfterFailure[step[v]] = "table"
            \/ step[v] \in {"session", "check", "delUip"} /\ AfterFailure[step[v]] = "release"
        BY <2>1 DEF AfterFailure
      <3>2. Fits(shard[v], AfterFailure[step[v]], target[v]) /\ AfterFailure[step[v]] \in Steps
        <4>1. CASE step[v] = "kick" /\ AfterFailure[step[v]] = "bind"
          BY <1>4, <4>1 DEF Fits, Steps
        <4>2. CASE step[v] = "uip" /\ AfterFailure[step[v]] = "table"
          BY <1>4, <4>2 DEF Fits, Steps
        <4>3. CASE step[v] \in {"session", "check", "delUip"} /\ AfterFailure[step[v]] = "release"
          BY <1>4, <4>3 DEF Fits, Steps
        <4> QED
          BY <3>1, <4>1, <4>2, <4>3
      <3> QED
        BY <2>1, <3>2
    <2>2. CASE step[v] = "check" /\ Goto(v, "delUip") /\ lock' = lock
      <3>1. Fits(shard[v], "delUip", target[v]) /\ "delUip" \in Steps
        BY <1>4, <2>2 DEF Fits, Steps
      <3> QED
        BY <2>2, <3>1
    <2> QED
      BY <2>1, <2>2 DEF RedisFails
  <1>6. WorkersInv' /\ step' \in [Servers -> Steps] /\ shard' \in [Servers -> Seq(Tasks)]
    <2>1. CASE \E where \in Steps : Goto(v, where) /\ Fits(shard[v], where, target[v])
      <3>1. PICK where \in Steps : Goto(v, where) /\ Fits(shard[v], where, target[v])
        BY <2>1
      <3>2. shard' = shard /\ step' = [step EXCEPT ![v] = where]
        BY <1>2, <3>1, GotoFrame
      <3> QED
        BY <1>1, <1>2, <3>1, <3>2, GotoWorkers
    <2>2. CASE step[v] = "release" /\ Finish(v)
      BY <1>1, <1>2, <2>2, FinishWorkers
    <2> QED
      BY <1>5, <2>1, <2>2
  <1>7. TypeOK'
    <2>1. late' \in [Servers -> 0 .. faults'.count] /\ lock' \in Servers \cup {None, Orphan}
      BY <1>1, <1>2, <1>3, <1>5 DEF TypeOK
    <2> QED
      BY <1>1, <1>2, <1>3, <1>6, <2>1 DEF TypeOK, sessionVars
  <1>8. BoundInv'
    BY <1>1 DEF IInv, BoundInv, sessionVars
  <1> QED
    BY <1>3, <1>6, <1>7, <1>8 DEF IInv

LEMMA LockExpiresStep ==
  ASSUME IInv, LockExpires
  PROVE  IInv'
  <1>1. /\ lock' = None
        /\ UNCHANGED <<sessionVars, shard, step, target, table, late, uip, usession, newest>>
    BY DEF LockExpires
  <1>2. TypeOK /\ FaultsOK /\ ClosedStays
    BY <1>1 DEF IInv, ClosedStays, sessionVars
  <1>3. WorkersInv'
    BY <1>1, <1>2, SameWorkers
  <1>4. BoundInv'
    BY <1>1 DEF IInv, BoundInv, sessionVars
  <1>5. /\ FaultsOK' /\ faults'.count \in 0 .. faults'.max
        /\ late' \in [Servers -> 0 .. faults'.count]
        /\ LockHolds' => LockHolds /\ lock = Orphan
    <2>1. CASE Fault("lockExpires")
      BY <1>1, <1>2, <2>1, FaultCounted DEF TypeOK
    <2>2. CASE lock = Orphan /\ UNCHANGED faults
      BY <1>1, <1>2, <2>2, SameFaults DEF TypeOK
    <2> QED
      BY <2>1, <2>2 DEF LockExpires
  <1>6. TypeOK'
    BY <1>1, <1>2, <1>5 DEF TypeOK, sessionVars
  <1>7. LockHolds' => RoutingInv'
    <2>1. LockHolds' => \A w \in Servers : ~InLock(w)'
      BY <1>1, <1>5, HomeAssumption DEF IInv, RoutingInv, LockInv, InLock
    <2>2. \A w \in Servers : (Publishing(w)' <=> Publishing(w)) /\ Current(w)' = Current(w)
      BY <1>1 DEF Publishing, Current
    <2>3. NewestOpen' => NewestOpen
      BY <1>1 DEF NewestOpen, sessionVars
    <2> QED
      BY <1>1, <1>5, <2>1, <2>2, <2>3, RoutingKept
  <1> QED
    BY <1>3, <1>4, <1>5, <1>6, <1>7 DEF IInv

LEMMA CrashStep ==
  ASSUME IInv, NEW v \in Servers, Crash(v)
  PROVE  IInv'
  <1>1. /\ Fault("crash")
        /\ life' = [s \in Sessions |->
                      IF Home[s] = v /\ life[s] # "new" THEN "closed" ELSE life[s]]
        /\ kicked' \subseteq kicked
        /\ shard' = [shard EXCEPT ![v] = <<>>]
        /\ step' = [step EXCEPT ![v] = "start"]
        /\ target' = [target EXCEPT ![v] = None]
        /\ table' = [table EXCEPT ![v] = None]
        /\ late' = [late EXCEPT ![v] = 0]
        /\ lock' = IF lock = v THEN Orphan ELSE lock
        /\ UNCHANGED <<bound, logins, uip, usession, newest>>
    BY DEF Crash
  <1>2. TypeOK /\ FaultsOK
    BY DEF IInv
  <1>3. /\ ClosedStays
        /\ \A s \in Sessions : /\ life'[s] = "open" => life[s] = "open" /\ Home[s] # v
                               /\ life[s] # "new" => life'[s] # "new"
    <2>1. \A s \in Sessions :
            life'[s] = IF Home[s] = v /\ life[s] # "new" THEN "closed" ELSE life[s]
      BY <1>1
    <2> QED
      BY <2>1 DEF ClosedStays
  <1>4. /\ shard'[v] = <<>> /\ step'[v] = "start" /\ target'[v] = None
        /\ \A w \in Servers \ {v} : /\ shard'[w] = shard[w] /\ step'[w] = step[w]
                                    /\ target'[w] = target[w] /\ table'[w] = table[w]
                                    /\ Current(w)' = Current(w)
    BY <1>1, <1>2 DEF TypeOK, Current
  <1>5. WorkersInv'
    <2>1. ASSUME NEW w \in Servers
          PROVE  shard'[w] \in Seq(TasksOf(w)') /\ Fits(shard'[w], step'[w], target'[w])
      <3>1. CASE w = v
        BY <1>4, <3>1, QueueEmpty DEF Fits
      <3>2. CASE w # v
        <4>1. shard[w] \in Seq(TasksOf(w)) /\ Fits(shard[w], step[w], target[w])
          BY DEF IInv, WorkersInv
        <4> QED
          BY <1>3, <1>4, <3>2, <4>1, TasksGrow, QueueMonotone
      <3> QED
        BY <3>1, <3>2
    <2> QED
      BY <2>1 DEF WorkersInv
  <1>6. /\ FaultsOK' /\ (LockHolds' => LockHolds) /\ faults'.count \in 0 .. faults'.max
        /\ \A n \in 0 .. faults.count : n \in 0 .. faults'.count
        /\ faults.count \in Nat /\ faults'.count \in Nat
    BY <1>1, <1>2, FaultCounted DEF FaultsOK
  <1>7. TypeOK'
    <2>1. life' \in [Sessions -> {"new", "open", "draining", "closing", "closed"}]
      BY <1>1, <1>2 DEF TypeOK
    <2>2. late' \in [Servers -> 0 .. faults'.count]
      <3>1. late \in [Servers -> 0 .. faults'.count]
        BY <1>2, <1>6 DEF TypeOK
      <3>2. 0 \in 0 .. faults'.count
        BY <1>6, SMT
      <3> QED
        BY <1>1, <3>1, <3>2
    <2>3. shard' \in [Servers -> Seq(Tasks)] /\ step' \in [Servers -> Steps]
      BY <1>1, <1>2 DEF TypeOK, Steps
    <2> QED
      BY <1>1, <1>2, <1>6, <2>1, <2>2, <2>3 DEF TypeOK
  <1>8. BoundInv'
    BY <1>1, <1>2, <1>3 DEF IInv, BoundInv, TypeOK
  <1>9. LockHolds' => RoutingInv'
    <2> SUFFICES ASSUME LockHolds PROVE RoutingInv'
      BY <1>6
    <2>1. \A w \in Servers : InLock(w)' => lock' = w
      BY <1>1, <1>4 DEF IInv, RoutingInv, LockInv, InLock
    <2>2. \A w \in Servers \ {v} : Publishing(w)' <=> Publishing(w)
      BY <1>4 DEF Publishing
    <2>3. ~Publishing(v)' /\ step'[v] # "delUip"
      BY <1>4 DEF Publishing
    <2>4. NewestOpen' => NewestOpen /\ newest \in Sessions /\ Home[newest] # v
      BY <1>1, <1>2, <1>3 DEF NewestOpen, TypeOK
    <2>5. NewestOpen' => table'[Home[newest]] = table[Home[newest]]
      BY <1>4, <2>4, HomeAssumption
    <2>6. Publishing(v) => ~NewestOpen'
      <3>1. Publishing(v) => newest = Current(v)
        BY DEF IInv, RoutingInv, PublishInv
      <3>2. Publishing(v) => shard[v] # <<>> /\ Head(shard[v]).task = "login"
        BY DEF IInv, WorkersInv, Fits, Publishing
      <3> QED
        BY <2>4, <3>1, <3>2, HeadTask
    <2> QED
      BY <1>1, <1>4, <2>1, <2>2, <2>3, <2>4, <2>5, <2>6, RoutingKept
  <1> QED
    BY <1>5, <1>6, <1>7, <1>8, <1>9 DEF IInv

-----------------------------------------------------------------------------
(* The theorems.                                                           *)

LEMMA Initially ==
  ASSUME Init
  PROVE  IInv
  <1>1. PICK m \in Mixes :
          /\ life = [s \in Sessions |-> IF s \in m.sessions THEN "new" ELSE "closed"]
          /\ logins = m.logins
          /\ faults = [count |-> 0, max |-> m.faults, kinds |-> m.kinds]
    BY DEF Init
  <1>2. m.logins \in Nat /\ m.faults \in Nat /\ m.kinds \subseteq AllFaults
    BY BoundsAssumption
  <1>3. FaultsOK /\ faults.count = 0 /\ faults.count \in 0 .. faults.max /\ 0 \in 0 .. faults.count
    BY <1>1, <1>2, SMT DEF FaultsOK
  <1>4. TypeOK
    BY <1>1, <1>2, <1>3 DEF Init, TypeOK, Steps
  <1>5. \A v \in Servers : shard[v] = <<>> /\ step[v] = "start" /\ target[v] = None
    BY DEF Init
  <1>6. WorkersInv
    BY <1>5, QueueEmpty DEF WorkersInv, Fits
  <1>7. BoundInv
    BY DEF Init, BoundInv
  <1>8. RoutingInv
    BY <1>5 DEF Init, RoutingInv, LockInv, InLock, RoutedInv, NewestOpen, PublishInv, Publishing
  <1> QED
    BY <1>3, <1>4, <1>6, <1>7, <1>8 DEF IInv

LEMMA NextStep ==
  ASSUME IInv, [Next]_vars
  PROVE  IInv'
  <1>1. CASE UNCHANGED vars
    <2>1. UNCHANGED <<life, bound, kicked, logins, shard, step, target, table, late,
                      uip, usession, lock, newest, faults>>
      BY <1>1 DEF vars, sessionVars, redisVars
    <2>2. TypeOK' /\ FaultsOK' /\ BoundInv' /\ ClosedStays /\ (LockHolds' => LockHolds)
      BY <2>1, SameFaults DEF IInv, TypeOK, FaultsOK, BoundInv, ClosedStays
    <2>3. WorkersInv'
      BY <2>1, <2>2, SameWorkers
    <2>4. NewestOpen' => NewestOpen
      BY <2>1 DEF NewestOpen
    <2>5. LockHolds' => RoutingInv'
      BY <2>1, <2>2, <2>4, RoutingKeptIO DEF redisVars
    <2> QED
      BY <2>2, <2>3, <2>5 DEF IInv
  <1>2. ASSUME NEW s \in Sessions,
               HandleAccept(s) \/ LoginRequest(s) \/ SendAndClose(s) \/ BeginClose(s)
                 \/ CompleteClose(s)
        PROVE  IInv'
    BY <1>2, HandleAcceptStep, LoginRequestStep, SendAndCloseStep, BeginCloseStep,
       CompleteCloseStep
  <1>3. ASSUME NEW v \in Servers, Worker(v)
        PROVE  IInv'
    BY <1>3, DispatchLoginStep, AcquireLockStep, KickOldSessionStep, NotifyKickUserStep,
       TrySetUserIdStep, SetUserIpStep, SetUserSessionStep, SetSessionKeyStep,
       ReleaseLockStep, KickTaskStep, RmvUserSessionStep, DelUserSessionStep,
       DelUserIpStep DEF Worker
  <1>4. ASSUME NEW v \in Servers,
               AcquireLockTimesOut(v) \/ NotifyKickUserFails(v) \/ LateKick(v)
                 \/ RedisFails(v) \/ Crash(v)
        PROVE  IInv'
    BY <1>4, AcquireLockTimesOutStep, NotifyKickUserFailsStep, LateKickStep,
       RedisFailsStep, CrashStep
  <1>5. CASE LockExpires
    BY <1>5, LockExpiresStep
  <1> QED
    BY <1>1, <1>2, <1>3, <1>4, <1>5 DEF Next

\* The keys in Redis, the tables of UserMgr, the lock and the tasks of the
\* workers (logins, kicks, closes, cleanups) fit together in every reachable
\* state, whatever crashes, expires, is lost or comes late.
THEOREM Invariance == Spec => []IInv
  <1>1. Init => IInv
    BY Initially
  <1>2. IInv /\ [Next]_vars => IInv'
    BY NextStep
  <1> QED
    BY <1>1, <1>2, PTL DEF Spec

\* Whatever crashed and whichever kick was lost or came late: while the lock
\* outlives its holder's task and no command on Redis fails, a user who is
\* logged in is found by notifications (uip_ and usession_ in Redis and the
\* table of UserMgr) whenever no login or cleanup holds the lock.
THEOREM NewestAlwaysRoutable == Spec => []NewestRoutable
  <1>1. IInv => NewestRoutable
    <2> SUFFICES ASSUME IInv, LockHolds, lock = None, newest # None, life[newest] = "open"
                 PROVE  Routed
      BY DEF IInv, NewestRoutable, Routed
    <2>1. \A v \in Servers : ~Publishing(v)
      BY HomeAssumption DEF IInv, RoutingInv, LockInv, InLock, Publishing
    <2> QED
      BY <2>1 DEF IInv, RoutingInv, RoutedInv, NewestOpen
  <1> QED
    BY <1>1, Invariance, PTL

-----------------------------------------------------------------------------
(* What is left when everything has settled.  As long as no fault happened *)
(* the keys and the tables stand for sessions that are open, or whose      *)
(* cleanup is still to come to them.                                       *)

\* The cleanup of x is posted, and not further than this.
Waits(x, where) ==
  /\ Cleanup(x) \in Queued(shard[Home[x]])
  /\ Head(shard[Home[x]]) = Cleanup(x) => step[Home[x]] \in where

BeforeKeys == {"start", "lock", "check"}

KeysAgree == IF usession = None THEN uip = None ELSE uip = Home[usession]

\* A login writes uip_ first, a cleanup deletes it last; in between the keys
\* differ.
KeysInv ==
  /\ (\A v \in Servers : ~Publishing(v) /\ step[v] # "delUip") => KeysAgree
  /\ \A v \in Servers : step[v] = "delUip" => usession = None
  /\ usession # None =>
       usession \in bound /\ (life[usession] = "closed" => Waits(usession, BeforeKeys))
  /\ \A v \in Servers :
       Publishing(v) /\ life[newest] = "closed" => Cleanup(newest) \in Queued(shard[v])

TableInv ==
  \A v \in Servers : table[v] # None =>
    /\ table[v] \in bound /\ Home[table[v]] = v
    /\ life[table[v]] = "closed" => Waits(table[v], {"start"})

\* On its own server a login has kicked the session it is about to replace.
KickInv(v) ==
  step[v] \in {"rpc", "bind"} /\ NewestOpen /\ Home[newest] = v =>
    step[v] = "bind" /\ newest \in kicked \cup {Current(v)}

OneServer == \A s, t \in bound : Home[s] = Home[t]

OnceInv ==
  /\ \A v \in Servers : KickInv(v)
  /\ OneServer => \A s \in Online : s \in kicked \cup {newest}

SInv == KeysInv /\ TableInv /\ OnceInv

NoFault == faults.count = 0

LEMMA WaitsPosted ==
  ASSUME NEW x \in Sessions, NEW where, Waits(x, where), step' = step,
         \A w \in Servers : shard[w] # <<>> => Head(shard'[w]) = Head(shard[w]),
         \A w \in Servers : Queued(shard[w]) \subseteq Queued(shard'[w])
  PROVE  Waits(x, where)'
  <1>1. Home[x] \in Servers
    BY HomeAssumption
  <1>2. shard[Home[x]] # <<>>
    BY QueueEmpty DEF Waits
  <1> QED
    BY <1>1, <1>2 DEF Waits

LEMMA WaitsGoto ==
  ASSUME IInv, NEW v \in Servers, NEW to, Goto(v, to),
         NEW x \in Sessions, NEW where, Waits(x, where),
         Head(shard[v]).task = "cleanup" /\ step[v] \in where => to \in where
  PROVE  Waits(x, where)'
  <1>1. Home[x] \in Servers
    BY HomeAssumption
  <1>2. shard' = shard /\ step'[v] = to /\ \A w \in Servers \ {v} : step'[w] = step[w]
    BY GotoFrame DEF IInv
  <1> QED
    BY <1>1, <1>2, TaskTypes DEF Waits

LEMMA WaitsFinish ==
  ASSUME IInv, NEW v \in Servers, Finish(v), shard[v] # <<>>,
         NEW x \in Sessions, NEW where, Waits(x, where), "start" \in where,
         Head(shard[v]).task # "cleanup" \/ step[v] \notin where
  PROVE  Waits(x, where)'
  <1>1. Home[x] \in Servers /\ shard[v] \in Seq(Tasks)
    BY HomeAssumption DEF IInv, TypeOK
  <1>2. /\ step'[v] = "start" /\ shard'[v] = Tail(shard[v])
        /\ \A w \in Servers \ {v} : step'[w] = step[w] /\ shard'[w] = shard[w]
    BY FinishFrame DEF IInv
  <1>3. CASE Home[x] = v
    <2>1. Head(shard[v]) # Cleanup(x)
      BY <1>3, TaskTypes DEF Waits
    <2>2. Cleanup(x) \in Queued(Tail(shard[v]))
      BY <1>1, <1>3, <2>1, QueueTail DEF Waits
    <2> QED
      BY <1>2, <1>3, <2>2 DEF Waits
  <1>4. CASE Home[x] # v
    BY <1>1, <1>2, <1>4 DEF Waits
  <1> QED
    BY <1>3, <1>4

\* The parts of the invariant that a step of a worker does not touch.
LEMMA TableKept ==
  ASSUME IInv, TableInv, table' = table, life' = life, bound \subseteq bound',
         \A x \in Sessions : Waits(x, {"start"}) => Waits(x, {"start"})'
  PROVE  TableInv'
  BY DEF TableInv, IInv, TypeOK

LEMMA OnceKept ==
  ASSUME OnceInv, NEW v \in Servers,
         newest' = newest, bound' = bound, life' = life, kicked \subseteq kicked',
         \A w \in Servers \ {v} : step'[w] = step[w] /\ (InLock(w) => Current(w)' = Current(w)),
         KickInv(v)'
  PROVE  OnceInv'
  <1>1. NewestOpen' <=> NewestOpen
    BY DEF NewestOpen
  <1>2. ASSUME NEW w \in Servers \ {v}
        PROVE  KickInv(w)'
    <2>1. KickInv(w)
      BY DEF OnceInv
    <2> QED
      BY <1>1, <1>2, <2>1 DEF KickInv, InLock
  <1>3. OneServer' => \A s \in Online' : s \in kicked' \cup {newest'}
    BY DEF OnceInv, OneServer, Online
  <1> QED
    BY <1>2, <1>3 DEF OnceInv

LEMMA KeysKept ==
  ASSUME IInv, KeysInv, NEW v \in Servers,
         UNCHANGED <<uip, usession, newest, life>>, bound \subseteq bound',
         \A w \in Servers \ {v} : step'[w] = step[w],
         Publishing(v)' <=> Publishing(v), step'[v] = "delUip" <=> step[v] = "delUip",
         \A w \in Servers : Publishing(w) => Queued(shard[w]) \subseteq Queued(shard'[w]),
         \A x \in Sessions : Waits(x, BeforeKeys) => Waits(x, BeforeKeys)'
  PROVE  KeysInv'
  <1>1. \A w \in Servers : (Publishing(w)' <=> Publishing(w))
                           /\ (step'[w] = "delUip" <=> step[w] = "delUip")
    BY DEF Publishing
  <1>2. KeysAgree' <=> KeysAgree
    BY DEF KeysAgree
  <1>3. usession # None => usession \in Sessions
    BY DEF IInv, TypeOK
  <1> QED
    BY <1>1, <1>2, <1>3 DEF KeysInv

\* A step inside the lock.
LEMMA KeysHolder ==
  ASSUME IInv, LockHolds, KeysInv, NEW v \in Servers, NEW where, Goto(v, where),
         step[v] \notin {"start", "lock"}, life' = life,
         where # "delUip" /\ ~Publishing(v)' => KeysAgree',
         where = "delUip" => usession' = None,
         usession' # None =>
           usession' \in bound' /\ (life[usession'] = "closed" => Waits(usession, BeforeKeys)'),
         Publishing(v)' /\ life[newest'] = "closed" => Cleanup(newest') \in Queued(shard[v])
  PROVE  KeysInv'
  <1>1. \A w \in Servers \ {v} : ~InLock(w)
    BY HolderInLock
  <1>2. step'[v] = where /\ shard' = shard /\ \A w \in Servers \ {v} : step'[w] = step[w]
    BY GotoFrame DEF IInv
  <1>3. \A w \in Servers \ {v} : ~Publishing(w)' /\ step'[w] # "delUip"
    BY <1>1, <1>2 DEF InLock, Publishing
  <1> QED
    BY <1>2, <1>3 DEF KeysInv

\* The session that a login publishes is one of the server it came to.
LEMMA PublishedHere ==
  ASSUME IInv, LockHolds, NEW v \in Servers, Publishing(v)
  PROVE  /\ newest = Current(v) /\ newest \in bound /\ newest \in Sessions
         /\ newest # None /\ Home[newest] = v
         /\ shard[v] # <<>> /\ Head(shard[v]).task = "login"
  <1>1. newest = Current(v)
    BY DEF IInv, RoutingInv, PublishInv
  <1>2. shard[v] # <<>> /\ Head(shard[v]).task = "login"
    BY DEF IInv, WorkersInv, Fits, Publishing
  <1> QED
    BY <1>1, <1>2, HeadTask DEF IInv, BoundInv

\* A step of an IO thread, which may post tasks.
LEMMA SettledKeptIO ==
  ASSUME IInv, LockHolds, SInv, UNCHANGED <<step, table, uip, usession, newest, bound>>,
         \A w \in Servers : shard[w] # <<>> => Head(shard'[w]) = Head(shard[w]),
         \A w \in Servers : Queued(shard[w]) \subseteq Queued(shard'[w]),
         \A x \in bound : /\ life'[x] = "closed" => life[x] = "closed" \/ Waits(x, {"start"})'
                          /\ life'[x] = "open" => life[x] = "open",
         \A x \in kicked \ kicked' : life'[x] # "open"
  PROVE  SInv'
  <1>1. bound \subseteq Sessions /\ newest \in Sessions \cup {None}
    BY DEF IInv, TypeOK
  <1>2. \A x \in Sessions : /\ Waits(x, {"start"}) => Waits(x, {"start"})'
                            /\ Waits(x, BeforeKeys) => Waits(x, BeforeKeys)'
    BY WaitsPosted
  <1>3. \A x \in Sessions : Waits(x, {"start"})' => Waits(x, BeforeKeys)'
    BY DEF Waits, BeforeKeys
  <1>4. \A w \in Servers : (Publishing(w)' <=> Publishing(w))
    BY DEF Publishing
  <1>5. KeysInv'
    <2>1. KeysAgree' <=> KeysAgree
      BY DEF KeysAgree
    <2>2. usession # None =>
            usession \in bound /\ (life'[usession] = "closed" => Waits(usession, BeforeKeys)')
      BY <1>1, <1>2, <1>3 DEF SInv, KeysInv
    <2>3. ASSUME NEW v \in Servers, Publishing(v), life'[newest] = "closed"
          PROVE  Cleanup(newest) \in Queued(shard'[v])
      <3>1. CASE life[newest] = "closed"
        BY <2>3, <3>1 DEF SInv, KeysInv
      <3>2. CASE life[newest] # "closed"
        <4>1. newest \in bound /\ Home[newest] = v
          BY <2>3, PublishedHere
        <4>2. Waits(newest, {"start"})'
          BY <2>3, <3>2, <4>1
        <4> QED
          BY <4>1, <4>2 DEF Waits
      <3> QED
        BY <3>1, <3>2
    <2> QED
      BY <1>4, <2>1, <2>2, <2>3 DEF SInv, KeysInv
  <1>6. TableInv'
    BY <1>1, <1>2 DEF SInv, TableInv
  <1>7. OnceInv'
    <2>1. NewestOpen' => NewestOpen /\ newest \in bound
      BY DEF NewestOpen, IInv, BoundInv
    <2>2. ASSUME NEW v \in Servers
          PROVE  KickInv(v)'
      <3>1. KickInv(v)
        BY DEF SInv, OnceInv
      <3>2. step[v] \in {"rpc", "bind"} => Current(v)' = Current(v)
        BY DEF IInv, WorkersInv, Fits, Current
      <3>3. NewestOpen' => life'[newest] = "open"
        BY DEF NewestOpen
      <3> QED
        BY <2>1, <3>1, <3>2, <3>3 DEF KickInv
    <2>3. OneServer' => \A s \in Online' : s \in kicked' \cup {newest'}
      BY DEF SInv, OnceInv, OneServer, Online
    <2> QED
      BY <2>2, <2>3 DEF OnceInv
  <1> QED
    BY <1>5, <1>6, <1>7 DEF SInv

LEMMA SettledIO ==
  ASSUME IInv, LockHolds, SInv, NEW s \in Sessions,
         HandleAccept(s) \/ LoginRequest(s) \/ SendAndClose(s) \/ BeginClose(s)
           \/ CompleteClose(s)
  PROVE  SInv'
  <1>0. bound \subseteq Sessions /\ (\A x \in bound : life[x] # "new")
        /\ life \in [Sessions -> {"new", "open", "draining", "closing", "closed"}]
    BY DEF IInv, TypeOK, BoundInv
  <1>1. UNCHANGED <<step, table, uip, usession, newest, bound>>
    BY DEF HandleAccept, LoginRequest, SendAndClose, BeginClose, CompleteClose, redisVars
  <1>2. CASE HandleAccept(s)
    <2>1. \A x \in bound : life'[x] = life[x]
      BY <1>0, <1>2 DEF HandleAccept
    <2>2. shard' = shard /\ kicked' = kicked
      BY <1>2 DEF HandleAccept
    <2> QED
      BY <1>1, <2>1, <2>2, SettledKeptIO
  <1>3. CASE LoginRequest(s)
    <2>1. /\ Home[s] \in Servers /\ Login(s) \in Tasks /\ Login(s) \in TasksOf(Home[s])'
          /\ ClosedStays /\ kicked' = kicked /\ life' = life
          /\ shard' = [shard EXCEPT ![Home[s]] = Append(@, Login(s))]
      BY <1>3, HomeAssumption, TaskTypes DEF TasksOf, ClosedStays, LoginRequest
    <2>2. \A w \in Servers : Fits(shard[w], step'[w], target'[w])
      BY <1>3 DEF IInv, WorkersInv, LoginRequest
    <2>3. /\ \A w \in Servers : shard[w] # <<>> => Head(shard'[w]) = Head(shard[w])
          /\ \A w \in Servers : Queued(shard[w]) \subseteq Queued(shard'[w])
      BY <2>1, <2>2, PostWorkers
    <2> QED
      BY <1>1, <2>1, <2>3, SettledKeptIO
  <1>4. CASE SendAndClose(s)
    <2>1. /\ \A x \in bound : /\ life'[x] = "closed" => life[x] = "closed"
                              /\ life'[x] = "open" => life[x] = "open"
          /\ \A x \in kicked \ kicked' : life'[x] # "open"
      BY <1>0, <1>4 DEF SendAndClose
    <2>2. shard' = shard
      BY <1>4 DEF SendAndClose
    <2> QED
      BY <1>1, <2>1, <2>2, SettledKeptIO
  <1>5. CASE BeginClose(s)
    <2>1. \A x \in bound : /\ life'[x] = "closed" => life[x] = "closed"
                           /\ life'[x] = "open" => life[x] = "open"
      BY <1>0, <1>5 DEF BeginClose
    <2>2. shard' = shard /\ kicked' = kicked
      BY <1>5 DEF BeginClose
    <2> QED
      BY <1>1, <2>1, <2>2, SettledKeptIO
  <1>6. CASE CompleteClose(s)
    <2>0. /\ kicked' = kicked /\ life'[s] = "closed" /\ ClosedStays
          /\ \A x \in Sessions \ {s} : life'[x] = life[x]
      BY <1>0, <1>6 DEF CompleteClose, ClosedStays
    <2>1. CASE s \in bound
      <3>1. /\ Home[s] \in Servers /\ Cleanup(s) \in Tasks /\ Cleanup(s) \in TasksOf(Home[s])'
            /\ shard' = [shard EXCEPT ![Home[s]] = Append(@, Cleanup(s))]
        BY <1>6, <2>0, <2>1, HomeAssumption, TaskTypes DEF TasksOf, CompleteClose
      <3>2. \A w \in Servers : Fits(shard[w], step'[w], target'[w])
        BY <1>6 DEF IInv, WorkersInv, CompleteClose
      <3>3. /\ \A w \in Servers : shard[w] # <<>> => Head(shard'[w]) = Head(shard[w])
            /\ \A w \in Servers : Queued(shard[w]) \subseteq Queued(shard'[w])
            /\ Cleanup(s) \in Queued(shard'[Home[s]])
        BY <2>0, <3>1, <3>2, PostWorkers
      \* The session has not been closed before, so no other cleanup of it is posted.
      <3>4. ASSUME Head(shard'[Home[s]]) = Cleanup(s)
            PROVE  step'[Home[s]] = "start"
        <4>1. CASE shard[Home[s]] = <<>>
          BY <1>1, <3>1, <4>1 DEF IInv, WorkersInv, Fits
        <4>2. CASE shard[Home[s]] # <<>>
          <5>1. Head(shard[Home[s]]) = Cleanup(s)
            BY <3>1, <3>3, <3>4, <4>2
          <5>2. life[s] = "closed"
            BY <3>1, <4>2, <5>1, HeadTask, TaskTypes DEF Current
          <5> QED
            BY <1>6, <5>2 DEF CompleteClose
        <4> QED
          BY <4>1, <4>2
      <3>5. Waits(s, {"start"})'
        BY <3>3, <3>4 DEF Waits
      <3> QED
        BY <1>0, <1>1, <2>0, <3>3, <3>5, SettledKeptIO
    <2>2. CASE s \notin bound
      <3>1. shard' = shard /\ \A x \in bound : life'[x] = life[x]
        BY <1>0, <1>6, <2>0, <2>2 DEF CompleteClose
      <3> QED
        BY <1>1, <2>0, <3>1, SettledKeptIO
    <2> QED
      BY <2>1, <2>2
  <1> QED
    BY <1>2, <1>3, <1>4, <1>5, <1>6

LEMMA SettledLateKick ==
  ASSUME IInv, LockHolds, SInv, NEW v \in Servers, LateKick(v)
  PROVE  SInv'
  <1>1. /\ shard' = PostKick(v, shard) /\ UNCHANGED <<life, bound, kicked, target>>
        /\ UNCHANGED <<step, table, uip, usession, newest, bound>>
    BY DEF LateKick, sessionVars, redisVars
  <1>2. ClosedStays /\ \A w \in Servers : Fits(shard[w], step'[w], target'[w])
    BY <1>1 DEF IInv, ClosedStays, WorkersInv
  <1>3. /\ \A w \in Servers : shard[w] # <<>> => Head(shard'[w]) = Head(shard[w])
        /\ \A w \in Servers : Queued(shard[w]) \subseteq Queued(shard'[w])
    BY <1>1, <1>2, PostKickWorkers
  <1> QED
    BY <1>1, <1>3, SettledKeptIO

LEMMA SettledStutter ==
  ASSUME IInv, LockHolds, SInv,
         UNCHANGED <<sessionVars, shard, step, target, table, late, uip, usession, newest>>
  PROVE  SInv'
  BY SettledKeptIO DEF sessionVars

\* A login or a kick that neither publishes nor deletes.
LEMMA SettledKeptBy ==
  ASSUME IInv, SInv, NEW v \in Servers,
         UNCHANGED <<uip, usession, newest, life, bound, table>>, kicked \subseteq kicked',
         \A w \in Servers \ {v} : step'[w] = step[w] /\ (InLock(w) => Current(w)' = Current(w)),
         ~Publishing(v), ~Publishing(v)', step[v] # "delUip", step'[v] # "delUip",
         \A w \in Servers : Publishing(w) => Queued(shard[w]) \subseteq Queued(shard'[w]),
         \A x \in Sessions, where \in {{"start"}, BeforeKeys} :
           Waits(x, where) => Waits(x, where)',
         KickInv(v)'
  PROVE  SInv'
  <1>1. KeysInv'
    BY KeysKept DEF SInv
  <1>2. TableInv'
    BY TableKept DEF SInv
  <1>3. OnceInv'
    BY OnceKept DEF SInv
  <1> QED
    BY <1>1, <1>2, <1>3 DEF SInv

WaitsKept ==
  \A x \in Sessions, where \in {{"start"}, BeforeKeys} : Waits(x, where) => Waits(x, where)'

LEMMA LoginGoto ==
  ASSUME IInv, NEW v \in Servers, NEW to, Goto(v, to), Head(shard[v]).task = "login"
  PROVE  WaitsKept
  BY WaitsGoto DEF WaitsKept

LEMMA TaskEnds ==
  ASSUME IInv, NEW v \in Servers, Finish(v), shard[v] # <<>>,
         Head(shard[v]).task # "cleanup" \/ step[v] = "release"
  PROVE  /\ WaitsKept
         /\ \A w \in Servers : w # v => Queued(shard[w]) \subseteq Queued(shard'[w])
  <1>1. WaitsKept
    BY WaitsFinish DEF WaitsKept, BeforeKeys
  <1> QED
    BY <1>1, FinishFrame DEF IInv

LEMMA SettledDispatchLogin ==
  ASSUME IInv, SInv, NEW v \in Servers, DispatchLogin(v)
  PROVE  SInv'
  <1>1. /\ shard[v] # <<>> /\ Head(shard[v]).task = "login" /\ step[v] = "start"
        /\ UNCHANGED <<uip, usession, newest, life, bound, table>> /\ kicked \subseteq kicked'
        /\ Finish(v) \/ Goto(v, "lock")
    BY DEF DispatchLogin, At, Running, redisVars
  <1>2. /\ WaitsKept
        /\ \A w \in Servers : w # v => Queued(shard[w]) \subseteq Queued(shard'[w])
        /\ step'[v] \in {"start", "lock"}
        /\ \A w \in Servers \ {v} : step'[w] = step[w] /\ Current(w)' = Current(w)
    <2>1. CASE Finish(v)
      BY <1>1, <2>1, TaskEnds, FinishFrame DEF IInv
    <2>2. CASE Goto(v, "lock")
      BY <1>1, <2>2, LoginGoto, GotoFrame DEF IInv
    <2> QED
      BY <1>1, <2>1, <2>2
  <1>3. ~Publishing(v) /\ ~Publishing(v)' /\ KickInv(v)'
    BY <1>1, <1>2 DEF Publishing, KickInv
  <1> QED
    BY <1>1, <1>2, <1>3, SettledKeptBy DEF WaitsKept

LEMMA SettledAcquireLock ==
  ASSUME IInv, SInv, NEW v \in Servers, AcquireLock(v)
  PROVE  SInv'
  <1> DEFINE where == IF Running(v, "login") THEN "kick" ELSE "check"
  <1>1. /\ shard[v] # <<>> /\ step[v] = "lock" /\ Goto(v, where)
        /\ UNCHANGED <<uip, usession, newest, life, bound, table, kicked>>
    BY DEF AcquireLock, sessionVars
  <1>2. /\ where \in {"kick", "check"}
        /\ Head(shard[v]).task = "cleanup" => where = "check"
    BY DEF Running
  <1> HIDE DEF where
  <1>3. WaitsKept
    BY <1>1, <1>2, WaitsGoto DEF WaitsKept, BeforeKeys
  <1>4. /\ shard' = shard /\ step'[v] = where
        /\ \A w \in Servers \ {v} : step'[w] = step[w] /\ Current(w)' = Current(w)
    BY <1>1, GotoFrame DEF IInv
  <1>5. ~Publishing(v) /\ ~Publishing(v)' /\ KickInv(v)'
    BY <1>1, <1>2, <1>4 DEF Publishing, KickInv
  <1> QED
    BY <1>1, <1>2, <1>3, <1>4, <1>5, SettledKeptBy DEF WaitsKept

LEMMA SettledKickOldSession ==
  ASSUME IInv, LockHolds, SInv, NEW v \in Servers, KickOldSession(v)
  PROVE  SInv'
  <1>1. /\ shard[v] # <<>> /\ Head(shard[v]).task = "login" /\ step[v] = "kick"
        /\ UNCHANGED <<uip, usession, newest, life, bound, table>>
        /\ \/ uip # v /\ kicked' = kicked /\ (Goto(v, "bind") \/ Goto(v, "rpc"))
           \/ uip = v /\ kicked' = kicked \cup ({table[v]} \ {None, Current(v)}) /\ Goto(v, "bind")
    BY HomeAssumption DEF KickOldSession, At, Running, redisVars, Current
  <1>2. WaitsKept
    BY <1>1, LoginGoto
  <1>3. /\ shard' = shard /\ step'[v] \in {"bind", "rpc"} /\ Current(v)' = Current(v)
        /\ uip = v => step'[v] = "bind"
        /\ \A w \in Servers \ {v} : step'[w] = step[w] /\ Current(w)' = Current(w)
    BY <1>1, GotoFrame DEF IInv
  <1>4. ~Publishing(v) /\ ~Publishing(v)' /\ step'[v] # "delUip"
    BY <1>1, <1>3 DEF Publishing
  <1>5. KickInv(v)'
    <2> SUFFICES ASSUME NewestOpen, Home[newest] = v
                 PROVE  step'[v] = "bind" /\ newest \in kicked' \cup {Current(v)}
      BY <1>1, <1>3 DEF KickInv, NewestOpen
    <2>1. Routed
      BY <1>1, <1>4, RoutedInLock
    <2> QED
      BY <1>1, <1>3, <2>1 DEF Routed, NewestOpen
  <1> QED
    BY <1>1, <1>2, <1>3, <1>4, <1>5, SettledKeptBy DEF WaitsKept

LEMMA SettledNotifyKickUser ==
  ASSUME IInv, LockHolds, SInv, NEW v \in Servers, NotifyKickUser(v)
  PROVE  SInv'
  <1>1. /\ shard[v] # <<>> /\ Head(shard[v]).task = "login" /\ step[v] = "rpc"
        /\ shard' = PostKick(target[v], shard)
        /\ step' = [step EXCEPT ![v] = "bind"] /\ target' = [target EXCEPT ![v] = None]
        /\ UNCHANGED <<uip, usession, newest, life, bound, table, kicked>>
    BY DEF NotifyKickUser, At, Running, sessionVars, redisVars
  <1>2. /\ step'[v] = "bind" /\ target'[v] = None
        /\ \A w \in Servers \ {v} : step'[w] = step[w] /\ target'[w] = target[w]
    BY <1>1 DEF IInv, TypeOK
  <1>3. target[v] \in Servers /\ ClosedStays
    BY <1>1 DEF IInv, WorkersInv, Fits, TypeOK, ClosedStays
  <1>4. ASSUME NEW w \in Servers
        PROVE  Fits(shard[w], step'[w], target'[w])
    <2>1. CASE w = v
      BY <1>1, <1>2, <2>1 DEF Fits
    <2>2. CASE w # v
      BY <1>2, <2>2 DEF IInv, WorkersInv
    <2> QED
      BY <2>1, <2>2
  <1>5. /\ \A w \in Servers : shard[w] # <<>> => Head(shard'[w]) = Head(shard[w])
        /\ \A w \in Servers : Queued(shard[w]) \subseteq Queued(shard'[w])
    BY <1>1, <1>3, <1>4, PostKickWorkers
  <1>6. WaitsKept
    <2>1. ASSUME NEW x \in Sessions, NEW where \in {{"start"}, BeforeKeys}, Waits(x, where)
          PROVE  Waits(x, where)'
      <3>1. Home[x] \in Servers /\ shard[Home[x]] # <<>>
        BY <2>1, HomeAssumption, QueueEmpty DEF Waits
      <3>2. Home[x] = v => Head(shard[v]) # Cleanup(x)
        BY <1>1, TaskTypes
      <3> QED
        BY <1>2, <1>5, <2>1, <3>1, <3>2 DEF Waits
    <2> QED
      BY <2>1 DEF WaitsKept
  <1>7. \A w \in Servers \ {v} : InLock(w) => Current(w)' = Current(w)
    BY <1>5 DEF IInv, WorkersInv, Fits, InLock, Current
  <1>8. KickInv(v)'
    BY <1>1 DEF SInv, OnceInv, KickInv, NewestOpen
  <1>9. ~Publishing(v) /\ ~Publishing(v)' /\ step'[v] # "delUip"
    BY <1>1, <1>2 DEF Publishing
  <1> QED
    BY <1>1, <1>2, <1>5, <1>6, <1>7, <1>8, <1>9, SettledKeptBy DEF WaitsKept

LEMMA SettledReleaseLock ==
  ASSUME IInv, SInv, NEW v \in Servers, ReleaseLock(v)
  PROVE  SInv'
  <1>1. /\ shard[v] # <<>> /\ step[v] = "release" /\ Finish(v)
        /\ UNCHANGED <<uip, usession, newest, life, bound, table, kicked>>
    BY DEF ReleaseLock, sessionVars
  <1>2. /\ WaitsKept
        /\ \A w \in Servers : w # v => Queued(shard[w]) \subseteq Queued(shard'[w])
        /\ step'[v] = "start"
        /\ \A w \in Servers \ {v} : step'[w] = step[w] /\ Current(w)' = Current(w)
    BY <1>1, TaskEnds, FinishFrame DEF IInv
  <1>3. ~Publishing(v) /\ ~Publishing(v)' /\ KickInv(v)'
    BY <1>1, <1>2 DEF Publishing, KickInv
  <1> QED
    BY <1>1, <1>2, <1>3, SettledKeptBy DEF WaitsKept

LEMMA SettledKickTask ==
  ASSUME IInv, SInv, NEW v \in Servers, KickTask(v)
  PROVE  SInv'
  <1>1. /\ shard[v] # <<>> /\ Head(shard[v]).task = "kick" /\ step[v] = "start" /\ Finish(v)
        /\ UNCHANGED <<uip, usession, newest, life, bound, table>> /\ kicked \subseteq kicked'
    BY DEF KickTask, At, Running, redisVars
  <1>2. /\ WaitsKept
        /\ \A w \in Servers : w # v => Queued(shard[w]) \subseteq Queued(shard'[w])
        /\ step'[v] = "start"
        /\ \A w \in Servers \ {v} : step'[w] = step[w] /\ Current(w)' = Current(w)
    BY <1>1, TaskEnds, FinishFrame DEF IInv
  <1>3. ~Publishing(v) /\ ~Publishing(v)' /\ KickInv(v)'
    BY <1>1, <1>2 DEF Publishing, KickInv
  <1> QED
    BY <1>1, <1>2, <1>3, SettledKeptBy DEF WaitsKept

LEMMA SettledTrySetUserId ==
  ASSUME IInv, LockHolds, SInv, NEW v \in Servers, TrySetUserId(v)
  PROVE  SInv'
  <1>1. /\ shard[v] # <<>> /\ Head(shard[v]).task = "login" /\ step[v] = "bind"
        /\ UNCHANGED <<life, kicked, table, uip, usession>>
    BY DEF TrySetUserId, At, Running, redisVars
  <1>2. \/ /\ life[Current(v)] = "open" /\ bound' = bound \cup {Current(v)}
           /\ newest' = Current(v) /\ Goto(v, "uip")
        \/ Goto(v, "release") /\ UNCHANGED <<bound, newest>>
    BY DEF TrySetUserId, Current
  <1>3. WaitsKept
    BY <1>1, <1>2, LoginGoto
  <1>4. CASE /\ life[Current(v)] = "open" /\ bound' = bound \cup {Current(v)}
             /\ newest' = Current(v) /\ Goto(v, "uip")
    <2>1. /\ step'[v] = "uip" /\ \A w \in Servers \ {v} : step'[w] = step[w]
          /\ Current(v)' = Current(v)
      BY <1>4, GotoFrame DEF IInv
    <2>2. Publishing(v)'
      BY <2>1 DEF Publishing
    <2>3. usession # None => usession \in Sessions
      BY DEF IInv, TypeOK
    <2>4. KeysInv'
      BY <1>1, <1>3, <1>4, <2>2, <2>3, KeysHolder DEF SInv, KeysInv, WaitsKept
    <2>5. TableInv'
      BY <1>1, <1>3, <1>4, TableKept DEF SInv, WaitsKept
    <2>6. OnceInv'
      <3>1. \A w \in Servers : KickInv(w)'
        BY <1>1, <2>1, HolderInLock DEF KickInv, InLock
      <3>2. Home[Current(v)] = v
        BY <1>1, HeadTask
      <3>3. ASSUME OneServer', NEW s \in Online'
            PROVE  s \in kicked \cup {Current(v)}
        <4>1. CASE s = Current(v)
          BY <4>1
        <4>2. CASE s # Current(v)
          <5>1. s \in Online /\ OneServer
            BY <1>1, <1>4, <3>3, <4>2 DEF Online, OneServer
          <5>2. s \in kicked \cup {newest}
            BY <5>1 DEF SInv, OnceInv
          <5>3. CASE s = newest
            <6>1. NewestOpen /\ Home[newest] = v
              <7>1. newest \in bound /\ life[newest] = "open"
                BY <5>1, <5>3 DEF Online
              <7>2. newest # None
                BY <7>1, HomeAssumption DEF IInv, TypeOK
              <7>3. newest \in bound' /\ Current(v) \in bound'
                BY <1>4, <7>1
              <7> QED
                BY <3>2, <3>3, <7>1, <7>2, <7>3 DEF NewestOpen, OneServer
            <6> QED
              BY <1>1, <5>3, <6>1 DEF SInv, OnceInv, KickInv
          <5> QED
            BY <5>2, <5>3
        <4> QED
          BY <4>1, <4>2
      <3> QED
        BY <1>1, <1>4, <3>1, <3>3 DEF OnceInv
    <2> QED
      BY <2>4, <2>5, <2>6 DEF SInv
  <1>5. CASE Goto(v, "release") /\ UNCHANGED <<bound, newest>>
    <2>1. /\ step'[v] = "release" /\ shard' = shard
          /\ \A w \in Servers \ {v} : step'[w] = step[w] /\ Current(w)' = Current(w)
      BY <1>5, GotoFrame DEF IInv
    <2>2. ~Publishing(v) /\ ~Publishing(v)' /\ KickInv(v)'
      BY <1>1, <2>1 DEF Publishing, KickInv
    <2> QED
      BY <1>1, <1>3, <1>5, <2>1, <2>2, SettledKeptBy DEF WaitsKept
  <1> QED
    BY <1>2, <1>4, <1>5

\* The other steps inside the lock leave the sessions alone.
LEMMA OnceHolder ==
  ASSUME IInv, OnceInv, NEW v \in Servers, NEW where, Goto(v, where),
         where \notin {"rpc", "bind"}, UNCHANGED <<sessionVars, newest>>
  PROVE  OnceInv'
  <1>1. /\ step'[v] = where
        /\ \A w \in Servers \ {v} : step'[w] = step[w] /\ Current(w)' = Current(w)
    BY GotoFrame DEF IInv
  <1>2. KickInv(v)'
    BY <1>1 DEF KickInv
  <1> QED
    BY <1>1, <1>2, OnceKept DEF sessionVars

LEMMA SettledSetUserIp ==
  ASSUME IInv, LockHolds, SInv, NEW v \in Servers, SetUserIp(v)
  PROVE  SInv'
  <1>1. /\ Head(shard[v]).task = "login" /\ step[v] = "uip" /\ Goto(v, "table")
        /\ UNCHANGED <<sessionVars, table, usession, newest>>
    BY DEF SetUserIp, At, Running
  <1>2. life' = life /\ bound' = bound
    BY <1>1 DEF sessionVars
  <1>3. WaitsKept
    BY <1>1, LoginGoto
  <1>4. Publishing(v) /\ Publishing(v)'
    BY <1>1, GotoFrame DEF Publishing, IInv
  <1>5. usession # None => usession \in Sessions
    BY DEF IInv, TypeOK
  <1>6. KeysInv'
    BY <1>1, <1>2, <1>3, <1>4, <1>5, KeysHolder DEF SInv, KeysInv, WaitsKept
  <1>7. TableInv'
    BY <1>1, <1>2, <1>3, TableKept DEF SInv, WaitsKept
  <1>8. OnceInv'
    BY <1>1, OnceHolder DEF SInv
  <1> QED
    BY <1>6, <1>7, <1>8 DEF SInv

LEMMA SettledSetUserSession ==
  ASSUME IInv, LockHolds, SInv, NEW v \in Servers, SetUserSession(v)
  PROVE  SInv'
  <1>1. /\ Head(shard[v]).task = "login" /\ step[v] = "table" /\ Goto(v, "session")
        /\ table' = [table EXCEPT ![v] = Current(v)]
        /\ UNCHANGED <<sessionVars, redisVars, newest>>
    BY DEF SetUserSession, At, Running, Current
  <1>2. life' = life /\ bound' = bound /\ uip' = uip /\ usession' = usession
    BY <1>1 DEF sessionVars, redisVars
  <1>3. WaitsKept
    BY <1>1, LoginGoto
  <1>4. Publishing(v) /\ Publishing(v)' /\ shard' = shard
    BY <1>1, GotoFrame DEF Publishing, IInv
  <1>5. usession # None => usession \in Sessions
    BY DEF IInv, TypeOK
  <1>6. KeysInv'
    BY <1>1, <1>2, <1>3, <1>4, <1>5, KeysHolder DEF SInv, KeysInv, WaitsKept
  <1>7. TableInv'
    <2>1. newest = Current(v) /\ newest \in bound /\ Home[newest] = v
      BY <1>4, PublishedHere
    <2>2. life[newest] = "closed" => Waits(newest, {"start"})'
      <3>1. Head(shard[v]) # Cleanup(newest)
        BY <1>1, TaskTypes
      <3> QED
        BY <1>1, <1>4, <2>1, <3>1 DEF SInv, KeysInv, Waits
    <2>3. ASSUME NEW w \in Servers, table'[w] # None
          PROVE  /\ table'[w] \in bound' /\ Home[table'[w]] = w
                 /\ life'[table'[w]] = "closed" => Waits(table[w], {"start"})'
      <3>1. CASE w = v
        <4>1. table'[v] = newest
          BY <1>1, <2>1 DEF IInv, TypeOK
        <4> QED
          BY <1>1, <1>2, <2>1, <2>2, <3>1, <4>1 DEF Waits
      <3>2. CASE w # v
        <4>1. table'[w] = table[w] /\ table[w] \in Sessions \cup {None}
          BY <1>1, <3>2 DEF IInv, TypeOK
        <4>2. life[table[w]] = "closed" => Waits(table[w], {"start"})
          BY <2>3, <4>1 DEF SInv, TableInv
        <4>3. table[w] \in Sessions
          BY <2>3, <4>1
        <4> QED
          BY <1>2, <1>3, <2>3, <4>1, <4>2, <4>3 DEF SInv, TableInv, WaitsKept, Waits
      <3> QED
        BY <3>1, <3>2
    <2> QED
      BY <2>3 DEF TableInv
  <1>8. OnceInv'
    BY <1>1, OnceHolder DEF SInv
  <1> QED
    BY <1>6, <1>7, <1>8 DEF SInv

LEMMA SettledSetSessionKey ==
  ASSUME IInv, LockHolds, SInv, NEW v \in Servers, SetSessionKey(v)
  PROVE  SInv'
  <1>1. /\ Head(shard[v]).task = "login" /\ step[v] = "session" /\ Goto(v, "release")
        /\ usession' = Current(v)
        /\ UNCHANGED <<sessionVars, table, uip, newest>>
    BY DEF SetSessionKey, At, Running, Current
  <1>2. life' = life /\ bound' = bound
    BY <1>1 DEF sessionVars
  <1>3. WaitsKept
    BY <1>1, LoginGoto
  <1>4. Publishing(v) /\ ~Publishing(v)' /\ shard' = shard
    BY <1>1, GotoFrame DEF Publishing, IInv
  <1>5. newest = Current(v) /\ newest \in bound /\ newest # None /\ Home[newest] = v
    BY <1>4, PublishedHere
  <1>6. KeysAgree'
    <2>1. uip = v
      BY <1>1, <1>4 DEF IInv, RoutingInv, PublishInv
    <2> QED
      BY <1>1, <1>5, <2>1 DEF KeysAgree
  <1>7. life[usession'] = "closed" => Waits(usession, BeforeKeys)'
    <2>1. Head(shard[v]) # Cleanup(newest)
      BY <1>1, TaskTypes
    <2> QED
      BY <1>1, <1>4, <1>5, <2>1 DEF SInv, KeysInv, Waits
  <1>8. KeysInv'
    BY <1>1, <1>2, <1>4, <1>5, <1>6, <1>7, KeysHolder DEF SInv
  <1>9. TableInv' /\ OnceInv'
    BY <1>1, <1>2, <1>3, TableKept, OnceHolder DEF SInv, WaitsKept
  <1> QED
    BY <1>8, <1>9 DEF SInv

LEMMA SettledRmvUserSession ==
  ASSUME IInv, LockHolds, SInv, NEW v \in Servers, RmvUserSession(v)
  PROVE  SInv'
  <1>1. /\ shard[v] # <<>> /\ Head(shard[v]).task = "cleanup" /\ step[v] = "start"
        /\ table' = [table EXCEPT ![v] = IF @ = Current(v) THEN None ELSE @]
        /\ Goto(v, "lock")
        /\ UNCHANGED <<sessionVars, redisVars, newest>>
    BY DEF RmvUserSession, At, Running, Current
  <1>2. life' = life /\ bound' = bound /\ uip' = uip /\ usession' = usession
    BY <1>1 DEF sessionVars, redisVars
  <1>3. /\ shard' = shard /\ step'[v] = "lock"
        /\ \A w \in Servers \ {v} : step'[w] = step[w]
    BY <1>1, GotoFrame DEF IInv
  <1>4. Head(shard[v]) = Cleanup(Current(v))
    BY <1>1, HeadTask, TaskTypes DEF Current
  <1>5. KeysInv'
    <2>1. \A x \in Sessions : Waits(x, BeforeKeys) => Waits(x, BeforeKeys)'
      BY <1>1, WaitsGoto DEF BeforeKeys
    <2>2. ~Publishing(v) /\ ~Publishing(v)'
      BY <1>1, <1>3 DEF Publishing
    <2> QED
      BY <1>1, <1>2, <1>3, <2>1, <2>2, KeysKept DEF SInv
  <1>6. TableInv'
    <2>1. ASSUME NEW w \in Servers, table'[w] # None
          PROVE  table'[w] = table[w] /\ table[w] \in Sessions /\ (w = v => table[w] # Current(v))
      BY <1>1, <2>1 DEF IInv, TypeOK
    <2>2. ASSUME NEW w \in Servers, table'[w] # None
          PROVE  /\ table'[w] \in bound' /\ Home[table'[w]] = w
                 /\ life'[table'[w]] = "closed" => Waits(table[w], {"start"})'
      <3>1. /\ table[w] \in bound /\ Home[table[w]] = w
            /\ life[table[w]] = "closed" => Waits(table[w], {"start"})
        BY <2>1, <2>2 DEF SInv, TableInv
      <3>2. w = v => Head(shard[v]) # Cleanup(table[w])
        BY <1>4, <2>1, <2>2, TaskTypes
      <3>3. Waits(table[w], {"start"}) => Waits(table[w], {"start"})'
        BY <1>3, <2>1, <2>2, <3>1, <3>2 DEF Waits
      <3> QED
        BY <1>2, <2>1, <2>2, <3>1, <3>3
    <2> QED
      BY <2>2 DEF TableInv
  <1>7. OnceInv'
    BY <1>1, OnceHolder DEF SInv
  <1> QED
    BY <1>5, <1>6, <1>7 DEF SInv

LEMMA SettledDelUserSession ==
  ASSUME IInv, LockHolds, SInv, NEW v \in Servers, DelUserSession(v)
  PROVE  SInv'
  <1>1. /\ shard[v] # <<>> /\ Head(shard[v]).task = "cleanup" /\ step[v] = "check"
        /\ UNCHANGED <<sessionVars, table, uip, newest>>
        /\ \/ usession = Current(v) /\ usession' = None /\ Goto(v, "delUip")
           \/ usession # Current(v) /\ usession' = usession /\ Goto(v, "release")
    BY DEF DelUserSession, At, Running, Current
  <1>2. life' = life /\ bound' = bound
    BY <1>1 DEF sessionVars
  <1>3. /\ shard' = shard /\ step'[v] \in {"delUip", "release"}
        /\ \A w \in Servers \ {v} : step'[w] = step[w]
    BY <1>1, GotoFrame DEF IInv
  <1>4. ~Publishing(v)'
    BY <1>3 DEF Publishing
  <1>5. KeysInv'
    <2>1. CASE usession = Current(v) /\ usession' = None /\ Goto(v, "delUip")
      BY <1>1, <1>2, <1>4, <2>1, KeysHolder DEF SInv
    <2>2. CASE usession # Current(v) /\ usession' = usession /\ Goto(v, "release")
      <3>1. KeysAgree
        <4>1. \A w \in Servers : ~Publishing(w) /\ step[w] # "delUip"
          BY <1>1, HolderInLock DEF InLock, Publishing
        <4> QED
          BY <4>1 DEF SInv, KeysInv
      <3>2. KeysAgree'
        BY <1>1, <2>2, <3>1 DEF KeysAgree
      <3>3. Head(shard[v]) # Cleanup(usession)
        BY <2>2, TaskTypes DEF Current
      <3>4. usession # None => usession \in Sessions
        BY DEF IInv, TypeOK
      <3>5. usession # None /\ Waits(usession, BeforeKeys) => Waits(usession, BeforeKeys)'
        BY <1>3, <2>2, <3>3, <3>4, HomeAssumption DEF Waits
      <3> QED
        BY <1>1, <1>2, <1>4, <2>2, <3>2, <3>5, KeysHolder DEF SInv, KeysInv
    <2> QED
      BY <1>1, <2>1, <2>2
  <1>6. TableInv'
    <2>1. \A x \in Sessions : Waits(x, {"start"}) => Waits(x, {"start"})'
      BY <1>1, WaitsGoto
    <2> QED
      BY <1>1, <1>2, <2>1, TableKept DEF SInv
  <1>7. OnceInv'
    BY <1>1, OnceHolder DEF SInv
  <1> QED
    BY <1>5, <1>6, <1>7 DEF SInv

LEMMA SettledDelUserIp ==
  ASSUME IInv, LockHolds, SInv, NEW v \in Servers, DelUserIp(v)
  PROVE  SInv'
  <1>1. /\ step[v] = "delUip" /\ uip' = None /\ Goto(v, "release")
        /\ UNCHANGED <<sessionVars, table, usession, newest>>
    BY DEF DelUserIp, At
  <1>2. life' = life /\ bound' = bound
    BY <1>1 DEF sessionVars
  <1>3. usession = None
    BY <1>1 DEF SInv, KeysInv
  <1>4. KeysAgree' /\ ~Publishing(v)'
    BY <1>1, <1>3, GotoFrame DEF KeysAgree, Publishing, IInv
  <1>5. KeysInv'
    BY <1>1, <1>2, <1>3, <1>4, KeysHolder DEF SInv
  <1>6. TableInv'
    <2>1. \A x \in Sessions : Waits(x, {"start"}) => Waits(x, {"start"})'
      BY <1>1, WaitsGoto
    <2> QED
      BY <1>1, <1>2, <2>1, TableKept DEF SInv
  <1>7. OnceInv'
    BY <1>1, OnceHolder DEF SInv
  <1> QED
    BY <1>5, <1>6, <1>7 DEF SInv

\* A step after which there was no fault is none.
LEMMA NotAFault ==
  ASSUME IInv, NoFault'
  PROVE  \A kind : ~Fault(kind)
  BY FaultCounted DEF IInv, NoFault

LEMMA SettledInitially ==
  ASSUME Init
  PROVE  SInv
  <1>1. \A v \in Servers : step[v] = "start" /\ table[v] = None
    BY DEF Init
  <1> QED
    BY <1>1 DEF Init, SInv, KeysInv, KeysAgree, TableInv, OnceInv, KickInv, Publishing, Online

LEMMA SettledNext ==
  ASSUME IInv, NoFault => SInv, [Next]_vars, NoFault'
  PROVE  SInv'
  <1>1. \A kind : ~Fault(kind)
    BY NotAFault
  <1>2. faults' = faults => NoFault /\ LockHolds /\ SInv
    BY DEF NoFault, LockHolds
  <1>3. CASE UNCHANGED vars
    BY <1>2, <1>3, SettledStutter DEF vars, redisVars
  <1>4. ASSUME NEW s \in Sessions,
               HandleAccept(s) \/ LoginRequest(s) \/ SendAndClose(s) \/ BeginClose(s)
                 \/ CompleteClose(s)
        PROVE  SInv'
    <2>1. faults' = faults
      BY <1>4 DEF HandleAccept, LoginRequest, SendAndClose, BeginClose, CompleteClose
    <2> QED
      BY <1>2, <1>4, <2>1, SettledIO
  <1>5. ASSUME NEW v \in Servers, Worker(v)
        PROVE  SInv'
    <2>1. faults' = faults
      BY <1>5 DEF Worker, DispatchLogin, AcquireLock, KickOldSession, NotifyKickUser,
         TrySetUserId, SetUserIp, SetUserSession, SetSessionKey, ReleaseLock, KickTask,
         RmvUserSession, DelUserSession, DelUserIp
    <2> QED
      BY <1>2, <1>5, <2>1, SettledDispatchLogin, SettledAcquireLock, SettledKickOldSession,
         SettledNotifyKickUser, SettledTrySetUserId, SettledSetUserIp, SettledSetUserSession,
         SettledSetSessionKey, SettledReleaseLock, SettledKickTask, SettledRmvUserSession,
         SettledDelUserSession, SettledDelUserIp DEF Worker
  <1>6. ASSUME NEW v \in Servers,
               AcquireLockTimesOut(v) \/ NotifyKickUserFails(v) \/ LateKick(v)
                 \/ RedisFails(v) \/ Crash(v)
        PROVE  SInv'
    <2>1. LateKick(v)
      BY <1>1, <1>6 DEF AcquireLockTimesOut, NotifyKickUserFails, RedisFails, Crash
    <2> QED
      BY <1>2, <2>1, SettledLateKick DEF LateKick
  <1>7. CASE LockExpires
    BY <1>1, <1>2, <1>7, SettledStutter DEF LockExpires
  <1> QED
    BY <1>3, <1>4, <1>5, <1>6, <1>7 DEF Next

\* As long as nothing fails, the logins, kicks, closes and cleanups of a user
\* leave no key and no table entry of a session that is gone behind, in
\* whatever order they run on the servers; and on one server a login replaces
\* the session before it.
THEOREM SettledAlwaysAgrees == Spec => []SettledAgrees
  <1>1. Init => (NoFault => SInv)
    BY SettledInitially
  <1>2. IInv /\ (NoFault => SInv) /\ [Next]_vars => (NoFault => SInv)'
    BY SettledNext
  <1>3. IInv /\ (NoFault => SInv) => SettledAgrees
    <2> SUFFICES ASSUME IInv, SInv, Quiet
                 PROVE  /\ IF usession = None THEN uip = None
                           ELSE usession \in Online /\ uip = Home[usession]
                        /\ \A v \in Servers :
                             table[v] # None => table[v] \in Online /\ Home[table[v]] = v
                        /\ OneServer => \A s, t \in Online : s = t
      BY DEF SettledAgrees, Quiet, NoFault, OneServer
    <2>1. \A v \in Servers : shard[v] = <<>> /\ step[v] = "start"
      BY DEF Quiet, IInv, WorkersInv, Fits
    <2>2. \A x \in Sessions, where \in {{"start"}, BeforeKeys} : ~Waits(x, where)
      BY <2>1, QueueEmpty, HomeAssumption DEF Waits
    <2>3. \A x \in bound : life[x] # "closed" => x \in Online
      BY DEF Quiet, Online, IInv, BoundInv, TypeOK
    <2>4. bound \subseteq Sessions
      BY DEF IInv, TypeOK
    <2>5. KeysAgree
      BY <2>1 DEF SInv, KeysInv, Publishing
    <2>6. usession # None => usession \in Online
      BY <2>2, <2>3, <2>4 DEF SInv, KeysInv
    <2>7. \A v \in Servers : table[v] # None => table[v] \in Online /\ Home[table[v]] = v
      BY <2>2, <2>3, <2>4 DEF SInv, TableInv
    <2>8. OneServer => \A s, t \in Online : s = t
      BY DEF SInv, OnceInv, Quiet
    <2> QED
      BY <2>5, <2>6, <2>7, <2>8 DEF KeysAgree
  <1> QED
    BY <1>1, <1>2, <1>3, Invariance, PTL DEF Spec
=============================================================================
