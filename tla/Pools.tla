------------------------------- MODULE Pools -------------------------------
(* The connection pools of the servers, MySqlPool and RedisConPool: borrowers
   that wait on a condition variable, connections that die while they are
   free or lent, the thread that probes and replaces them once a minute, and
   Close.  One pool is modelled, of either kind.                             *)
EXTENDS Naturals, FiniteSets, SequencesExt

CONSTANTS
  Workers,      \* the threads that borrow
  Nesters,      \* the delivery workers, which run MysqlDao::GetUserEvent
  Kinds,        \* the kinds of pool: a subset of {"mysql", "redis"}
  Calls,        \* the MySQL calls made: "query", "transaction", "email"
  PoolSize,     \* poolSize_
  MaxCalls,     \* bound: calls begun, by all the threads together
  MaxFaults,    \* bound: faults
  Faults,       \* a subset of {"construct", "restart", "drop"}
  None

(* A nested borrower holds one connection while it waits for a second one.
   ChatServer runs 4 delivery workers over 5 connections unless its
   configuration says otherwise.                                            *)
ASSUME NestersAssumption ==
  Nesters \subseteq Workers /\ Cardinality(Nesters) < PoolSize

VARIABLES
  kind,      \* the kind of the pool
  pool,      \* pool_, connections_: the free connections
  threads,   \* each borrower: where it is, its call, what it holds
  mutex,     \* who holds mutex_ between the test of the wait and the block
  failCount, \* _fail_count
  checker,   \* _check_thread: where it is, probes left, the one it probes
  closing,   \* Close(): "no", "set", "notified", "closed"
  up,        \* the database server answers
  made,      \* connections the constructor created
  leaked,    \* connections a call kept and never returned
  calls, faults

vars == <<kind, pool, threads, mutex, failCount, checker, closing, up, made,
          leaked, calls, faults>>

\* A connection works or is broken; tx: autocommit is off.
Fresh == [ok |-> TRUE, tx |-> FALSE]
Broken(c) == [c EXCEPT !.ok = FALSE]

Idle == [pc |-> "idle", call |-> "none", held |-> <<>>]

(* The constructors.  MySqlPool stops at the first connection it cannot make
   and then starts no checking thread; RedisConPool goes on with those it got
   and counts no failure.                                                    *)
Init ==
  /\ kind \in Kinds
  /\ made \in IF "construct" \in Faults THEN 0..PoolSize ELSE {PoolSize}
  /\ pool = [i \in 1..made |-> Fresh]
  /\ threads = [x \in Workers |-> Idle]
  /\ mutex = None
  /\ failCount = 0
  /\ checker = [pc |-> IF kind = "mysql" /\ made < PoolSize THEN "off" ELSE "sleep",
                left |-> 0, con |-> Fresh]
  /\ closing = "no"
  /\ up = TRUE
  /\ leaked = 0
  /\ calls = 0
  /\ faults = IF made < PoolSize THEN 1 ELSE 0

At(ts, pc) == {x \in Workers : ts[x].pc = pc}

\* cond_.notify_one(): any blocked thread, or none when none is blocked.
NotifyOne(ts) ==
  IF At(ts, "blocked") = {} THEN {ts}
  ELSE {[ts EXCEPT ![x].pc = "get"] : x \in At(ts, "blocked")}

NotifyAll(ts) ==
  [x \in Workers |-> IF ts[x].pc = "blocked" THEN [ts[x] EXCEPT !.pc = "get"]
                     ELSE ts[x]]

NoNotify(ts) == {ts}

-----------------------------------------------------------------------------
(* Borrowing.                                                              *)

\* A thread enters a DAO or a RedisMgr function, which borrows first.
BeginCall(x) ==
  /\ threads[x].pc = "idle"
  /\ calls < MaxCalls
  /\ \E c \in IF kind = "redis" THEN {"command"}
              ELSE Calls \union (IF x \in Nesters THEN {"nested"} ELSE {}) :
       threads' = [threads EXCEPT ![x].pc = "get", ![x].call = c]
  /\ calls' = calls + 1
  /\ UNCHANGED <<kind, pool, mutex, failCount, checker, closing, up, made,
                 leaked, faults>>

(* getConnection with the mutex held: nothing once the pool is closing, the
   first free connection, or the predicate is false and the wait begins.   *)
getConnection(x) ==
  /\ threads[x].pc = "get"
  /\ mutex = None
  /\ \/ /\ closing # "no"
        /\ threads' = [threads EXCEPT ![x] = IF @.held = <<>> THEN Idle
                                             ELSE [@ EXCEPT !.pc = "return"]]
        /\ UNCHANGED <<pool, mutex>>
     \/ /\ closing = "no"
        /\ pool # <<>>
        /\ threads' = [threads EXCEPT ![x].pc = "use",
                                      ![x].held = Append(@, Head(pool))]
        /\ pool' = Tail(pool)
        /\ UNCHANGED mutex
     \/ /\ closing = "no"
        /\ pool = <<>>
        /\ threads' = [threads EXCEPT ![x].pc = "wait"]
        /\ mutex' = x
        /\ UNCHANGED pool
  /\ UNCHANGED <<kind, failCount, checker, closing, up, made, leaked, calls, faults>>

\* cond_.wait() releases the mutex and blocks, as one step.
Block(x) ==
  /\ threads[x].pc = "wait"
  /\ threads' = [threads EXCEPT ![x].pc = "blocked"]
  /\ mutex' = None
  /\ UNCHANGED <<kind, pool, failCount, checker, closing, up, made, leaked,
                 calls, faults>>

Using(x, call) == threads[x].pc = "use" /\ threads[x].call = call

Lent(x) == Last(threads[x].held)

UnchangedByUse ==
  UNCHANGED <<kind, pool, mutex, failCount, checker, closing, up, made, calls, faults>>

\* A statement outside a transaction, or a Redis command.
RunStatement(x) ==
  /\ Using(x, "query") \/ Using(x, "command")
  /\ threads' = [threads EXCEPT ![x].pc = "return"]
  /\ UNCHANGED leaked
  /\ UnchangedByUse

(* A transaction switches autocommit off and leaves it off when it ends.  On
   a broken connection the switch may fail.                                *)
RunTransaction(x) ==
  /\ Using(x, "transaction")
  /\ \E tx \in IF Lent(x).ok THEN {TRUE} ELSE BOOLEAN :
       threads' = [threads EXCEPT ![x].pc = "return",
                                  ![x].held = Append(Front(@), [Lent(x) EXCEPT !.tx = tx])]
  /\ UNCHANGED leaked
  /\ UnchangedByUse

(* GetUserEvent reads the event's number on its connection, and unless that
   fails or finds no row it reads the message or the friend request through a
   function that borrows a second connection.                               *)
GetUserEvent(x) ==
  /\ Using(x, "nested")
  /\ \E pc \in IF Len(threads[x].held) = 1 /\ Lent(x).ok THEN {"get", "return"}
               ELSE {"return"} :
       threads' = [threads EXCEPT ![x].pc = pc]
  /\ UNCHANGED leaked
  /\ UnchangedByUse

(* GateServer's CheckEmail returns its connection when it finds the user or
   when the query fails, and keeps it when there is no such user.          *)
CheckEmail(x) ==
  /\ Using(x, "email")
  /\ \/ /\ threads' = [threads EXCEPT ![x].pc = "return"]
        /\ UNCHANGED leaked
     \/ /\ Lent(x).ok
        /\ threads' = [threads EXCEPT ![x] = Idle]
        /\ leaked' = leaked + 1
  /\ UnchangedByUse

-----------------------------------------------------------------------------
(* Returning.                                                              *)

\* The thread without the connection it hands back.
HandedBack(x) ==
  LET rest == Front(threads[x].held)
  IN [threads EXCEPT ![x] = IF rest = <<>> THEN Idle ELSE [@ EXCEPT !.held = rest]]

(* MySqlPool::returnConnection.  A connection left in a transaction is rolled
   back and pushed; when the rollback fails it is replaced at once, without
   waking anybody, or counted as failed.                                    *)
PushReset(x) ==
  \/ /\ Lent(x).tx => Lent(x).ok
     /\ pool' = Append(pool, [Lent(x) EXCEPT !.tx = FALSE])
     /\ threads' \in NotifyOne(HandedBack(x))
     /\ UNCHANGED failCount
  \/ /\ Lent(x).tx /\ ~Lent(x).ok
     /\ threads' = HandedBack(x)
     /\ IF up THEN pool' = Append(pool, Fresh) /\ UNCHANGED failCount
        ELSE failCount' = failCount + 1 /\ UNCHANGED pool

\* RedisConPool::returnConnection pushes whatever it is given.
Push(x) ==
  /\ pool' = Append(pool, Lent(x))
  /\ threads' \in NotifyOne(HandedBack(x))
  /\ UNCHANGED failCount

returnConnection(x) ==
  /\ threads[x].pc = "return"
  /\ mutex = None
  /\ \/ /\ closing = "no"
        /\ IF kind = "mysql" THEN PushReset(x) ELSE Push(x)
     \/ /\ closing # "no"
        /\ threads' = HandedBack(x)
        /\ UNCHANGED <<pool, failCount>>
  /\ UNCHANGED <<kind, mutex, checker, closing, up, made, leaked, calls, faults>>

-----------------------------------------------------------------------------
(* The checking thread.                                                    *)

UnchangedByCheck ==
  UNCHANGED <<kind, mutex, closing, up, made, leaked, calls, faults>>

(* Once a minute it notes how many connections are free.  A thread that has
   been woken runs long before a minute is over.                            *)
BeginCheck ==
  /\ checker.pc = "sleep"
  /\ closing = "no"
  /\ mutex = None
  /\ At(threads, "get") = {}
  /\ checker' = [checker EXCEPT !.pc = "probe", !.left = Len(pool)]
  /\ UNCHANGED <<pool, threads, failCount>>
  /\ UnchangedByCheck

ProbeOver == checker.left = 0 \/ pool = <<>> \/ (kind = "redis" /\ closing # "no")

\* getConNonBlock, or the same lines of checkConnectionPro.
getConNonBlock ==
  /\ checker.pc = "probe"
  /\ mutex = None
  /\ checker' = IF ProbeOver THEN [checker EXCEPT !.pc = "repair", !.left = 0]
                ELSE [checker EXCEPT !.pc = "ping", !.con = Head(pool)]
  /\ pool' = IF ProbeOver THEN pool ELSE Tail(pool)
  /\ UNCHANGED <<threads, failCount>>
  /\ UnchangedByCheck

Probed == [checker EXCEPT !.pc = "probe", !.left = @ - 1, !.con = Fresh]

PutBackQuietly ==
  /\ pool' = Append(pool, checker.con)
  /\ UNCHANGED threads

(* A connection that answers goes back and wakes a thread.  RedisConPool frees
   it instead once it is closing.                                           *)
PutBack ==
  IF kind = "redis" /\ closing # "no" THEN UNCHANGED <<pool, threads>>
  ELSE /\ pool' = Append(pool, checker.con)
       /\ threads' \in NotifyOne(threads)

PingUncounted ==
  /\ checker.pc = "ping"
  /\ mutex = None
  /\ checker' = Probed
  /\ IF checker.con.ok THEN PutBack ELSE UNCHANGED <<pool, threads>>
  /\ UNCHANGED failCount
  /\ UnchangedByCheck

(* SELECT 1 or PING.  MySqlPool asks only a connection nobody used for 5
   seconds.  One that does not answer is dropped and counted.              *)
Ping ==
  /\ checker.pc = "ping"
  /\ mutex = None
  /\ checker' = Probed
  /\ \/ /\ checker.con.ok \/ kind = "mysql"
        /\ PutBack
        /\ UNCHANGED failCount
     \/ /\ ~checker.con.ok
        /\ failCount' = failCount + 1
        /\ UNCHANGED <<pool, threads>>
  /\ UnchangedByCheck

(* reconnect: the new connection is pushed, by MySqlPool without waking
   anybody, by RedisConPool through returnConnection.                       *)
reconnect ==
  /\ checker.pc = "repair"
  /\ mutex = None
  /\ failCount > 0
  /\ up
  /\ kind = "mysql" => closing = "no"
  /\ failCount' = failCount - 1
  /\ IF closing = "no"
     THEN /\ pool' = Append(pool, Fresh)
          /\ threads' \in IF kind = "mysql" THEN NoNotify(threads) ELSE NotifyOne(threads)
     ELSE UNCHANGED <<pool, threads>>
  /\ UNCHANGED checker
  /\ UnchangedByCheck

\* Nothing left to replace, or the server still refuses.
EndCheck ==
  /\ checker.pc = "repair"
  /\ failCount = 0 \/ ~up \/ (kind = "mysql" /\ closing # "no")
  /\ checker' = [checker EXCEPT !.pc = "sleep"]
  /\ UNCHANGED <<pool, threads, failCount>>
  /\ UnchangedByCheck

\* The loop of the thread ends when it sees b_stop_.
CheckerEnds ==
  /\ checker.pc = "sleep"
  /\ closing # "no"
  /\ checker' = [checker EXCEPT !.pc = "ended"]
  /\ UNCHANGED <<pool, threads, failCount>>
  /\ UnchangedByCheck

-----------------------------------------------------------------------------
(* Close, which takes mutex_ neither to set b_stop_ nor to notify.  The
   servers call it when their workers have ended, and also when an exception
   leaves main while the workers still run.                                  *)
Close ==
  /\ closing = "no"
  /\ closing' = "set"
  /\ UNCHANGED <<kind, pool, threads, mutex, failCount, checker, up, made, leaked,
                 calls, faults>>

CloseNotifies ==
  /\ closing = "set"
  /\ closing' = "notified"
  /\ threads' = NotifyAll(threads)
  /\ UNCHANGED <<kind, pool, mutex, failCount, checker, up, made, leaked, calls, faults>>

\* The checking thread is joined and RedisConPool frees its connections.
CloseJoins ==
  /\ closing = "notified"
  /\ checker.pc \in {"ended", "off"}
  /\ mutex = None
  /\ closing' = "closed"
  /\ pool' = IF kind = "redis" THEN <<>> ELSE pool
  /\ UNCHANGED <<kind, threads, mutex, failCount, checker, up, made, leaked, calls, faults>>

(* The database server: a restart breaks every connection, and a single one
   may be cut.                                                              *)
Restart ==
  /\ "restart" \in Faults
  /\ faults < MaxFaults
  /\ up
  /\ up' = FALSE
  /\ faults' = faults + 1
  /\ pool' = [i \in DOMAIN pool |-> Broken(pool[i])]
  /\ threads' = [x \in Workers |->
       [threads[x] EXCEPT !.held = [i \in DOMAIN @ |-> Broken(@[i])]]]
  /\ checker' = IF checker.pc = "ping" THEN [checker EXCEPT !.con = Broken(@)] ELSE checker
  /\ UNCHANGED <<kind, mutex, failCount, closing, made, leaked, calls>>

ServerBack ==
  /\ ~up
  /\ up' = TRUE
  /\ UNCHANGED <<kind, pool, threads, mutex, failCount, checker, closing, made,
                 leaked, calls, faults>>

Drop ==
  /\ "drop" \in Faults
  /\ faults < MaxFaults
  /\ faults' = faults + 1
  /\ \/ /\ \E i \in DOMAIN pool : pool' = [pool EXCEPT ![i] = Broken(@)]
        /\ UNCHANGED threads
     \/ /\ \E x \in Workers : \E i \in DOMAIN threads[x].held :
             threads' = [threads EXCEPT ![x].held[i] = Broken(@)]
        /\ UNCHANGED pool
  /\ UNCHANGED <<kind, mutex, failCount, checker, closing, up, made, leaked, calls>>

-----------------------------------------------------------------------------
Work ==
  \E x \in Workers :
    \/ getConnection(x) \/ Block(x) \/ RunStatement(x) \/ RunTransaction(x)
    \/ GetUserEvent(x) \/ CheckEmail(x) \/ returnConnection(x)

Check == BeginCheck \/ getConNonBlock \/ Ping \/ reconnect \/ EndCheck \/ CheckerEnds

Next ==
  \/ \E x \in Workers : BeginCall(x)
  \/ Work \/ Check
  \/ Close \/ CloseNotifies \/ CloseJoins
  \/ Restart \/ ServerBack \/ Drop

Spec == Init /\ [][Next]_vars

(* The threads run, the checking thread wakes every minute, Close goes on once
   it began, and the database server comes back.                            *)
FairSpec ==
  Spec /\ WF_vars(Work) /\ WF_vars(Check)
       /\ WF_vars(CloseNotifies \/ CloseJoins) /\ WF_vars(ServerBack)

-----------------------------------------------------------------------------
Connection == [ok : BOOLEAN, tx : BOOLEAN]

(* Every variable keeps its type, and no call holds more than two connections. *)
TypeOK ==
  /\ kind \in {"mysql", "redis"}
  /\ pool \in Seq(Connection)
  /\ \A x \in Workers :
       /\ threads[x].pc \in {"idle", "get", "wait", "blocked", "use", "return"}
       /\ threads[x].call \in {"none", "query", "transaction", "nested", "email", "command"}
       /\ threads[x].held \in Seq(Connection) /\ Len(threads[x].held) <= 2
  /\ mutex \in Workers \union {None}
  /\ failCount \in 0..PoolSize
  /\ checker.pc \in {"sleep", "probe", "ping", "repair", "ended", "off"}
  /\ checker.left \in 0..PoolSize /\ checker.con \in Connection
  /\ closing \in {"no", "set", "notified", "closed"}
  /\ up \in BOOLEAN
  /\ made \in 0..PoolSize /\ leaked \in 0..PoolSize
  /\ calls \in 0..MaxCalls /\ faults \in 0..MaxFaults

Held == FoldSet(LAMBDA x, n : Len(threads[x].held) + n, 0, Workers)

Probing == IF checker.pc = "ping" THEN 1 ELSE 0

(* While the pool is open no connection is lost and none is made twice: those
   free, those lent, the one being probed, those counted as failed and those
   a call kept add up to what the constructor made.  A connection that fails
   while it is lent, while it is free, or while its replacement fails is
   counted exactly once.  Stated together with the types.                   *)
Conserved ==
  /\ TypeOK
  /\ closing = "no" =>
       Len(pool) + Held + Probing + failCount + leaked = made

\* Connections that nested borrowers can never hold all at once.
Spare ==
  made > leaked + (IF kind = "mysql" THEN Cardinality(Nesters) ELSE 0)

Waiting(x) == threads[x].pc \in {"get", "wait", "blocked"}

(* Whoever asks for a connection gets one, or nothing when the pool closes:
   through broken connections, a restart of the database, and replacements
   that wake nobody, as long as the constructor made, and the calls have not
   kept, more connections than there are nested borrowers.  Not promised: a
   MySQL pool whose constructor failed, which has no checking thread, and a
   pool that closes, which can miss a thread between its test and its
   block.                                                                   *)
Served ==
  \A x \in Workers :
    Waiting(x) /\ Spare /\ checker.pc # "off" ~>
      ~Waiting(x) \/ ~Spare \/ closing # "no"

(* Between calls every connection the constructor made is free again or counted
   for replacement: the connections a call is done with go back to the pool
   (returnConnection).  The code does not keep this (README, section 6).     *)
AllBack ==
  At(threads, "idle") = Workers /\ checker.pc \in {"sleep", "off"} /\ closing = "no" =>
    Len(pool) + failCount = made
=============================================================================
