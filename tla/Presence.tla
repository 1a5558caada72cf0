------------------------------ MODULE Presence ------------------------------
(***************************************************************************)
(* Where a user is logged in.                                              *)
(*                                                                         *)
(* Several chat servers share three Redis keys per user: uip_ (the server  *)
(* that has the user), usession_ (the session) and a lock with a lifetime. *)
(* Each server also has a table from user to session.  Everything a server *)
(* does for one user runs on one worker, in order (its shard): logins,     *)
(* kicks and the cleanup that follows a close.  Closing itself happens on  *)
(* the IO thread of the session.  A login kicks the user's old session, on *)
(* its own server directly and on another one by an RPC.                   *)
(*                                                                         *)
(* The module follows one user.                                            *)
(***************************************************************************)
EXTENDS Naturals, Sequences

CONSTANTS
  Servers,
  Sessions,      \* TCP sessions ever accepted for the user
  Home,          \* Home[s]: the server that accepted session s
  None,          \* no session, no server
  Orphan,        \* a lock whose holder no longer releases it
  Mixes          \* bounds, one chosen per behaviour: the sessions accepted,
                 \* how many login requests they send together, how many
                 \* faults of which kinds (a subset of AllFaults) happen

AllFaults ==
  {"kickLost", "kickLate", "lockWait", "lockExpires", "redis", "crash"}

ASSUME HomeAssumption ==
  /\ Home \in [Sessions -> Servers]
  /\ None \notin Sessions \cup Servers
  /\ Orphan \notin Servers \cup {None}

ASSUME BoundsAssumption ==
  \A m \in Mixes :
    /\ m.sessions \subseteq Sessions
    /\ m.logins \in Nat
    /\ m.faults \in Nat
    /\ m.kinds \subseteq AllFaults

VARIABLES
  life,          \* life[s]: lifecycle of the session
  bound,         \* sessions whose _user_uid is set
  kicked,        \* sessions whose SendAndClose is posted to the IO thread
  logins,        \* login requests that are still to be sent
  shard,         \* shard[v]: tasks of the user's worker on v, head running
  step,          \* step[v]: where the running task is
  target,        \* target[v]: server that the running login asks to kick
  table,         \* table[v]: session of the user in UserMgr of v
  late,          \* late[v]: kick requests to v whose caller gave up
  uip, usession, lock,
  newest,        \* the session bound last (history variable)
  faults         \* faults so far, and the bounds on them

sessionVars == <<life, bound, kicked, logins>>
redisVars == <<uip, usession, lock>>
vars == <<sessionVars, shard, step, target, table, late, redisVars, newest,
          faults>>

Steps == {"start", "lock", "kick", "rpc", "bind", "uip", "table", "session",
          "check", "delUip", "release"}

Login(s) == [task |-> "login", session |-> s]
Cleanup(s) == [task |-> "cleanup", session |-> s]
Kick == [task |-> "kick", session |-> None]

Init ==
  /\ \E m \in Mixes :
       /\ life = [s \in Sessions |-> IF s \in m.sessions THEN "new" ELSE "closed"]
       /\ logins = m.logins
       /\ faults = [count |-> 0, max |-> m.faults, kinds |-> m.kinds]
  /\ bound = {}
  /\ kicked = {}
  /\ shard = [v \in Servers |-> <<>>]
  /\ step = [v \in Servers |-> "start"]
  /\ target = [v \in Servers |-> None]
  /\ table = [v \in Servers |-> None]
  /\ late = [v \in Servers |-> 0]
  /\ uip = None
  /\ usession = None
  /\ lock = None
  /\ newest = None

Fault(kind) ==
  /\ kind \in faults.kinds
  /\ faults.count < faults.max
  /\ faults' = [faults EXCEPT !.count = @ + 1]

-----------------------------------------------------------------------------
(* IO threads.                                                             *)

(* HandleAccept registers the session and starts reading.                  *)
HandleAccept(s) ==
  /\ life[s] = "new"
  /\ life' = [life EXCEPT ![s] = "open"]
  /\ UNCHANGED <<bound, kicked, logins, shard, step, target, table, late,
                 redisVars, newest, faults>>

(* A login request arrives and is posted to the user's worker.             *)
LoginRequest(s) ==
  /\ life[s] = "open"
  /\ logins > 0
  /\ logins' = logins - 1
  /\ shard' = [shard EXCEPT ![Home[s]] = Append(@, Login(s))]
  /\ UNCHANGED <<life, bound, kicked, step, target, table, late, redisVars,
                 newest, faults>>

(* The posted SendAndClose runs.  BeginDrain succeeds in an open session.  *)
SendAndClose(s) ==
  /\ s \in kicked
  /\ kicked' = kicked \ {s}
  /\ life' = [life EXCEPT ![s] = IF @ = "open" THEN "draining" ELSE @]
  /\ UNCHANGED <<bound, logins, shard, step, target, table, late, redisVars,
                 newest, faults>>

(* The peer disconnects, the heartbeat expires, the terminal frame is out  *)
(* or its timer has run down.                                              *)
BeginClose(s) ==
  /\ life[s] \in {"open", "draining"}
  /\ life' = [life EXCEPT ![s] = "closing"]
  /\ UNCHANGED <<bound, kicked, logins, shard, step, target, table, late,
                 redisVars, newest, faults>>

(* The rest of Close.  A bound session leaves its cleanup to the user's    *)
(* worker, after what is already queued there.                             *)
CompleteClose(s) ==
  /\ life[s] = "closing"
  /\ life' = [life EXCEPT ![s] = "closed"]
  /\ shard' = IF s \in bound
                THEN [shard EXCEPT ![Home[s]] = Append(@, Cleanup(s))]
                ELSE shard
  /\ UNCHANGED <<bound, kicked, logins, step, target, table, late, redisVars,
                 newest, faults>>

-----------------------------------------------------------------------------
(* The user's worker on server v.                                          *)

Running(v, task) == shard[v] # <<>> /\ Head(shard[v]).task = task

At(v, task, where) == Running(v, task) /\ step[v] = where

Goto(v, where) == step' = [step EXCEPT ![v] = where] /\ UNCHANGED shard

\* The task is over; the next one starts.
Finish(v) ==
  /\ shard' = [shard EXCEPT ![v] = Tail(@)]
  /\ step' = [step EXCEPT ![v] = "start"]

(* DispatchClientMessage: the session may have closed meanwhile, and one   *)
(* that is already logged in is refused and closed.                        *)
DispatchLogin(v) ==
  /\ At(v, "login", "start")
  /\ LET s == Head(shard[v]).session
     IN  \/ /\ life[s] # "open"
            /\ Finish(v)
            /\ UNCHANGED kicked
         \/ /\ life[s] = "open"
            /\ s \in bound
            /\ kicked' = kicked \cup {s}
            /\ Finish(v)
         \/ /\ life[s] = "open"
            /\ s \notin bound
            /\ Goto(v, "lock")
            /\ UNCHANGED kicked
  /\ UNCHANGED <<life, bound, logins, target, table, late, redisVars, newest,
                 faults>>

(* acquireLock: SET NX EX, retried until it succeeds or the time is up.    *)
AcquireLock(v) ==
  /\ shard[v] # <<>>
  /\ step[v] = "lock"
  /\ lock = None
  /\ lock' = v
  /\ Goto(v, IF Running(v, "login") THEN "kick" ELSE "check")
  /\ UNCHANGED <<sessionVars, target, table, late, uip, usession, newest,
                 faults>>

(* Without the lock the login is refused, the cleanup given up.            *)
AcquireLockTimesOut(v) ==
  /\ shard[v] # <<>>
  /\ step[v] = "lock"
  /\ Fault("lockWait")
  /\ Finish(v)
  /\ UNCHANGED <<sessionVars, target, table, late, redisVars, newest>>

(* LoginHandler inside the lock: kick the old session ...                  *)
KickOldSession(v) ==
  /\ At(v, "login", "kick")
  /\ LET s == Head(shard[v]).session
     IN  \/ /\ uip = None
            /\ Goto(v, "bind")
            /\ UNCHANGED <<kicked, target>>
         \/ /\ uip = v
            /\ kicked' = kicked \cup ({table[v]} \ {None, s})
            /\ Goto(v, "bind")
            /\ UNCHANGED target
         \/ /\ uip \notin {None, v}
            /\ target' = [target EXCEPT ![v] = uip]
            /\ Goto(v, "rpc")
            /\ UNCHANGED kicked
  /\ UNCHANGED <<life, bound, logins, table, late, redisVars, newest, faults>>

\* Body of the NotifyKickUser service on server w.
PostKick(w, queues) ==
  IF table[w] = None THEN queues ELSE [queues EXCEPT ![w] = Append(@, Kick)]

NotifyKickUser(v) ==
  /\ At(v, "login", "rpc")
  /\ shard' = PostKick(target[v], shard)
  /\ step' = [step EXCEPT ![v] = "bind"]
  /\ target' = [target EXCEPT ![v] = None]
  /\ UNCHANGED <<sessionVars, table, late, redisVars, newest, faults>>

(* The call fails, or the deadline passes while it is still under way.     *)
(* LoginHandler does not look at the result.                               *)
NotifyKickUserFails(v) ==
  /\ At(v, "login", "rpc")
  /\ \/ Fault("kickLost") /\ UNCHANGED late
     \/ Fault("kickLate") /\ late' = [late EXCEPT ![target[v]] = @ + 1]
  /\ Goto(v, "bind")
  /\ target' = [target EXCEPT ![v] = None]
  /\ UNCHANGED <<sessionVars, table, redisVars, newest>>

LateKick(w) ==
  /\ late[w] > 0
  /\ late' = [late EXCEPT ![w] = @ - 1]
  /\ shard' = PostKick(w, shard)
  /\ UNCHANGED <<sessionVars, step, target, table, redisVars, newest, faults>>

\* Mutant: the session is bound whether it is open or not.
TrySetUserIdUnchecked(v) ==
  /\ At(v, "login", "bind")
  /\ bound' = bound \cup {Head(shard[v]).session}
  /\ newest' = Head(shard[v]).session
  /\ Goto(v, "uip")
  /\ UNCHANGED <<life, kicked, logins, target, table, late, redisVars, faults>>

\* Mutant: the early return keeps the lock.
TrySetUserIdLeaks(v) ==
  /\ At(v, "login", "bind")
  /\ LET s == Head(shard[v]).session
     IN  IF life[s] = "open" /\ s \notin bound
           THEN /\ bound' = bound \cup {s}
                /\ newest' = s
                /\ Goto(v, "uip")
           ELSE /\ Finish(v)
                /\ UNCHANGED <<bound, newest>>
  /\ UNCHANGED <<life, kicked, logins, target, table, late, redisVars, faults>>

(* ... bind the session if it is still open ...                            *)
TrySetUserId(v) ==
  /\ At(v, "login", "bind")
  /\ LET s == Head(shard[v]).session
     IN  IF life[s] = "open" /\ s \notin bound
           THEN /\ bound' = bound \cup {s}
                /\ newest' = s
                /\ Goto(v, "uip")
           ELSE /\ Goto(v, "release")
                /\ UNCHANGED <<bound, newest>>
  /\ UNCHANGED <<life, kicked, logins, target, table, late, redisVars, faults>>

(* ... and publish it, in three writes.                                    *)
SetUserIp(v) ==
  /\ At(v, "login", "uip")
  /\ uip' = v
  /\ Goto(v, "table")
  /\ UNCHANGED <<sessionVars, target, table, late, usession, lock, newest,
                 faults>>

SetUserSession(v) ==
  /\ At(v, "login", "table")
  /\ table' = [table EXCEPT ![v] = Head(shard[v]).session]
  /\ Goto(v, "session")
  /\ UNCHANGED <<sessionVars, target, late, redisVars, newest, faults>>

SetSessionKey(v) ==
  /\ At(v, "login", "session")
  /\ usession' = Head(shard[v]).session
  /\ Goto(v, "release")
  /\ UNCHANGED <<sessionVars, target, table, late, uip, lock, newest, faults>>

\* The lock is deleted only if it is still the one this task took.
ReleaseLock(v) ==
  /\ shard[v] # <<>>
  /\ step[v] = "release"
  /\ lock' = IF lock = v THEN None ELSE lock
  /\ Finish(v)
  /\ UNCHANGED <<sessionVars, target, table, late, uip, usession, newest,
                 faults>>

(* The task that NotifyKickUser posted: the session of the user by now.    *)
KickTask(v) ==
  /\ At(v, "kick", "start")
  /\ kicked' = kicked \cup ({table[v]} \ {None})
  /\ Finish(v)
  /\ UNCHANGED <<life, bound, logins, target, table, late, redisVars, newest,
                 faults>>

(* CleanupUserPresence: the table first, then, with the lock, the keys,    *)
(* unless they have come to stand for another session.                     *)
RmvUserSession(v) ==
  /\ At(v, "cleanup", "start")
  /\ table' = [table EXCEPT ![v] = IF @ = Head(shard[v]).session THEN None
                                                                 ELSE @]
  /\ Goto(v, "lock")
  /\ UNCHANGED <<sessionVars, target, late, redisVars, newest, faults>>

\* Mutant: the keys are deleted without asking whose they are.
DelUserSessionAny(v) ==
  /\ At(v, "cleanup", "check")
  /\ usession' = None
  /\ Goto(v, "delUip")
  /\ UNCHANGED <<sessionVars, target, table, late, uip, lock, newest, faults>>

DelUserSession(v) ==
  /\ At(v, "cleanup", "check")
  /\ IF usession = Head(shard[v]).session
       THEN usession' = None /\ Goto(v, "delUip")
       ELSE UNCHANGED usession /\ Goto(v, "release")
  /\ UNCHANGED <<sessionVars, target, table, late, uip, lock, newest, faults>>

DelUserIp(v) ==
  /\ At(v, "cleanup", "delUip")
  /\ uip' = None
  /\ Goto(v, "release")
  /\ UNCHANGED <<sessionVars, target, table, late, usession, lock, newest,
                 faults>>

(* A Redis command fails.  No caller looks at the result of a write, and a *)
(* read that fails counts as a missing key.                                *)
AfterFailure ==
  [kick |-> "bind", uip |-> "table", session |-> "release",
   check |-> "release", delUip |-> "release"]

RedisFails(v) ==
  /\ shard[v] # <<>>
  /\ Fault("redis")
  /\ \/ /\ step[v] \in DOMAIN AfterFailure
        /\ Goto(v, AfterFailure[step[v]])
        /\ UNCHANGED lock
     \/ /\ step[v] = "check"
        /\ usession = Head(shard[v]).session
        /\ Goto(v, "delUip")
        /\ UNCHANGED lock
     \/ /\ step[v] = "release"
        /\ lock' = IF lock = v THEN Orphan ELSE lock
        /\ Finish(v)
  /\ UNCHANGED <<sessionVars, target, table, late, uip, usession, newest>>

-----------------------------------------------------------------------------
(* The lock expires under a task that takes longer than its lifetime, and  *)
(* always once its holder is dead or could not delete it.                  *)
LockExpires ==
  /\ \/ lock \in Servers /\ Fault("lockExpires")
     \/ lock = Orphan /\ UNCHANGED faults
  /\ lock' = None
  /\ UNCHANGED <<sessionVars, shard, step, target, table, late, uip, usession,
                 newest>>

(* A server dies and is started again.                                     *)
Crash(v) ==
  /\ Fault("crash")
  /\ life' = [s \in Sessions |->
                IF Home[s] = v /\ life[s] # "new" THEN "closed" ELSE life[s]]
  /\ kicked' = {s \in kicked : Home[s] # v}
  /\ shard' = [shard EXCEPT ![v] = <<>>]
  /\ step' = [step EXCEPT ![v] = "start"]
  /\ target' = [target EXCEPT ![v] = None]
  /\ table' = [table EXCEPT ![v] = None]
  /\ late' = [late EXCEPT ![v] = 0]
  /\ lock' = IF lock = v THEN Orphan ELSE lock
  /\ UNCHANGED <<bound, logins, uip, usession, newest>>

-----------------------------------------------------------------------------
Worker(v) ==
  \/ DispatchLogin(v)
  \/ AcquireLock(v)
  \/ KickOldSession(v)
  \/ NotifyKickUser(v)
  \/ TrySetUserId(v)
  \/ SetUserIp(v)
  \/ SetUserSession(v)
  \/ SetSessionKey(v)
  \/ ReleaseLock(v)
  \/ KickTask(v)
  \/ RmvUserSession(v)
  \/ DelUserSession(v)
  \/ DelUserIp(v)

Next ==
  \/ \E s \in Sessions :
       \/ HandleAccept(s)
       \/ LoginRequest(s)
       \/ SendAndClose(s)
       \/ BeginClose(s)
       \/ CompleteClose(s)
  \/ \E v \in Servers :
       \/ Worker(v)
       \/ AcquireLockTimesOut(v)
       \/ NotifyKickUserFails(v)
       \/ LateKick(v)
       \/ RedisFails(v)
       \/ Crash(v)
  \/ LockExpires

(* Workers and IO threads keep running, a drained session is closed by its *)
(* timer at the latest, and the lock of a dead holder expires.             *)
Fairness ==
  /\ \A v \in Servers : WF_vars(Worker(v)) /\ WF_vars(LateKick(v))
  /\ \A s \in Sessions : /\ WF_vars(SendAndClose(s))
                         /\ WF_vars(life[s] = "draining" /\ BeginClose(s))
                         /\ WF_vars(CompleteClose(s))
  /\ WF_vars(lock = Orphan /\ LockExpires)

Spec == Init /\ [][Next]_vars

FairSpec == Spec /\ Fairness

-----------------------------------------------------------------------------
(* Properties.                                                             *)

Tasks == [task : {"login", "cleanup"}, session : Sessions] \cup {Kick}

TypeOK ==
  /\ life \in [Sessions -> {"new", "open", "draining", "closing", "closed"}]
  /\ bound \subseteq Sessions
  /\ kicked \subseteq Sessions
  /\ logins \in Nat
  /\ shard \in [Servers -> Seq(Tasks)]
  /\ step \in [Servers -> Steps]
  /\ target \in [Servers -> Servers \cup {None}]
  /\ table \in [Servers -> Sessions \cup {None}]
  /\ late \in [Servers -> 0 .. faults.count]
  /\ uip \in Servers \cup {None}
  /\ usession \in Sessions \cup {None}
  /\ lock \in Servers \cup {None, Orphan}
  /\ newest \in Sessions \cup {None}
  /\ faults.count \in 0 .. faults.max

(* The lock outlives its holder's task, and no command fails.              *)
LockHolds ==
  faults.count = 0 \/ faults.kinds \cap {"lockExpires", "redis"} = {}

(* Whenever the lock is free and the session that logged in last is open,  *)
(* both keys and the table of its server lead to it: a notification for    *)
(* the user finds the session, whatever cleanups and kicks of earlier      *)
(* sessions are still to run, on this server or another, and whether the   *)
(* kicks arrived or not.  Stated together with the types.                  *)
NewestRoutable ==
  /\ TypeOK
  /\ (LockHolds /\ lock = None /\ newest # None /\ life[newest] = "open") =>
       /\ uip = Home[newest]
       /\ usession = newest
       /\ table[Home[newest]] = newest

\* Nothing is queued, posted or under way.
Quiet ==
  /\ faults.count = 0
  /\ \A v \in Servers : shard[v] = <<>> /\ late[v] = 0
  /\ kicked = {}
  /\ \A s \in Sessions : life[s] \notin {"draining", "closing"}

Online == {s \in bound : life[s] = "open"}

(* When everything has settled and no fault happened, nothing is left of   *)
(* sessions that are gone, whatever closed while it was logging in: the    *)
(* keys stand together for an open session or are gone together, and a     *)
(* table has an open session or none. And a user who logs in to one server *)
(* only is logged in once. Logins to several servers may leave two         *)
(* sessions open, when a kick misses (README, section 6).                  *)
SettledAgrees ==
  Quiet =>
    /\ IF usession = None THEN uip = None
       ELSE usession \in Online /\ uip = Home[usession]
    /\ \A v \in Servers : table[v] # None => table[v] \in Online /\ Home[table[v]] = v
    /\ (\A s, t \in bound : Home[s] = Home[t]) => \A s, t \in Online : s = t

(* A kick that another server asked for is meant for the session the login *)
(* there replaces: it never hits the session that logged in last. The code *)
(* does not keep this (README, section 6).                                 *)
KickSparesNewest ==
  [][\A v \in Servers : KickTask(v) => newest \notin kicked' \ kicked]_vars

(* What is posted to the worker (a login, a kick, a cleanup) is done in    *)
(* the end, although it waits for a lock that all servers share, that a    *)
(* dying server keeps, and that every early return has to give back; and a *)
(* session that was told to go is closed, by the write of its last frame,  *)
(* by the drain timer or by its peer. Requests are finite in number, so in *)
(* the end nothing is left posted and no session half closed.              *)
WorkEnds ==
  <>[](/\ \A v \in Servers : shard[v] = <<>>
       /\ kicked = {} /\ \A s \in Sessions : life[s] \notin {"draining", "closing"})
=============================================================================
