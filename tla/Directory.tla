----------------------------- MODULE Directory -----------------------------
(* Service discovery and login tokens: the chat servers that report themselves
   and their load to Redis (ChatServer main), and StatusServer, which picks a
   server from those reports and issues or checks a user's token
   (StatusServiceImpl).  Registrations are written by chat servers only, so
   all of them parse.                                                       *)
EXTENDS Naturals, Sequences, FiniteSets, FiniteSetsExt

CONSTANTS
  Servers,      \* the chat servers
  Users,        \* user ids
  Conns,        \* the HTTP connections of a run, in the order they are accepted
  MaxFaults,    \* bound: faults and other rare events of a behaviour, of any kind
  Mixes,        \* what a behaviour mixes: requests, kinds of faults, the capacity
                \* of the Gate's executor, whether codes are kept at first, and
                \* whether only one chat server has been started
  None

ASSUME ConnsAssumption == Conns \subseteq Nat \ {0} /\ IsFiniteSet(Conns)
ASSUME BoundAssumption == MaxFaults \in Nat
ASSUME MixesAssumption == \A m \in Mixes : m.kept \in BOOLEAN
\* There is an id for the user of the start and for one more of each connection.
ASSUME UsersAssumption == 1 .. Cardinality(Conns) + 1 \subseteq Users

VARIABLES
  chat,       \* each chat server: its state, its authenticated sessions, and
              \* whether it took itself out of Redis
  registry,   \* chatserver:registry: who is listed
  lease,      \* chatserver:lease:<name>: the load last reported, or None
  token,      \* utoken_<uid>: number of the token in Redis, 0 for none
  call,       \* the calls of GetChatServer, at most one for a connection
  mix,        \* the mix of this behaviour
  faults

dirVars == <<chat, registry, lease, token, call, mix, faults>>

(* A call of GetChatServer: the servers still to look at (seen), the best of
   those looked at, with their load, and the outcome.  away is history: the
   servers that had left in good order when the call arrived.               *)
NoCall == [pc |-> "none", uid |-> 0, token |-> 0, seen |-> {}, best |-> {},
           least |-> 0, server |-> None, error |-> "none", wrote |-> 0, away |-> {}]

DirInit ==
  /\ mix \in Mixes
  /\ registry = {s \in Servers : mix.alone => s = CHOOSE r \in Servers : TRUE}
  /\ chat = [s \in Servers |-> [st |-> IF s \in registry THEN "up" ELSE "down",
                                load |-> 0, clean |-> s \notin registry]]
  /\ lease = [s \in Servers |-> IF s \in registry THEN 0 ELSE None]
  /\ token = [u \in Users |-> IF u = 1 THEN 1 ELSE 0]
  /\ call = [c \in Conns |-> NoCall]
  /\ faults = 0

Fault(kind) == kind \in mix.faults /\ faults < MaxFaults /\ faults' = faults + 1

-----------------------------------------------------------------------------
(* The chat servers.                                                       *)

\* A user has logged in to the server (GetAuthenticatedSessionCount).
SessionsChange(s) ==
  /\ chat[s].st = "up"
  /\ Fault("load")
  /\ chat' = [chat EXCEPT ![s].load = @ + 1]
  /\ UNCHANGED <<registry, lease, token, call, mix>>

ReportOnce(s) ==
  /\ chat[s].st = "up"
  /\ s \notin registry
  /\ registry' = registry \union {s}
  /\ lease' = [lease EXCEPT ![s] = chat[s].load]
  /\ UNCHANGED <<chat, token, call, faults, mix>>

(* report_lease, at the start and every two seconds: the registration, then
   the load with six seconds to live.  Either command may fail; the other is
   sent all the same, and the next report tries again.                      *)
ReportLease(s) ==
  /\ chat[s].st = "up"
  /\ \/ /\ registry' = registry \union {s}
        /\ lease' = [lease EXCEPT ![s] = chat[s].load]
        /\ UNCHANGED faults
     \/ /\ Fault("redis")
        /\ \/ registry' = registry \union {s} /\ UNCHANGED lease
           \/ lease' = [lease EXCEPT ![s] = chat[s].load] /\ UNCHANGED registry
  /\ UNCHANGED <<chat, token, call, mix>>

(* Redis drops a lease six seconds after its last report: that of a server
   that is not up, and that of one whose reports are late.                  *)
LeaseExpires(s) ==
  /\ lease[s] # None
  /\ IF chat[s].st = "up" THEN Fault("late") ELSE UNCHANGED faults
  /\ lease' = [lease EXCEPT ![s] = None]
  /\ UNCHANGED <<chat, registry, token, call, mix>>

Crash(s) ==
  /\ chat[s].st = "up"
  /\ Fault("crash")
  /\ chat' = [chat EXCEPT ![s] = [st |-> "down", load |-> 0, clean |-> FALSE]]
  /\ UNCHANGED <<registry, lease, token, call, mix>>

(* The signal handler stops the io_context, and with it the reports, before it
   drains the workers: until then the server is still listed.               *)
Shutdown(s) ==
  /\ chat[s].st = "up"
  /\ Fault("exit")
  /\ chat' = [chat EXCEPT ![s].st = "ending", ![s].load = 0]
  /\ UNCHANGED <<registry, lease, token, call, mix>>

LeaveListed(s) ==
  /\ chat[s].st = "ending"
  /\ chat' = [chat EXCEPT ![s].st = "down", ![s].clean = TRUE]
  /\ UNCHANGED <<registry, lease, token, call, faults, mix>>

\* Defer at the end of main: the registration and the lease are deleted.
Leave(s) ==
  /\ chat[s].st = "ending"
  /\ chat' = [chat EXCEPT ![s].st = "down", ![s].clean = TRUE]
  /\ registry' = registry \ {s}
  /\ lease' = [lease EXCEPT ![s] = None]
  /\ UNCHANGED <<token, call, faults, mix>>

\* The server is started again; its first report follows.
StartAgain(s) ==
  /\ chat[s].st = "down"
  /\ chat' = [chat EXCEPT ![s].st = "up", ![s].clean = FALSE]
  /\ call' = [c \in Conns |-> [call[c] EXCEPT !.away = @ \ {s}]]
  /\ UNCHANGED <<registry, lease, token, faults, mix>>

-----------------------------------------------------------------------------
(* StatusServer.                                                           *)

\* The request arrives; one with a token asks for another server (reassignment).
Ask(c, u, t) ==
  call' = [call EXCEPT ![c].pc = IF t = 0 THEN "list" ELSE "check",
                       ![c].uid = u, ![c].token = t,
                       ![c].away = {s \in Servers : chat[s].st = "down" /\ chat[s].clean}]

Reply(c, error) == call' = [call EXCEPT ![c].pc = "done", ![c].error = error]

(* A reassignment needs the token that is in Redis.  A failed read answers as a
   missing token does.                                                      *)
CheckToken(c) ==
  /\ call[c].pc = "check"
  /\ LET kept == token[call[c].uid]
     IN \/ /\ kept = 0
           /\ Reply(c, "UidInvalid")
           /\ UNCHANGED faults
        \/ /\ kept # 0
           /\ Fault("redis")
           /\ Reply(c, "UidInvalid")
        \/ /\ kept # 0
           /\ IF kept = call[c].token
              THEN call' = [call EXCEPT ![c].pc = "list"]
              ELSE Reply(c, "TokenInvalid")
           /\ UNCHANGED faults
  /\ UNCHANGED <<chat, registry, lease, token, mix>>

\* getChatServer: HGETALL of the registry.
HGetAll(c) ==
  /\ call[c].pc = "list"
  /\ \/ /\ call' = [call EXCEPT ![c].pc = "lease", ![c].seen = registry]
        /\ UNCHANGED faults
     \/ /\ Fault("redis")
        /\ Reply(c, "NoAvailableChatServer")
  /\ UNCHANGED <<chat, registry, lease, token, mix>>

Skip(c, s) == call' = [call EXCEPT ![c].seen = @ \ {s}]

(* getChatServer: the leases are read one after the other.  A server without
   a lease, or whose lease cannot be read, is no candidate; of the candidates
   those with the least load are kept.                                      *)
ReadLease(c) ==
  /\ call[c].pc = "lease"
  /\ call[c].seen # {}
  /\ LET s     == CHOOSE r \in call[c].seen : TRUE
         best  == call[c].best
         lower == best = {} \/ lease[s] < call[c].least
     IN \/ /\ IF lease[s] = None THEN Skip(c, s)
              ELSE call' = [call EXCEPT
                     ![c].seen  = @ \ {s},
                     ![c].best  = IF lower THEN {s}
                                  ELSE IF lease[s] = call[c].least THEN @ \union {s} ELSE @,
                     ![c].least = IF lower THEN lease[s] ELSE @]
           /\ UNCHANGED faults
        \/ Fault("redis") /\ Skip(c, s)
  /\ UNCHANGED <<chat, registry, lease, token, mix>>

ChooseNewToken(c) ==
  /\ call[c].pc = "lease"
  /\ call[c].seen = {}
  /\ IF call[c].best = {} THEN Reply(c, "NoAvailableChatServer")
     ELSE \E s \in call[c].best : call' = [call EXCEPT ![c].server = s, ![c].pc = "token"]
  /\ UNCHANGED <<chat, registry, lease, token, faults, mix>>

(* The round-robin counter is shared by all the calls, so any server of a tie
   may be next.  A reassignment keeps its token.                            *)
Choose(c) ==
  /\ call[c].pc = "lease"
  /\ call[c].seen = {}
  /\ IF call[c].best = {} THEN Reply(c, "NoAvailableChatServer")
     ELSE \E s \in call[c].best :
            call' = [call EXCEPT
              ![c].server = s,
              ![c].pc     = IF call[c].token = 0 THEN "token" ELSE "done",
              ![c].error  = IF call[c].token = 0 THEN "none" ELSE "ok"]
  /\ UNCHANGED <<chat, registry, lease, token, faults, mix>>

Issued == Max({1} \union {token[u] : u \in Users} \union {call[c].wrote : c \in Conns})

\* A login gets a new token, which replaces the user's old one.
SetEx(c) ==
  /\ call[c].pc = "token"
  /\ \/ /\ token' = [token EXCEPT ![call[c].uid] = Issued + 1]
        /\ call' = [call EXCEPT ![c].pc = "done", ![c].error = "ok", ![c].wrote = Issued + 1]
        /\ UNCHANGED faults
     \/ /\ Fault("redis")
        /\ Reply(c, "RPCFailed")
        /\ UNCHANGED token
  /\ UNCHANGED <<chat, registry, lease, mix>>

\* A token's day is over.
TokenExpires(u) ==
  /\ token[u] # 0
  /\ Fault("day")
  /\ token' = [token EXCEPT ![u] = 0]
  /\ UNCHANGED <<chat, registry, lease, call, mix>>

StatusStep(c) ==
  CheckToken(c) \/ HGetAll(c) \/ ReadLease(c) \/ Choose(c) \/ SetEx(c)

ServerStep(s) ==
  \/ SessionsChange(s) \/ ReportLease(s) \/ LeaseExpires(s)
  \/ Crash(s) \/ Shutdown(s) \/ Leave(s) \/ StartAgain(s)

-----------------------------------------------------------------------------
(* Once the outages are over, the leases follow the servers. One that is gone,
   whether it crashed or left, has lost its lease for good, so no later request
   is sent to it: the lease carries a time to live and only the server itself
   renews it. One that is up is found, with its present load, whatever reports
   failed or came late before.                                              *)
LeasesFollow ==
  <>[](\A s \in Servers :
         IF chat[s].st = "up" THEN s \in registry /\ lease[s] = chat[s].load
         ELSE lease[s] = None)

(* A server that had left in good order before a request was made, and has not
   been started again, is not handed out to it.                             *)
NotSentAway == \A c \in Conns : call[c].server = None \/ call[c].server \notin call[c].away
=============================================================================
