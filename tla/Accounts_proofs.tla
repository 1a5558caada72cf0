--------------------------- MODULE Accounts_proofs ---------------------------
(***************************************************************************)
(* Theorems about Accounts and Directory, for every number of connections, *)
(* users, addresses, names, chat servers and faults.                       *)
(***************************************************************************)
EXTENDS Accounts, FiniteSetTheorems, WellFoundedInduction, TLAPS

\* The time a prover has for a step.
USE ZenonT(3), SMTT(30)

-----------------------------------------------------------------------------
(* The inductive invariant.                                                *)

Urls == {"none", "varify", "register", "reset", "login", "reassign", "procedure",
         "get_test", "unknown"}
Bodies == {"good", "broken", "partial", "mismatch"}
Outs == {"none", "ok", "404", "503", "500", "broken", "VarifyExpired", "VarifyCodeErr",
         "UserExist", "EmailNotMatch", "PasswdUpFailed", "PasswdInvalid", "PasswdErr",
         "Error_Json", "RPCFailed", "NoAvailableChatServer", "TokenInvalid",
         "UidInvalid", "RedisErr", "Exception"}
Ready == {"free", "reading"}
Past == {"post", "write", "end"}

RequestType ==
  [url : Urls, email : Emails \cup {None}, name : Names \cup {None}, code : Nat,
   pwd : Nat, token : Nat, body : Bodies, mine : BOOLEAN]

ConType ==
  [st : {"free", "reading", "queued", "handler", "post", "write", "end"},
   open : BOOLEAN, req : RequestType,
   pc : {"none", "code", "pwd", "varify", "status", "query", "select", "insert",
         "email", "update", "statusWait", "varifyWait"},
   out : Outs, got : Outs, during : SUBSET Conns, hit : BOOLEAN]

CallType ==
  [pc : {"none", "list", "check", "lease", "token", "done"}, uid : Nat, token : Nat,
   seen : SUBSET Servers, best : SUBSET Servers, least : Nat,
   server : Servers \cup {None}, error : Outs, wrote : Nat, away : SUBSET Servers]

VarifyType ==
  [pc : {"none", "get", "set", "expire", "mail", "done"}, code : Nat,
   error : Outs \ {"UserExist"}]

ServerType == [st : {"up", "ending", "down"}, load : Nat, clean : BOOLEAN]
CodeType == [code : Nat, live : BOOLEAN, ttl : BOOLEAN]
UserType == [uid : Nat, name : Names, email : Emails, pwd : Nat]

\* What a request that parses has in it, on connection c.
Shape(c, r) ==
  /\ r.url \in {"varify", "register", "reset", "login"} => r.email \in Emails
  /\ r.url \in {"register", "reset"} => r.name \in Names /\ r.pwd = c
  /\ r.url = "login" => r.token = 0
  /\ r.url = "reassign" => r.token # 0

\* The steps of the handler of a path.
Path(url) ==
  CASE url = "register" -> {"code", "select", "insert"}
    [] url = "reset"    -> {"code", "email", "update"}
    [] url = "login"    -> {"pwd", "status", "statusWait"}
    [] url = "reassign" -> {"status", "statusWait"}
    [] url = "varify"   -> {"varify", "varifyWait"}
    [] OTHER            -> {"query"}

Handling(k) == k.st = "handler" /\ k.req.body = "good"

\* The handler has made its call, and waits at pc or is over.
Asking(k, pc) == k.req.body = "good" /\ (k.st \in Past \/ (k.st = "handler" /\ k.pc = pc))

\* A connection k with its call a of StatusServer: no step of another changes
\* what is said here.
CallInv(k, a) ==
  /\ a.pc # "none" =>
       /\ Asking(k, "statusWait")
       /\ k.req.url \in {"login", "reassign"}
       /\ a.uid \in Users
       /\ a.token = k.req.token
  /\ a.pc = "none" => a.best = {} /\ a.server = None /\ a.wrote = 0
  /\ a.wrote # 0 => a.pc = "done" /\ a.token = 0
  /\ a.pc = "token" => a.token = 0
  /\ a.pc = "done" /\ a.error = "ok" /\ a.token = 0 => a.wrote # 0
  /\ k.out = "ok" /\ k.req.url = "login" => a.pc = "done" /\ a.error = "ok"

\* The same for its call v of VarifyServer.
VarifyInv(k, v) ==
  /\ v.pc # "none" => Asking(k, "varifyWait") /\ k.req.url = "varify"
  /\ k.out = "ok" /\ k.req.url = "varify" => v.pc = "done" /\ v.error = "ok"

ConInv(c, k) ==
  /\ k.st \in Ready => k.out = "none" /\ k.req.url = "none"
  /\ k.st \notin Ready /\ k.req.body = "good" => Shape(c, k.req)
  /\ Handling(k) => k.pc \in Path(k.req.url)

\* The code v holds is one made for the address; it has been kept in Redis.
Coded(v) == v.pc \in {"set", "expire", "mail"} \/ (v.pc = "done" /\ v.error = "ok")
KeptOnce(v) == v.pc \in {"expire", "mail"} \/ (v.pc = "done" /\ v.error = "ok")

MadeFor(code, e, made) == code \in DOMAIN made /\ made[code] = e

\* What connection k relies on in the tables rows and made.
TableInv(k, v, rows, made) ==
  /\ Handling(k) /\ k.pc \in {"select", "insert", "email", "update"} =>
       MadeFor(k.req.code, k.req.email, made)
  /\ Handling(k) /\ k.pc = "update" =>
       \E u \in rows : u.name = k.req.name /\ u.email = k.req.email
  /\ Handling(k) /\ k.pc = "status" /\ k.req.url = "login" =>
       \E u \in rows : u.email = k.req.email
  /\ k.out = "ok" /\ k.req.url = "register" =>
       \E u \in rows : u.name = k.req.name /\ u.email = k.req.email
  /\ k.out = "ok" /\ k.req.url = "reset" => \E u \in rows : u.name = k.req.name
  /\ k.out = "UserExist" /\ ~k.hit =>
       \E u \in rows : u.name = k.req.name \/ u.email = k.req.email
  /\ Coded(v) => MadeFor(v.code, k.req.email, made)

\* Whoever came before c and is not in its during has nothing more to do.
Finished(d) ==
  con[d].st = "end" /\ call[d].pc \in {"none", "done"} /\ varify[d].pc \in {"none", "done"}
OrderInv ==
  \A c, d \in Conns :
    d < c /\ con[c].st # "free" /\ d \notin con[c].during => Finished(d)

KeptInv ==
  \A c \in Conns :
    KeptOnce(varify[c]) =>
      \/ codes[Address(c)].code = varify[c].code
      \/ \E d \in Conns : Beside(d, c) /\ con[d].req.url = "varify" /\ Address(d) = Address(c)

TokenInv ==
  \A c \in Conns :
    call[c].wrote # 0 =>
      \/ token[call[c].uid] \in {call[c].wrote, 0}
      \/ \E d \in Conns : Beside(d, c) /\ con[d].req.url = "login" /\ call[d].wrote # 0

\* The numbers of tokens have a largest.
NumbersInv ==
  \E n \in Nat : (\A u \in Users : token[u] <= n) /\ (\A c \in Conns : call[c].wrote <= n)

ExecInv ==
  /\ queue \in Seq(Conns) /\ IsInjective(queue)
  /\ running \subseteq Conns
  /\ \A c \in Conns :
       /\ con[c].st = "queued" <=> \E i \in DOMAIN queue : queue[i] = c
       /\ con[c].st = "handler" => c \in running
       /\ c \in running => con[c].st \in Past \cup {"handler"}
  /\ outstanding = Len(queue) + Cardinality(running)

Over == {c \in Conns : con[c].st \in Past}

UsersInv ==
  /\ users \subseteq UserType /\ IsFiniteSet(users)
  /\ Cardinality(users) <= Cardinality(Over) + 1
  /\ \A u \in users : u.uid \in 1 .. Cardinality(users)
  /\ \A u, v \in users : u # v => u.name # v.name /\ u.email # v.email /\ u.uid # v.uid

\* A password was set with a code made for the address.
OwnerInv ==
  \A u \in users : u.pwd # 0 =>
    /\ u.pwd \in Conns
    /\ con[u.pwd].st \notin Ready
    /\ MadeFor(con[u.pwd].req.code, u.email, issued)

CodesInv ==
  /\ issued \in Seq(Emails)
  /\ \A e \in Emails : MadeFor(codes[e].code, e, issued) /\ mailed[e] \in DOMAIN issued

\* A server that left in good order is in neither key, and no call that came
\* after it left takes it.
ServersInv ==
  /\ \A s \in Servers :
       /\ chat[s].load <= faults
       /\ lease[s] = None \/ lease[s] \in 0 .. faults
       /\ chat[s].st = "down" /\ chat[s].clean => s \notin registry /\ lease[s] = None
AwayInv ==
  \A c \in Conns :
    /\ \A s \in call[c].away : chat[s].st = "down" /\ chat[s].clean
    /\ call[c].best \cap call[c].away = {}
    /\ call[c].server = None \/ call[c].server \notin call[c].away

TypesInv ==
  /\ gate \in {"up", "draining", "stopped"}
  /\ con \in [Conns -> ConType] /\ call \in [Conns -> CallType]
  /\ varify \in [Conns -> VarifyType]
  /\ codes \in [Emails -> CodeType] /\ mailed \in [Emails -> Nat]
  /\ token \in [Users -> Nat]
  /\ chat \in [Servers -> ServerType] /\ registry \subseteq Servers
  /\ lease \in [Servers -> Nat \cup {None}]
  /\ dialog \in [page : {"form", "tip", "login"}, left : 0 .. Countdown]
  /\ faults \in 0 .. MaxFaults

EachInv ==
  \A c \in Conns :
    /\ ConInv(c, con[c]) /\ CallInv(con[c], call[c]) /\ VarifyInv(con[c], varify[c])
    /\ TableInv(con[c], varify[c], users, issued)

IInv ==
  /\ TypesInv /\ EachInv /\ OrderInv /\ KeptInv /\ TokenInv /\ NumbersInv /\ ExecInv
  /\ UsersInv /\ OwnerInv /\ CodesInv /\ ServersInv /\ AwayInv

-----------------------------------------------------------------------------
(* Steps that leave a part of the state alone.                             *)

Others(c) ==
  \A d \in Conns \ {c} : con'[d] = con[d] /\ call'[d] = call[d] /\ varify'[d] = varify[d]

RowsGrow == \A u \in users : \E v \in users' : v.name = u.name /\ v.email = u.email
IssuedGrows == \A i \in DOMAIN issued : i \in DOMAIN issued' /\ issued'[i] = issued[i]

\* Rows keep their name and address, and codes their address: what a handler
\* has read of them stays true.
LEMMA TableGrows ==
  ASSUME NEW k, NEW v, TableInv(k, v, users, issued), RowsGrow, IssuedGrows
  PROVE  TableInv(k, v, users', issued')
<1>1. \A code, e : MadeFor(code, e, issued) => MadeFor(code, e, issued')
  BY DEF IssuedGrows, MadeFor
<1>2. \A n, e : (\E u \in users : u.name = n /\ u.email = e) =>
                  \E u \in users' : u.name = n /\ u.email = e
  BY DEF RowsGrow
<1>3. \A e : (\E u \in users : u.email = e) => \E u \in users' : u.email = e
  BY DEF RowsGrow
<1>4. \A n : (\E u \in users : u.name = n) => \E u \in users' : u.name = n
  BY DEF RowsGrow
<1>5. \A n, e : (\E u \in users : u.name = n \/ u.email = e) =>
                  \E u \in users' : u.name = n \/ u.email = e
  BY DEF RowsGrow
<1>. QED
  BY <1>1, <1>2, <1>3, <1>4, <1>5 DEF TableInv

\* A step for one connection leaves what the others rely on.
LEMMA EachKept ==
  ASSUME EachInv, NEW c \in Conns, Others(c), RowsGrow, IssuedGrows,
         ConInv(c, con'[c]), CallInv(con'[c], call'[c]), VarifyInv(con'[c], varify'[c]),
         TableInv(con'[c], varify'[c], users', issued')
  PROVE  EachInv'
<1> SUFFICES ASSUME NEW d \in Conns
             PROVE  /\ ConInv(d, con'[d]) /\ CallInv(con'[d], call'[d])
                    /\ VarifyInv(con'[d], varify'[d])
                    /\ TableInv(con'[d], varify'[d], users', issued')
  BY DEF EachInv
<1>1. CASE d = c
  BY <1>1
<1>2. CASE d # c
  <2>1. con'[d] = con[d] /\ call'[d] = call[d] /\ varify'[d] = varify[d]
    BY <1>2 DEF Others
  <2>2. TableInv(con[d], varify[d], users', issued')
    BY TableGrows DEF EachInv
  <2>. QED
    BY <2>1, <2>2 DEF EachInv
<1>. QED
  BY <1>1, <1>2

\* A request keeps its content, and whom it met when it came.
SameRequests ==
  \A d \in Conns : con'[d].req = con[d].req /\ con'[d].during = con[d].during

LEMMA OrderKept ==
  ASSUME OrderInv, SameRequests,
         \A d \in Conns : con'[d].st # "free" => con[d].st # "free",
         \A d \in Conns : Finished(d) => Finished(d)'
  PROVE  OrderInv'
  BY DEF OrderInv, SameRequests

LEMMA KeptKept ==
  ASSUME KeptInv, SameRequests,
         \A d \in Conns : KeptOnce(varify'[d]) =>
           KeptOnce(varify[d]) /\ varify'[d].code = varify[d].code,
         \A d \in Conns : KeptOnce(varify[d]) => codes'[Address(d)].code = codes[Address(d)].code
  PROVE  KeptInv'
<1> SUFFICES ASSUME NEW c \in Conns, KeptOnce(varify'[c])
             PROVE  \/ codes'[con'[c].req.email].code = varify'[c].code
                    \/ \E d \in Conns : /\ d # c /\ (d > c \/ d \in con'[c].during)
                                        /\ con'[d].req.url = "varify"
                                        /\ con'[d].req.email = con'[c].req.email
  BY DEF KeptInv, Beside, Address
<1>1. \A d \in Conns : con'[d].req = con[d].req /\ con'[d].during = con[d].during
  BY DEF SameRequests
<1>2. KeptOnce(varify[c]) /\ varify'[c].code = varify[c].code
  OBVIOUS
<1>. QED
  BY <1>1, <1>2 DEF KeptInv, Beside, Address

LEMMA TokenKept ==
  ASSUME TokenInv, SameRequests,
         \A d \in Conns : call'[d].wrote = call[d].wrote,
         \A d \in Conns : call[d].wrote # 0 => call'[d].uid = call[d].uid,
         \A u : token'[u] \in {token[u], 0}
  PROVE  TokenInv'
<1> SUFFICES ASSUME NEW c \in Conns, call'[c].wrote # 0
             PROVE  \/ token'[call'[c].uid] \in {call'[c].wrote, 0}
                    \/ \E d \in Conns : /\ d # c /\ (d > c \/ d \in con'[c].during)
                                        /\ con'[d].req.url = "login" /\ call'[d].wrote # 0
  BY DEF TokenInv, Beside
<1>1. \A d \in Conns : con'[d].req = con[d].req /\ con'[d].during = con[d].during
  BY DEF SameRequests
<1>2. call[c].wrote # 0 /\ call'[c].wrote = call[c].wrote /\ call'[c].uid = call[c].uid
  OBVIOUS
<1>. QED
  BY <1>1, <1>2 DEF TokenInv, Beside

LEMMA NumbersKept ==
  ASSUME TypesInv, NumbersInv,
         \A d \in Conns : call'[d].wrote = call[d].wrote,
         \A u \in Users : token'[u] \in {token[u], 0}
  PROVE  NumbersInv'
<1>1. PICK n \in Nat : (\A u \in Users : token[u] <= n) /\ (\A c \in Conns : call[c].wrote <= n)
  BY DEF NumbersInv
<1>2. \A u \in Users : token'[u] <= n
  BY <1>1 DEF TypesInv
<1>3. \A c \in Conns : call'[c].wrote <= n
  BY <1>1
<1>. QED
  BY <1>2, <1>3 DEF NumbersInv

LEMMA OverFinite ==
  /\ IsFiniteSet(Over) /\ Cardinality(Over) \in Nat
  /\ Cardinality(Over) <= Cardinality(Conns) /\ Cardinality(Conns) \in Nat
<1>1. Over \subseteq Conns
  BY DEF Over
<1>. QED
  BY <1>1, ConnsAssumption, FS_Subset, FS_CardinalityType

LEMMA UsersKept ==
  ASSUME UsersInv, users' = users,
         \A d \in Conns : con[d].st \in Past => con'[d].st \in Past
  PROVE  UsersInv'
<1>1. Over \subseteq Over' /\ Over' \subseteq Conns
  BY DEF Over
<1>2. Cardinality(Over) <= Cardinality(Over') /\ Cardinality(Over') \in Nat
  BY <1>1, ConnsAssumption, FS_Subset, FS_CardinalityType
<1>3. Cardinality(users) \in Nat /\ Cardinality(Over) \in Nat
  BY OverFinite, FS_CardinalityType DEF UsersInv
<1>. QED
  BY <1>2, <1>3 DEF UsersInv

LEMMA OwnerKept ==
  ASSUME OwnerInv, users' = users, IssuedGrows,
         \A d \in Conns : con[d].st \notin Ready =>
           con'[d].st \notin Ready /\ con'[d].req = con[d].req
  PROVE  OwnerInv'
<1>1. \A code, e : MadeFor(code, e, issued) => MadeFor(code, e, issued')
  BY DEF IssuedGrows, MadeFor
<1>. QED
  BY <1>1 DEF OwnerInv

LEMMA CodesKept ==
  ASSUME CodesInv, UNCHANGED <<codes, issued, mailed>>
  PROVE  CodesInv'
  BY DEF CodesInv

LEMMA AwayKept ==
  ASSUME AwayInv, UNCHANGED <<call, chat>>
  PROVE  AwayInv'
  BY DEF AwayInv

\* A fault counts for the loads, and nothing else.
LEMMA ServersKept ==
  ASSUME TypesInv, ServersInv, UNCHANGED <<chat, lease, registry>>, faults' \in Nat, faults <= faults'
  PROVE  ServersInv'
  BY DEF ServersInv, TypesInv, ServerType

-----------------------------------------------------------------------------
(* Steps of a connection.                                                  *)

Counted == faults' \in 0 .. MaxFaults /\ faults <= faults'

LEMMA FaultCounts ==
  ASSUME TypesInv, NEW kind, Fault(kind) \/ UNCHANGED faults
  PROVE  Counted
  BY BoundAssumption DEF TypesInv, Counted, Fault

LEMMA ExecKept ==
  ASSUME ExecInv, UNCHANGED <<queue, running, outstanding>>,
         \A d \in Conns :
           /\ con'[d].st = "queued" <=> con[d].st = "queued"
           /\ con'[d].st = "handler" => con[d].st = "handler"
           /\ con[d].st \in Past \cup {"handler"} => con'[d].st \in Past \cup {"handler"}
  PROVE  ExecInv'
<1>1. \A d \in Conns : d \in running => con'[d].st \in Past \cup {"handler"}
  BY DEF ExecInv
<1>2. \A d \in Conns : con'[d].st = "handler" => d \in running
  BY DEF ExecInv
<1>3. \A d \in Conns : con'[d].st = "queued" <=> \E i \in DOMAIN queue : queue[i] = d
  BY DEF ExecInv
<1>. QED
  BY <1>1, <1>2, <1>3 DEF ExecInv

\* A step of a connection that has sent its request: the request stays, and
\* work that is over does not begin again.
LEMMA ConnectionStep ==
  ASSUME IInv, NEW c \in Conns, NEW k \in ConType,
         con' = [con EXCEPT ![c] = k],
         UNCHANGED <<codes, issued, mailed, varify, call, token, chat>>, RowsGrow,
         k.req = con[c].req, k.during = con[c].during, con[c].st # "free", k.st \notin Ready,
         con[c].st \in Past => k.st \in Past, con[c].st = "end" => k.st = "end",
         ConInv(c, k), CallInv(k, call[c]), VarifyInv(k, varify[c]),
         TableInv(k, varify[c], users', issued)
  PROVE  /\ EachInv' /\ OrderInv' /\ KeptInv' /\ TokenInv' /\ NumbersInv'
         /\ CodesInv' /\ AwayInv'
         /\ users' = users => UsersInv' /\ OwnerInv'
<1>1. con'[c] = k /\ \A d \in Conns \ {c} : con'[d] = con[d]
  BY DEF IInv, TypesInv
<1>2. Others(c) /\ SameRequests
  BY <1>1 DEF Others, SameRequests
<1>3. IssuedGrows
  BY DEF IssuedGrows
<1>4. EachInv'
  BY <1>1, <1>2, <1>3, EachKept DEF IInv
<1>5. OrderInv'
  <2>1. \A d \in Conns : con'[d].st # "free" => con[d].st # "free"
    BY <1>1
  <2>2. \A d \in Conns : Finished(d) => Finished(d)'
    BY <1>1 DEF Finished
  <2>. QED
    BY <1>2, <2>1, <2>2, OrderKept DEF IInv
<1>6. KeptInv'
  BY <1>2, KeptKept DEF IInv
<1>7. TokenInv' /\ NumbersInv'
  BY <1>2, TokenKept, NumbersKept DEF IInv
<1>8. users' = users => UsersInv'
  BY <1>1, UsersKept DEF IInv
<1>9. users' = users => OwnerInv'
  BY <1>1, <1>3, OwnerKept DEF IInv
<1>. QED
  BY <1>4, <1>5, <1>6, <1>7, <1>8, <1>9, CodesKept, AwayKept DEF IInv

Answered(c, out, hit) ==
  con' = [con EXCEPT ![c] = [con[c] EXCEPT !.st = "post", !.pc = "none", !.out = out,
                                           !.hit = hit]]

\* What an answer says is true of the calls and of the rows.
TrueAnswer(c, out, hit, rows) ==
  /\ out = "ok" =>
       LET r == con[c].req
       IN /\ r.url = "login" => call[c].pc = "done" /\ call[c].error = "ok"
          /\ r.url = "varify" => varify[c].pc = "done" /\ varify[c].error = "ok"
          /\ r.url = "register" => \E u \in rows : u.name = r.name /\ u.email = r.email
          /\ r.url = "reset" => \E u \in rows : u.name = r.name
  /\ out = "UserExist" /\ ~hit =>
       \E u \in rows : u.name = con[c].req.name \/ u.email = con[c].req.email

\* A handler has answered, perhaps with a change of the rows.
LEMMA AnswersAfter ==
  ASSUME IInv, NEW c \in Conns, NEW out \in Outs, NEW hit \in BOOLEAN, con[c].st = "handler",
         Answered(c, out, hit), UNCHANGED <<execVars, dirData>>, Counted,
         UNCHANGED <<codes, issued, mailed, varify>>, RowsGrow, TrueAnswer(c, out, hit, users'),
         users' = users \/ (UsersInv' /\ OwnerInv')
  PROVE  IInv'
<1> DEFINE k == [con[c] EXCEPT !.st = "post", !.pc = "none", !.out = out, !.hit = hit]
<1>1. con[c] \in ConType /\ k \in ConType
  <2>1. con[c] \in ConType
    BY DEF IInv, TypesInv
  <2>. QED
    BY <2>1 DEF ConType
<1>2. /\ k.st = "post" /\ k.pc = "none" /\ k.out = out /\ k.hit = hit /\ k.req = con[c].req
      /\ k.during = con[c].during
  BY <1>1 DEF ConType
<1>3. /\ ConInv(c, con[c]) /\ CallInv(con[c], call[c]) /\ VarifyInv(con[c], varify[c])
      /\ TableInv(con[c], varify[c], users, issued)
  BY DEF IInv, EachInv
<1>4. con' = [con EXCEPT ![c] = k]
  BY DEF Answered
<1> HIDE DEF k
<1>5. UNCHANGED <<gate, queue, running, outstanding, dialog, call, token, chat, registry, lease>>
  BY DEF execVars, dirData
<1>6. ConInv(c, k) /\ CallInv(k, call[c]) /\ VarifyInv(k, varify[c])
  BY <1>2, <1>3 DEF ConInv, CallInv, VarifyInv, Handling, Asking, Ready, Past, TrueAnswer
<1>7. TableInv(k, varify[c], users', issued)
  BY <1>2, <1>3 DEF TableInv, Handling, TrueAnswer
<1>8. /\ EachInv' /\ OrderInv' /\ KeptInv' /\ TokenInv' /\ NumbersInv'
      /\ CodesInv' /\ AwayInv'
      /\ users' = users => UsersInv' /\ OwnerInv'
  BY <1>1, <1>2, <1>4, <1>5, <1>6, <1>7, ConnectionStep DEF Ready, Past
<1>9. ExecInv'
  BY <1>2, <1>4, <1>5, ExecKept DEF IInv, TypesInv, Past
<1>10. TypesInv'
  BY <1>1, <1>4, <1>5 DEF IInv, TypesInv, Counted
<1>11. ServersInv'
  BY <1>5, BoundAssumption, ServersKept DEF IInv, Counted
<1>. QED
  BY <1>8, <1>9, <1>10, <1>11 DEF IInv

LEMMA Answers ==
  ASSUME IInv, NEW c \in Conns, NEW out \in Outs, NEW hit \in BOOLEAN, con[c].st = "handler",
         Answered(c, out, hit), UNCHANGED <<execVars, dirData, dataVars>>, Counted,
         TrueAnswer(c, out, hit, users)
  PROVE  IInv'
<1>1. UNCHANGED <<users, codes, issued, mailed, varify>>
  BY DEF dataVars
<1>2. RowsGrow
  BY <1>1 DEF RowsGrow
<1>. QED
  BY <1>1, <1>2, AnswersAfter

\* A handler that has not called another service goes on.
LEMMA GoesOn ==
  ASSUME IInv, NEW c \in Conns, NEW pc, Handling(con[c]), pc \in Path(con[c].req.url),
         con[c].pc \notin {"statusWait", "varifyWait"}, pc \notin {"statusWait", "varifyWait"},
         GoOn(c, pc), UNCHANGED <<execVars, dirData, dataVars>>, UNCHANGED faults,
         pc \in {"select", "insert", "email", "update"} =>
           MadeFor(con[c].req.code, con[c].req.email, issued),
         pc = "update" =>
           \E u \in users : u.name = con[c].req.name /\ u.email = con[c].req.email,
         pc = "status" => \E u \in users : u.email = con[c].req.email
  PROVE  IInv'
<1> DEFINE k == [con[c] EXCEPT !.pc = pc]
<1>1. con[c] \in ConType /\ k \in ConType
  <2>1. con[c] \in ConType
    BY DEF IInv, TypesInv
  <2>. QED
    BY <2>1 DEF ConType, Path
<1>2. /\ k.st = "handler" /\ k.pc = pc /\ k.out = con[c].out /\ k.hit = con[c].hit
      /\ k.req = con[c].req /\ k.during = con[c].during
  BY <1>1 DEF ConType, Handling
<1>3. /\ ConInv(c, con[c]) /\ CallInv(con[c], call[c]) /\ VarifyInv(con[c], varify[c])
      /\ TableInv(con[c], varify[c], users, issued)
  BY DEF IInv, EachInv
<1>4. con' = [con EXCEPT ![c] = k]
  BY DEF GoOn, IInv, TypesInv
<1>5. UNCHANGED <<gate, queue, running, outstanding, dialog, users, codes, issued, mailed,
                  varify, call, token, chat, registry, lease, faults>>
  BY DEF execVars, dirData, dataVars
<1> HIDE DEF k
<1>6. ConInv(c, k) /\ CallInv(k, call[c]) /\ VarifyInv(k, varify[c])
  BY <1>2, <1>3 DEF ConInv, CallInv, VarifyInv, Handling, Asking, Ready, Past
<1>7. TableInv(k, varify[c], users, issued)
  BY <1>2, <1>3 DEF TableInv, Handling
<1>8. /\ EachInv' /\ OrderInv' /\ KeptInv' /\ TokenInv' /\ NumbersInv' /\ UsersInv'
      /\ OwnerInv' /\ CodesInv' /\ AwayInv'
  <2>1. RowsGrow /\ users' = users
    BY <1>5 DEF RowsGrow
  <2>. QED
    BY <1>1, <1>2, <1>4, <1>5, <1>6, <1>7, <2>1, ConnectionStep DEF Ready, Past, Handling
<1>9. ExecInv'
  BY <1>2, <1>4, <1>5, ExecKept DEF IInv, TypesInv, Past, Handling
<1>10. TypesInv'
  BY <1>1, <1>4, <1>5 DEF IInv, TypesInv
<1>11. ServersInv'
  BY <1>5 DEF IInv, ServersInv
<1>. QED
  BY <1>8, <1>9, <1>10, <1>11 DEF IInv

LEMMA FinishIs ==
  ASSUME IInv, NEW c \in Conns, NEW out,
         Finish(c, out) \/ FinishHit(c, out)
  PROVE  \E hit \in BOOLEAN : Answered(c, out, hit) /\ (FinishHit(c, out) => hit)
<1>1. con[c] \in ConType /\ con \in [Conns -> ConType]
  BY DEF IInv, TypesInv
<1>2. CASE FinishHit(c, out)
  <2>1. Answered(c, out, TRUE)
    BY <1>1, <1>2 DEF FinishHit, Answered
  <2>. QED
    BY <2>1
<1>3. CASE ~FinishHit(c, out)
  <2>1. [con[c] EXCEPT !.st = "post", !.pc = "none", !.out = out, !.hit = con[c].hit]
          = [con[c] EXCEPT !.st = "post", !.pc = "none", !.out = out]
    BY <1>1 DEF ConType
  <2>2. con' = [con EXCEPT ![c] = [con[c] EXCEPT !.st = "post", !.pc = "none", !.out = out]]
    BY <1>1, <1>3 DEF Finish
  <2>3. Answered(c, out, con[c].hit)
    BY <2>1, <2>2 DEF Answered
  <2>4. con[c].hit \in BOOLEAN
    BY <1>1 DEF ConType
  <2>. QED
    BY <1>3, <2>3, <2>4
<1>. QED
  BY <1>2, <1>3

\* An answer that promises nothing.
LEMMA Refuses ==
  ASSUME IInv, NEW c \in Conns, NEW out \in Outs, out \notin {"ok", "UserExist"},
         con[c].st = "handler", Finish(c, out) \/ FinishHit(c, out), Counted,
         UNCHANGED <<execVars, dirData, dataVars>>
  PROVE  IInv'
<1>1. PICK hit \in BOOLEAN : Answered(c, out, hit)
  BY FinishIs
<1>. QED
  BY <1>1, Answers DEF TrueAnswer

LEMMA ParseFailsStep ==
  ASSUME IInv, NEW c \in Conns, ParseFails(c)
  PROVE  IInv'
<1>1. Counted /\ UNCHANGED <<execVars, dirData, dataVars>>
  BY FaultCounts DEF ParseFails, dirVars, dirData, IInv
<1>2. PICK out \in {"PasswdErr", "500", "Error_Json"} : Finish(c, out)
  BY DEF ParseFails
<1>3. out \in Outs /\ con[c].st = "handler"
  BY DEF Outs, ParseFails
<1>. QED
  BY <1>1, <1>2, <1>3, Refuses

LEMMA QueryStep ==
  ASSUME IInv, NEW c \in Conns, Query(c)
  PROVE  IInv'
<1>1. Counted /\ UNCHANGED <<execVars, dirData, dataVars>>
  BY FaultCounts DEF Query, dirVars, dirData, IInv
<1>2. PICK hit \in BOOLEAN : Answered(c, "ok", hit)
  BY FinishIs DEF Query
<1>3. con[c].st = "handler" /\ con[c].req.url \notin {"login", "varify", "register", "reset"}
  BY DEF Query, At, IInv, EachInv, ConInv, Handling, Path
<1>4. "ok" \in Outs
  BY DEF Outs
<1>. QED
  BY <1>1, <1>2, <1>3, <1>4, Answers DEF TrueAnswer

LEMMA CheckCodeStep ==
  ASSUME IInv, NEW c \in Conns, CheckCode(c), con[c].req.url \in {"register", "reset"}
  PROVE  IInv'
<1>1. UNCHANGED <<execVars, dirData, dataVars>> /\ At(c, "code")
  BY DEF CheckCode
<1>2. Handling(con[c]) /\ con[c].pc = "code" /\ con[c].st = "handler"
  BY <1>1 DEF At, Handling
<1>3. Counted
  BY FaultCounts DEF CheckCode, IInv
<1>4. CASE Finish(c, "VarifyExpired") \/ Finish(c, "VarifyCodeErr")
  <2>1. "VarifyExpired" \in Outs /\ "VarifyCodeErr" \in Outs
    BY DEF Outs
  <2>. QED
    BY <1>1, <1>2, <1>3, <1>4, <2>1, Refuses
<1>5. ASSUME codes[con[c].req.email].code = con[c].req.code, UNCHANGED faults,
             NEW pc, GoOn(c, pc), pc = IF con[c].req.url = "register" THEN "select" ELSE "email"
      PROVE  IInv'
  <2>1. con[c].req.email \in Emails
    BY <1>2 DEF IInv, EachInv, ConInv, Shape, Handling, Ready
  <2>2. MadeFor(con[c].req.code, con[c].req.email, issued)
    BY <1>5, <2>1 DEF IInv, CodesInv
  <2>3. pc \in Path(con[c].req.url) /\ pc \in {"select", "email"}
    BY <1>5 DEF Path
  <2>. QED
    BY <1>1, <1>2, <1>5, <2>2, <2>3, GoesOn
<1>. QED
  BY <1>4, <1>5 DEF CheckCode

LEMMA SelectUserStep ==
  ASSUME IInv, NEW c \in Conns, SelectUser(c), con[c].req.url = "register"
  PROVE  IInv'
<1>1. UNCHANGED <<execVars, dirData, dataVars>>
  BY DEF SelectUser
<1>2. Handling(con[c]) /\ con[c].pc = "select" /\ con[c].st = "handler"
  BY DEF SelectUser, At, Handling
<1>3. Counted
  BY FaultCounts DEF SelectUser, IInv
<1>4. ASSUME NEW out \in {"UserExist", "500"}, FinishHit(c, out)
      PROVE  IInv'
  <2>1. Answered(c, out, TRUE)
    BY <1>4, FinishIs
  <2>2. out \in Outs
    BY <1>4 DEF Outs
  <2>. QED
    BY <1>1, <1>2, <1>3, <1>4, <2>1, <2>2, Answers DEF TrueAnswer
<1>5. CASE RowOf(con[c].req.email) \cup Row(con[c].req.name) # {} /\ Finish(c, "UserExist")
  <2>1. \E u \in users : u.name = con[c].req.name \/ u.email = con[c].req.email
    BY <1>5 DEF RowOf, Row
  <2>2. PICK hit \in BOOLEAN : Answered(c, "UserExist", hit)
    BY <1>5, FinishIs
  <2>3. "UserExist" \in Outs
    BY DEF Outs
  <2>. QED
    BY <1>1, <1>2, <1>3, <2>1, <2>2, <2>3, Answers DEF TrueAnswer
<1>6. CASE GoOn(c, "insert") /\ UNCHANGED faults
  <2>1. MadeFor(con[c].req.code, con[c].req.email, issued)
    BY <1>2 DEF IInv, EachInv, TableInv
  <2>2. "insert" \in Path(con[c].req.url)
    BY DEF Path
  <2>. QED
    BY <1>1, <1>2, <1>6, <2>1, <2>2, GoesOn
<1>. QED
  BY <1>4, <1>5, <1>6 DEF SelectUser

LEMMA CheckEmailStep ==
  ASSUME IInv, NEW c \in Conns, CheckEmail(c), con[c].req.url = "reset"
  PROVE  IInv'
<1>1. UNCHANGED <<execVars, dirData, dataVars>> /\ At(c, "email")
  BY DEF CheckEmail
<1>2. Handling(con[c]) /\ con[c].pc = "email" /\ con[c].st = "handler"
  BY <1>1 DEF At, Handling
<1>3. Counted
  BY FaultCounts DEF CheckEmail, IInv
<1>4. CASE Finish(c, "EmailNotMatch") \/ FinishHit(c, "EmailNotMatch")
  <2>1. "EmailNotMatch" \in Outs
    BY DEF Outs
  <2>. QED
    BY <1>1, <1>2, <1>3, <1>4, <2>1, Refuses
<1>5. CASE /\ \E u \in Row(con[c].req.name) : u.email = con[c].req.email
           /\ GoOn(c, "update") /\ UNCHANGED faults
  <2>1. MadeFor(con[c].req.code, con[c].req.email, issued)
    BY <1>2 DEF IInv, EachInv, TableInv
  <2>2. "update" \in Path(con[c].req.url)
    BY DEF Path
  <2>3. \E u \in users : u.name = con[c].req.name /\ u.email = con[c].req.email
    BY <1>5 DEF Row
  <2>. QED
    BY <1>1, <1>2, <1>5, <2>1, <2>2, <2>3, GoesOn
<1>. QED
  BY <1>4, <1>5 DEF CheckEmail

LEMMA CheckPwdStep ==
  ASSUME IInv, NEW c \in Conns, CheckPwd(c), con[c].req.url = "login"
  PROVE  IInv'
<1>1. UNCHANGED <<execVars, dirData, dataVars>> /\ At(c, "pwd")
  BY DEF CheckPwd
<1>2. Handling(con[c]) /\ con[c].pc = "pwd" /\ con[c].st = "handler"
  BY <1>1 DEF At, Handling
<1>3. Counted
  BY FaultCounts DEF CheckPwd, IInv
<1>4. CASE Finish(c, "PasswdInvalid") \/ FinishHit(c, "PasswdInvalid")
  <2>1. "PasswdInvalid" \in Outs
    BY DEF Outs
  <2>. QED
    BY <1>1, <1>2, <1>3, <1>4, <2>1, Refuses
<1>5. CASE /\ \E u \in RowOf(con[c].req.email) : u.pwd = con[c].req.pwd
           /\ GoOn(c, "status") /\ UNCHANGED faults
  <2>1. "status" \in Path(con[c].req.url)
    BY DEF Path
  <2>2. \E u \in users : u.email = con[c].req.email
    BY <1>5 DEF RowOf
  <2>. QED
    BY <1>1, <1>2, <1>5, <2>1, <2>2, GoesOn
<1>. QED
  BY <1>4, <1>5 DEF CheckPwd

LEMMA StatusAnswersStep ==
  ASSUME IInv, NEW c \in Conns, StatusAnswers(c), con[c].req.url \in {"login", "reassign"}
  PROVE  IInv'
<1>1. UNCHANGED <<execVars, dirData, dataVars>> /\ con[c].st = "handler"
  BY DEF StatusAnswers, At
<1>2. Counted
  BY FaultCounts DEF StatusAnswers, IInv
<1>3. ASSUME NEW out \in Outs, Finish(c, out), out # "UserExist",
             out = "ok" => call[c].pc = "done" /\ call[c].error = "ok"
      PROVE  IInv'
  <2>1. PICK hit \in BOOLEAN : Answered(c, out, hit)
    BY <1>3, FinishIs
  <2>. QED
    BY <1>1, <1>2, <1>3, <2>1, Answers DEF TrueAnswer
<1>4. "RPCFailed" \in Outs /\ PassedOn(con[c].req.url) \subseteq Outs \ {"UserExist", "RPCFailed"}
  BY DEF PassedOn, Outs
<1>5. CASE Finish(c, "RPCFailed")
  BY <1>3, <1>4, <1>5
<1>6. CASE /\ call[c].pc = "done" /\ call[c].error \in PassedOn(con[c].req.url)
           /\ Finish(c, call[c].error)
  BY <1>3, <1>4, <1>6
<1>. QED
  BY <1>5, <1>6 DEF StatusAnswers

LEMMA VarifyAnswersStep ==
  ASSUME IInv, NEW c \in Conns, VarifyAnswers(c), con[c].req.url = "varify"
  PROVE  IInv'
<1>1. UNCHANGED <<execVars, dirData, dataVars>> /\ con[c].st = "handler"
  BY DEF VarifyAnswers, At
<1>2. Counted
  BY FaultCounts DEF VarifyAnswers, IInv
<1>3. ASSUME NEW out \in Outs, Finish(c, out), out # "UserExist",
             out = "ok" => varify[c].pc = "done" /\ varify[c].error = "ok"
      PROVE  IInv'
  <2>1. PICK hit \in BOOLEAN : Answered(c, out, hit)
    BY <1>3, FinishIs
  <2>. QED
    BY <1>1, <1>2, <1>3, <2>1, Answers DEF TrueAnswer
<1>4. "RPCFailed" \in Outs
  BY DEF Outs
<1>5. CASE Finish(c, "RPCFailed")
  BY <1>3, <1>4, <1>5
<1>6. CASE varify[c].pc = "done" /\ Finish(c, varify[c].error)
  <2>1. varify[c].error \in Outs /\ varify[c].error # "UserExist"
    BY DEF IInv, TypesInv, VarifyType
  <2>. QED
    BY <1>3, <1>6, <2>1
<1>. QED
  BY <1>5, <1>6 DEF VarifyAnswers

-----------------------------------------------------------------------------
(* The table users.                                                        *)

\* A handler that answers is over: there is room for one more row.
LEMMA OneMoreOver ==
  ASSUME IInv, NEW c \in Conns, con[c].st = "handler", con'[c].st = "post",
         \A d \in Conns \ {c} : con'[d] = con[d]
  PROVE  Cardinality(Over') = Cardinality(Over) + 1 /\ Cardinality(Over) \in Nat
<1>1. Over' = Over \cup {c} /\ c \notin Over
  BY DEF Over, Past
<1>. QED
  BY <1>1, OverFinite, FS_AddElement

LEMMA InsertsRow ==
  ASSUME IInv, NEW c \in Conns, Handling(con[c]), con[c].pc = "insert",
         con[c].req.url = "register", con'[c].st = "post", con'[c].req = con[c].req,
         \A d \in Conns \ {c} : con'[d] = con[d], issued' = issued,
         RowOf(con[c].req.email) \cup Row(con[c].req.name) = {},
         users' = users \cup {NewRow(c)}
  PROVE  UsersInv' /\ OwnerInv' /\ RowsGrow
<1> DEFINE r == con[c].req
           w == NewRow(c)
           n == Cardinality(users)
<1>1. UsersInv /\ IsFiniteSet(users) /\ n \in Nat
  BY FS_CardinalityType DEF IInv, UsersInv
<1>2. r.email \in Emails /\ r.name \in Names /\ r.pwd = c
  BY DEF IInv, EachInv, ConInv, Shape, Handling, Ready
<1>3. w \in UserType /\ w.uid = n + 1 /\ w.name = r.name /\ w.email = r.email /\ w.pwd = c
  BY <1>1, <1>2, ConnsAssumption DEF NewRow, UserType
<1> HIDE DEF w, r, n
<1>4. \A u \in users : u.name # w.name /\ u.email # w.email
  BY <1>3 DEF RowOf, Row, r
<1>5. w \notin users
  BY <1>4
<1>6. IsFiniteSet(users') /\ Cardinality(users') = n + 1
  BY <1>1, <1>5, FS_AddElement DEF w, n
<1>7. UsersInv'
  <2>1. users' \subseteq UserType
    BY <1>1, <1>3 DEF UsersInv, w
  <2>2. Cardinality(users') <= Cardinality(Over') + 1
    <3>1. Cardinality(Over') = Cardinality(Over) + 1 /\ Cardinality(Over) \in Nat
      BY OneMoreOver DEF Handling
    <3>2. n <= Cardinality(Over) + 1
      BY <1>1 DEF UsersInv, n
    <3>. QED
      BY <1>1, <1>6, <3>1, <3>2
  <2>3. \A u \in users : u.uid \in 1 .. n
    BY <1>1 DEF UsersInv, n
  <2>4. \A u \in users' : u.uid \in 1 .. Cardinality(users')
    BY <1>1, <1>3, <1>6, <2>3 DEF w
  <2>5. \A u, v \in users' : u # v => u.name # v.name /\ u.email # v.email /\ u.uid # v.uid
    <3>1. \A u \in users : u.uid # w.uid
      BY <1>1, <1>3, <2>3
    <3>2. \A u, v \in users : u # v => u.name # v.name /\ u.email # v.email /\ u.uid # v.uid
      BY <1>1 DEF UsersInv
    <3>. QED
      BY <1>4, <3>1, <3>2 DEF w
  <2>. QED
    BY <1>6, <2>1, <2>2, <2>4, <2>5 DEF UsersInv
<1>8. OwnerInv'
  <2>1. MadeFor(r.code, r.email, issued)
    BY DEF IInv, EachInv, TableInv, r
  <2>2. \A d \in Conns : con[d].st \notin Ready =>
          con'[d].st \notin Ready /\ con'[d].req = con[d].req
    BY DEF Ready
  <2>3. ASSUME NEW u \in users, u.pwd # 0
        PROVE  /\ u.pwd \in Conns /\ con'[u.pwd].st \notin Ready
               /\ MadeFor(con'[u.pwd].req.code, u.email, issued)
    BY <2>2, <2>3 DEF IInv, OwnerInv
  <2>4. con'[w.pwd].st \notin Ready /\ MadeFor(con'[w.pwd].req.code, w.email, issued)
    BY <1>3, <2>1 DEF Ready, r
  <2>. QED
    BY <1>3, <2>3, <2>4 DEF OwnerInv, w
<1>9. RowsGrow
  BY DEF RowsGrow
<1>. QED
  BY <1>7, <1>8, <1>9

LEMMA InsertUserStep ==
  ASSUME IInv, NEW c \in Conns, InsertUser(c), con[c].req.url = "register"
  PROVE  IInv'
<1> DEFINE taken == RowOf(con[c].req.email) \cup Row(con[c].req.name) # {}
<1>1. /\ UNCHANGED <<execVars, dirData>> /\ UNCHANGED <<codes, issued, mailed, varify>>
      /\ At(c, "insert")
  BY DEF InsertUser
<1>2. Handling(con[c]) /\ con[c].pc = "insert" /\ con[c].st = "handler"
  BY <1>1 DEF At, Handling
<1>3. Counted
  BY FaultCounts DEF InsertUser, IInv
<1>4. "UserExist" \in Outs /\ "ok" \in Outs /\ "500" \in Outs
  BY DEF Outs
<1>5. taken => \E u \in users : u.name = con[c].req.name \/ u.email = con[c].req.email
  BY DEF Row, RowOf
<1>6. ASSUME NEW out \in Outs, NEW hit \in BOOLEAN, Answered(c, out, hit), users' = users,
             TrueAnswer(c, out, hit, users)
      PROVE  IInv'
  <2>1. RowsGrow
    BY <1>6 DEF RowsGrow
  <2>. QED
    BY <1>1, <1>2, <1>3, <1>6, <2>1, AnswersAfter
<1>7. ASSUME NEW out \in Outs, NEW hit \in BOOLEAN, Answered(c, out, hit), ~taken,
             users' = users \cup {NewRow(c)}, out = "UserExist" => hit
      PROVE  IInv'
  <2>1. /\ con'[c].st = "post" /\ con'[c].req = con[c].req
        /\ \A d \in Conns \ {c} : con'[d] = con[d]
    BY <1>7 DEF Answered, IInv, TypesInv, ConType
  <2>2. UsersInv' /\ OwnerInv' /\ RowsGrow
    BY <1>1, <1>2, <1>7, <2>1, InsertsRow
  <2>3. NewRow(c).name = con[c].req.name /\ NewRow(c).email = con[c].req.email
    BY DEF NewRow
  <2>4. TrueAnswer(c, out, hit, users')
    BY <1>7, <2>3 DEF TrueAnswer
  <2>. QED
    BY <1>1, <1>2, <1>3, <1>7, <2>2, <2>4, AnswersAfter
<1> HIDE DEF taken
<1>8. CASE taken /\ Finish(c, "UserExist") /\ users' = users
  <2>1. PICK hit \in BOOLEAN : Answered(c, "UserExist", hit)
    BY <1>8, FinishIs
  <2>. QED
    BY <1>4, <1>5, <1>6, <1>8, <2>1 DEF TrueAnswer
<1>9. CASE ~taken /\ Finish(c, "ok") /\ users' = users \cup {NewRow(c)}
  <2>1. PICK hit \in BOOLEAN : Answered(c, "ok", hit)
    BY <1>9, FinishIs
  <2>. QED
    BY <1>4, <1>7, <1>9, <2>1
<1>10. ASSUME NEW out \in {"UserExist", "500"}, FinishHit(c, out),
              users' \in IF taken THEN {users} ELSE {users, users \cup {NewRow(c)}}
       PROVE  IInv'
  <2>1. Answered(c, out, TRUE) /\ out \in Outs
    BY <1>4, <1>10, FinishIs
  <2>2. CASE users' = users
    BY <1>6, <1>10, <2>1, <2>2 DEF TrueAnswer
  <2>3. CASE ~taken /\ users' = users \cup {NewRow(c)}
    BY <1>7, <2>1, <2>3
  <2>. QED
    BY <1>10, <2>2, <2>3
<1>. QED
  BY <1>8, <1>9, <1>10 DEF InsertUser, taken

\* A password changes in the row with the name; the rows stay otherwise.
LEMMA UpdatesRow ==
  ASSUME IInv, NEW c \in Conns, Handling(con[c]), con[c].pc = "update",
         con[c].req.url = "reset", con'[c].st = "post", con'[c].req = con[c].req,
         \A d \in Conns \ {c} : con'[d] = con[d], issued' = issued,
         users' = {IF u.name = con[c].req.name THEN [u EXCEPT !.pwd = con[c].req.pwd] ELSE u :
                     u \in users}
  PROVE  UsersInv' /\ OwnerInv' /\ RowsGrow
<1> DEFINE r == con[c].req
           New(u) == IF u.name = r.name THEN [u EXCEPT !.pwd = r.pwd] ELSE u
<1>1. UsersInv /\ IsFiniteSet(users) /\ Cardinality(users) \in Nat
  BY FS_CardinalityType DEF IInv, UsersInv
<1>2. r.pwd = c /\ c \in Nat \ {0}
  BY ConnsAssumption DEF IInv, EachInv, ConInv, Shape, Handling, Ready
<1>3. ASSUME NEW u \in users
      PROVE  /\ New(u) \in UserType /\ New(u).name = u.name /\ New(u).email = u.email
             /\ New(u).uid = u.uid /\ New(u).pwd = IF u.name = r.name THEN c ELSE u.pwd
  BY <1>1, <1>2 DEF UsersInv, UserType
<1>4. users' = {New(u) : u \in users}
  OBVIOUS
<1> HIDE DEF r, New
<1>5. \A u, v \in users : u # v => u.name # v.name /\ u.email # v.email /\ u.uid # v.uid
  BY <1>1 DEF UsersInv
<1>6. IsFiniteSet(users') /\ Cardinality(users') = Cardinality(users)
  <2> DEFINE f == [u \in users |-> New(u)]
  <2>1. f \in [users -> users']
    BY <1>4
  <2>2. \A u, v \in users : f[u] = f[v] => u = v
    BY <1>3, <1>5
  <2>3. \A w \in users' : \E u \in users : f[u] = w
    BY <1>4
  <2>4. f \in Bijection(users, users')
    BY <2>1, <2>2, <2>3 DEF Bijection, Injection, Surjection, IsInjective
  <2>5. ExistsBijection(users, users')
    BY <2>4 DEF ExistsBijection
  <2>. QED
    BY <1>1, <2>5, FS_Bijection
<1>7. UsersInv'
  <2>1. users' \subseteq UserType
    BY <1>3, <1>4
  <2>2. Cardinality(users') <= Cardinality(Over') + 1
    <3>1. Cardinality(Over') = Cardinality(Over) + 1 /\ Cardinality(Over) \in Nat
      BY OneMoreOver DEF Handling
    <3>2. Cardinality(users) <= Cardinality(Over) + 1
      BY <1>1 DEF UsersInv
    <3>. QED
      BY <1>1, <1>6, <3>1, <3>2
  <2>3. \A u \in users' : u.uid \in 1 .. Cardinality(users')
    <3>1. \A u \in users : u.uid \in 1 .. Cardinality(users)
      BY <1>1 DEF UsersInv
    <3>. QED
      BY <1>3, <1>4, <1>6, <3>1
  <2>4. ASSUME NEW u \in users', NEW v \in users', u # v
        PROVE  u.name # v.name /\ u.email # v.email /\ u.uid # v.uid
    <3>1. PICK x \in users : u = New(x)
      BY <1>4
    <3>2. PICK y \in users : v = New(y)
      BY <1>4
    <3>. QED
      BY <1>3, <1>5, <2>4, <3>1, <3>2
  <2>. QED
    BY <1>6, <2>1, <2>2, <2>3, <2>4 DEF UsersInv
<1>8. OwnerInv'
  <2>1. MadeFor(r.code, r.email, issued)
    BY DEF IInv, EachInv, TableInv, r
  <2>2. \A d \in Conns : con[d].st \notin Ready =>
          con'[d].st \notin Ready /\ con'[d].req = con[d].req
    BY DEF Ready
  <2>3. PICK v \in users : v.name = r.name /\ v.email = r.email
    BY DEF IInv, EachInv, TableInv, r
  <2>4. ASSUME NEW u \in users, New(u).pwd # 0
        PROVE  /\ New(u).pwd \in Conns /\ con'[New(u).pwd].st \notin Ready
               /\ MadeFor(con'[New(u).pwd].req.code, New(u).email, issued)
    <3>1. CASE u.name = r.name
      <4>1. u = v /\ New(u).pwd = c /\ New(u).email = r.email
        BY <1>3, <1>5, <2>3, <3>1
      <4>. QED
        BY <2>1, <4>1 DEF Ready, r
    <3>2. CASE u.name # r.name
      <4>1. New(u).pwd = u.pwd /\ New(u).email = u.email
        BY <1>3, <3>2
      <4>2. u.pwd \in Conns /\ con[u.pwd].st \notin Ready
            /\ MadeFor(con[u.pwd].req.code, u.email, issued)
        BY <2>4, <4>1 DEF IInv, OwnerInv
      <4>. QED
        BY <2>2, <4>1, <4>2
    <3>. QED
      BY <3>1, <3>2
  <2>. QED
    BY <1>4, <2>4 DEF OwnerInv
<1>9. RowsGrow
  BY <1>3, <1>4 DEF RowsGrow
<1>. QED
  BY <1>7, <1>8, <1>9

LEMMA UpdatePwdStep ==
  ASSUME IInv, NEW c \in Conns, UpdatePwd(c), con[c].req.url = "reset"
  PROVE  IInv'
<1> DEFINE updated == {IF u.name = con[c].req.name THEN [u EXCEPT !.pwd = con[c].req.pwd] ELSE u :
                         u \in users}
<1>1. /\ UNCHANGED <<execVars, dirData>> /\ UNCHANGED <<codes, issued, mailed, varify>>
      /\ At(c, "update")
  BY DEF UpdatePwd
<1>2. Handling(con[c]) /\ con[c].pc = "update" /\ con[c].st = "handler"
  BY <1>1 DEF At, Handling
<1>3. Counted
  BY FaultCounts DEF UpdatePwd, IInv
<1>4. "PasswdUpFailed" \in Outs /\ "ok" \in Outs
  BY DEF Outs
<1>5. ASSUME NEW out \in {"PasswdUpFailed", "ok"}, NEW hit \in BOOLEAN, Answered(c, out, hit),
             users' = updated
      PROVE  IInv'
  <2>1. /\ con'[c].st = "post" /\ con'[c].req = con[c].req
        /\ \A d \in Conns \ {c} : con'[d] = con[d]
    BY <1>5 DEF Answered, IInv, TypesInv, ConType
  <2>2. UsersInv' /\ OwnerInv' /\ RowsGrow
    BY <1>1, <1>2, <1>5, <2>1, UpdatesRow
  <2>3. \E u \in users : u.name = con[c].req.name /\ u.email = con[c].req.email
    BY <1>2 DEF IInv, EachInv, TableInv
  <2>4. \E u \in users' : u.name = con[c].req.name
    BY <2>2, <2>3 DEF RowsGrow
  <2>5. TrueAnswer(c, out, hit, users')
    BY <1>5, <2>4 DEF TrueAnswer
  <2>. QED
    BY <1>1, <1>2, <1>3, <1>4, <1>5, <2>2, <2>5, AnswersAfter
<1> HIDE DEF updated
<1>6. CASE users' = updated /\ Finish(c, "ok")
  <2>1. PICK hit \in BOOLEAN : Answered(c, "ok", hit)
    BY <1>6, FinishIs
  <2>. QED
    BY <1>5, <1>6, <2>1
<1>7. CASE users' \in {users, updated} /\ FinishHit(c, "PasswdUpFailed")
  <2>1. PICK hit \in BOOLEAN : Answered(c, "PasswdUpFailed", hit)
    BY <1>7, FinishIs
  <2>2. CASE users' = users
    <3>1. RowsGrow /\ TrueAnswer(c, "PasswdUpFailed", hit, users')
      BY <2>2 DEF RowsGrow, TrueAnswer
    <3>. QED
      BY <1>1, <1>2, <1>3, <1>4, <2>1, <2>2, <3>1, AnswersAfter
  <2>3. CASE users' = updated
    BY <1>5, <2>1, <2>3
  <2>. QED
    BY <1>7, <2>2, <2>3
<1>. QED
  BY <1>6, <1>7 DEF UpdatePwd, updated

-----------------------------------------------------------------------------
(* Calls of the services behind the Gate.                                  *)

\* There is an id for every row.
LEMMA UidFits ==
  ASSUME IInv, NEW c \in Conns, Handling(con[c]), con[c].pc = "status",
         con[c].req.url \in {"login", "reassign"}
  PROVE  LoginUid(c) \in Users /\ LoginUid(c) \in Nat
<1>1. Cardinality(users) \in Nat /\ Cardinality(users) <= Cardinality(Conns) + 1
  <2>1. Cardinality(users) \in Nat /\ Cardinality(users) <= Cardinality(Over) + 1
    BY FS_CardinalityType DEF IInv, UsersInv
  <2>. QED
    BY <2>1, OverFinite
<1>2. 1 .. Cardinality(Conns) + 1 \subseteq Users /\ Cardinality(Conns) \in Nat
  BY UsersAssumption, OverFinite
<1>3. CASE con[c].req.url = "login"
  <2>1. RowOf(con[c].req.email) # {}
    BY <1>3 DEF IInv, EachInv, TableInv, RowOf
  <2>2. (CHOOSE u \in RowOf(con[c].req.email) : TRUE) \in users
    BY <2>1 DEF RowOf
  <2>3. LoginUid(c) \in 1 .. Cardinality(users)
    BY <1>3, <2>2 DEF LoginUid, IInv, UsersInv
  <2>. QED
    BY <1>1, <1>2, <2>3
<1>4. CASE con[c].req.url = "reassign"
  <2>1. LoginUid(c) = 1
    BY <1>4 DEF LoginUid
  <2>. QED
    BY <1>2, <2>1
<1>. QED
  BY <1>3, <1>4

LEMMA AskStatusStep ==
  ASSUME IInv, NEW c \in Conns, AskStatus(c), con[c].req.url \in {"login", "reassign"}
  PROVE  IInv'
<1>1. /\ UNCHANGED <<execVars, chat, registry, lease, token, mix, dataVars>>
      /\ At(c, "status")
  BY DEF AskStatus
<1>2. Handling(con[c]) /\ con[c].pc = "status" /\ con[c].st = "handler"
  BY <1>1 DEF At, Handling
<1>3. Counted
  BY FaultCounts DEF AskStatus, IInv
<1>4. CASE Finish(c, "RPCFailed") /\ UNCHANGED call
  <2>1. "RPCFailed" \in Outs /\ UNCHANGED <<execVars, dirData, dataVars>>
    BY <1>1, <1>4 DEF Outs, dirData
  <2>. QED
    BY <1>2, <1>3, <1>4, <2>1, Refuses
<1>5. CASE Ask(c, LoginUid(c), con[c].req.token) /\ GoOn(c, "statusWait") /\ UNCHANGED faults
  <2> DEFINE k == [con[c] EXCEPT !.pc = "statusWait"]
             pc == IF con[c].req.token = 0 THEN "list" ELSE "check"
             away == {s \in Servers : chat[s].st = "down" /\ chat[s].clean}
             a == [call[c] EXCEPT !.pc = pc, !.uid = LoginUid(c), !.token = con[c].req.token,
                                  !.away = away]
  <2>1. con[c] \in ConType /\ call[c] \in CallType /\ con[c].req.token \in Nat
    BY DEF IInv, TypesInv, ConType, RequestType
  <2>2. con' = [con EXCEPT ![c] = k] /\ call' = [call EXCEPT ![c] = a]
    BY <1>5 DEF GoOn, Ask, IInv, TypesInv
  <2>3. /\ k \in ConType /\ k.pc = "statusWait" /\ k.req = con[c].req /\ k.st = "handler"
        /\ k.out = con[c].out /\ k.hit = con[c].hit /\ k.during = con[c].during
    BY <1>2, <2>1 DEF ConType
  <2>4. LoginUid(c) \in Users /\ LoginUid(c) \in Nat
    BY <1>2, UidFits
  <2>5. /\ a \in CallType /\ a.pc \in {"list", "check"} /\ a.uid = LoginUid(c)
        /\ a.token = con[c].req.token /\ a.away = away /\ a.best = call[c].best
        /\ a.server = call[c].server /\ a.wrote = call[c].wrote
    BY <2>1, <2>4 DEF CallType
  <2>6. /\ con'[c] = k /\ call'[c] = a
        /\ \A d \in Conns \ {c} : con'[d] = con[d] /\ call'[d] = call[d]
    BY <2>2 DEF IInv, TypesInv
  <2>7. con' \in [Conns -> ConType] /\ call' \in [Conns -> CallType]
    BY <2>2, <2>3, <2>5 DEF IInv, TypesInv
  <2> HIDE DEF k, a
  <2>8. /\ UNCHANGED <<gate, queue, running, outstanding, dialog>>
        /\ UNCHANGED <<chat, registry, lease, token, faults>>
        /\ UNCHANGED <<users, codes, issued, mailed, varify>>
    BY <1>1, <1>5 DEF execVars, dataVars
  <2>9. /\ ConInv(c, con[c]) /\ CallInv(con[c], call[c]) /\ VarifyInv(con[c], varify[c])
        /\ TableInv(con[c], varify[c], users, issued)
    BY DEF IInv, EachInv
  <2>10. call[c].pc = "none" /\ call[c].wrote = 0 /\ call[c].best = {} /\ call[c].server = None
    BY <1>2, <2>9 DEF CallInv, Asking, Past
  <2>11. Others(c) /\ SameRequests /\ RowsGrow /\ IssuedGrows
    BY <2>3, <2>6, <2>8 DEF Others, SameRequests, RowsGrow, IssuedGrows
  <2>12. EachInv'
    <3>1. ConInv(c, k)
      BY <1>2, <2>3, <2>9 DEF ConInv, Handling, Path, Ready
    <3>2. VarifyInv(k, varify[c])
      BY <2>3, <2>9 DEF VarifyInv, Asking, Past
    <3>3. CallInv(k, a)
      BY <1>2, <2>3, <2>4, <2>5, <2>9, <2>10 DEF CallInv, Asking, Handling
    <3>4. TableInv(k, varify[c], users, issued)
      BY <2>3, <2>9 DEF TableInv, Handling
    <3>. QED
      BY <2>6, <2>8, <2>11, <3>1, <3>2, <3>3, <3>4, EachKept DEF IInv
  <2>13. OrderInv'
    <3>1. \A d \in Conns : Finished(d) => Finished(d)'
      BY <1>2, <2>6, <2>8 DEF Finished
    <3>2. \A d \in Conns : con'[d].st # "free" => con[d].st # "free"
      BY <1>2, <2>6
    <3>. QED
      BY <2>11, <3>1, <3>2, OrderKept DEF IInv
  <2>14. KeptInv'
    BY <2>8, <2>11, KeptKept DEF IInv
  <2>15. TokenInv' /\ NumbersInv'
    <3>1. \A d \in Conns : call'[d].wrote = call[d].wrote
      BY <2>5, <2>6
    <3>2. \A d \in Conns : call[d].wrote # 0 => call'[d].uid = call[d].uid
      BY <2>6, <2>10
    <3>. QED
      BY <2>8, <2>11, <3>1, <3>2, TokenKept, NumbersKept DEF IInv
  <2>16. UsersInv' /\ OwnerInv'
    <3>1. \A d \in Conns : con'[d].st = con[d].st /\ con'[d].req = con[d].req
      BY <1>2, <2>3, <2>6
    <3>. QED
      BY <2>8, <2>11, <3>1, UsersKept, OwnerKept DEF IInv
  <2>17. ExecInv'
    BY <1>2, <2>3, <2>6, <2>8, ExecKept DEF IInv
  <2>18. AwayInv'
    <3>1. /\ \A s \in a.away : chat[s].st = "down" /\ chat[s].clean
          /\ a.best \cap a.away = {} /\ a.server = None
      BY <2>5, <2>10
    <3>. QED
      BY <2>6, <2>8, <3>1 DEF IInv, AwayInv
  <2>19. TypesInv'
    BY <2>7, <2>8 DEF IInv, TypesInv
  <2>20. CodesInv' /\ ServersInv'
    BY <2>8 DEF IInv, CodesInv, ServersInv
  <2>. QED
    BY <2>12, <2>13, <2>14, <2>15, <2>16, <2>17, <2>18, <2>19, <2>20 DEF IInv
<1>. QED
  BY <1>4, <1>5 DEF AskStatus

LEMMA AskVarifyStep ==
  ASSUME IInv, NEW c \in Conns, AskVarify(c), con[c].req.url = "varify"
  PROVE  IInv'
<1>1. /\ UNCHANGED <<execVars, dirData, users, codes, issued, mailed>>
      /\ At(c, "varify")
  BY DEF AskVarify
<1>2. Handling(con[c]) /\ con[c].pc = "varify" /\ con[c].st = "handler"
  BY <1>1 DEF At, Handling
<1>3. Counted
  BY FaultCounts DEF AskVarify, IInv
<1>4. CASE Finish(c, "RPCFailed") /\ UNCHANGED varify
  <2>1. "RPCFailed" \in Outs /\ UNCHANGED <<execVars, dirData, dataVars>>
    BY <1>1, <1>4 DEF Outs, dataVars
  <2>. QED
    BY <1>2, <1>3, <1>4, <2>1, Refuses
<1>5. CASE /\ varify' = [varify EXCEPT ![c].pc = "get"]
           /\ GoOn(c, "varifyWait") /\ UNCHANGED faults
  <2> DEFINE k == [con[c] EXCEPT !.pc = "varifyWait"]
             v == [varify[c] EXCEPT !.pc = "get"]
  <2>1. con[c] \in ConType /\ varify[c] \in VarifyType
    BY DEF IInv, TypesInv
  <2>2. con' = [con EXCEPT ![c] = k] /\ varify' = [varify EXCEPT ![c] = v]
    BY <1>5 DEF GoOn, IInv, TypesInv
  <2>3. /\ k \in ConType /\ k.pc = "varifyWait" /\ k.req = con[c].req /\ k.st = "handler"
        /\ k.out = con[c].out /\ k.hit = con[c].hit /\ k.during = con[c].during
    BY <1>2, <2>1 DEF ConType
  <2>4. v \in VarifyType /\ v.pc = "get"
    BY <2>1 DEF VarifyType
  <2>5. /\ con'[c] = k /\ varify'[c] = v
        /\ \A d \in Conns \ {c} : con'[d] = con[d] /\ varify'[d] = varify[d]
    BY <2>2 DEF IInv, TypesInv
  <2>6. con' \in [Conns -> ConType] /\ varify' \in [Conns -> VarifyType]
    BY <2>2, <2>3, <2>4 DEF IInv, TypesInv
  <2> HIDE DEF k, v
  <2>7. /\ UNCHANGED <<gate, queue, running, outstanding, dialog>>
        /\ UNCHANGED <<chat, registry, lease, token, call, faults>>
        /\ UNCHANGED <<users, codes, issued, mailed>>
    BY <1>1, <1>5 DEF execVars, dirData
  <2>8. /\ ConInv(c, con[c]) /\ CallInv(con[c], call[c]) /\ VarifyInv(con[c], varify[c])
        /\ TableInv(con[c], varify[c], users, issued)
    BY DEF IInv, EachInv
  <2>9. varify[c].pc = "none"
    BY <1>2, <2>1, <2>8 DEF VarifyInv, Asking, Past, VarifyType
  <2>10. Others(c) /\ SameRequests /\ RowsGrow /\ IssuedGrows
    BY <2>3, <2>5, <2>7 DEF Others, SameRequests, RowsGrow, IssuedGrows
  <2>11. EachInv'
    <3>1. ConInv(c, k)
      BY <1>2, <2>3, <2>8 DEF ConInv, Handling, Path, Ready
    <3>2. VarifyInv(k, v)
      BY <1>2, <2>3, <2>4, <2>8, <2>9 DEF VarifyInv, Asking, Handling
    <3>3. CallInv(k, call[c])
      BY <1>2, <2>3, <2>8 DEF CallInv, Asking, Past
    <3>4. TableInv(k, v, users, issued)
      BY <2>3, <2>4, <2>8 DEF TableInv, Handling, Coded
    <3>. QED
      BY <2>5, <2>7, <2>10, <3>1, <3>2, <3>3, <3>4, EachKept DEF IInv
  <2>12. OrderInv'
    <3>1. \A d \in Conns : Finished(d) => Finished(d)'
      BY <1>2, <2>5, <2>7 DEF Finished
    <3>2. \A d \in Conns : con'[d].st # "free" => con[d].st # "free"
      BY <1>2, <2>5
    <3>. QED
      BY <2>10, <3>1, <3>2, OrderKept DEF IInv
  <2>13. KeptInv'
    <3>1. ~KeptOnce(v)
      BY <2>4 DEF KeptOnce
    <3>2. \A d \in Conns : KeptOnce(varify'[d]) =>
            KeptOnce(varify[d]) /\ varify'[d].code = varify[d].code
      BY <2>5, <3>1
    <3>. QED
      BY <2>7, <2>10, <3>2, KeptKept DEF IInv
  <2>14. TokenInv' /\ NumbersInv'
    BY <2>7, <2>10, TokenKept, NumbersKept DEF IInv
  <2>15. UsersInv' /\ OwnerInv'
    <3>1. \A d \in Conns : con'[d].st = con[d].st /\ con'[d].req = con[d].req
      BY <1>2, <2>3, <2>5
    <3>. QED
      BY <2>7, <2>10, <3>1, UsersKept, OwnerKept DEF IInv
  <2>16. ExecInv'
    BY <1>2, <2>3, <2>5, <2>7, ExecKept DEF IInv
  <2>17. TypesInv'
    BY <2>6, <2>7 DEF IInv, TypesInv
  <2>18. CodesInv' /\ ServersInv' /\ AwayInv'
    BY <2>7 DEF IInv, CodesInv, ServersInv, AwayInv
  <2>. QED
    BY <2>11, <2>12, <2>13, <2>14, <2>15, <2>16, <2>17, <2>18 DEF IInv
<1>. QED
  BY <1>4, <1>5 DEF AskVarify

LEMMA HandlerSteps ==
  ASSUME IInv, NEW c \in Conns, HandlerStep(c)
  PROVE  IInv'
  BY ParseFailsStep, QueryStep, CheckCodeStep, SelectUserStep, InsertUserStep, CheckEmailStep,
     UpdatePwdStep, CheckPwdStep, AskStatusStep, StatusAnswersStep, AskVarifyStep,
     VarifyAnswersStep
  DEF HandlerStep, user_register, reset_pwd, user_login, reassign_chat, get_varifycode

-----------------------------------------------------------------------------
(* The life of a connection.                                               *)

\* Nothing but the process, the dialog and the count of faults changes.
LEMMA Elsewhere ==
  ASSUME IInv, Counted, gate' \in {"up", "draining", "stopped"},
         dialog' \in [page : {"form", "tip", "login"}, left : 0 .. Countdown],
         UNCHANGED <<con, call, varify, users, codes, issued, mailed>>,
         UNCHANGED <<token, chat, registry, lease, queue, running, outstanding>>
  PROVE  IInv'
<1>1. TypesInv'
  BY DEF IInv, TypesInv, Counted
<1>2. EachInv' /\ OrderInv' /\ AwayInv' /\ ExecInv'
  BY DEF IInv, EachInv, OrderInv, Finished, AwayInv, ExecInv
<1>3. KeptInv' /\ TokenInv' /\ NumbersInv'
  BY DEF IInv, KeptInv, TokenInv, NumbersInv, Beside, Address
<1>4. UsersInv' /\ OwnerInv' /\ CodesInv'
  BY DEF IInv, UsersInv, Over, OwnerInv, CodesInv
<1>5. ServersInv'
  BY BoundAssumption, ServersKept DEF IInv, Counted
<1>. QED
  BY <1>1, <1>2, <1>3, <1>4, <1>5 DEF IInv

LEMMA StopSignalStep ==
  ASSUME IInv, StopSignal
  PROVE  IInv'
<1>1. Counted
  BY FaultCounts DEF StopSignal, IInv
<1>2. /\ gate' = "draining"
      /\ UNCHANGED <<dialog, con, call, varify, users, codes, issued, mailed>>
      /\ UNCHANGED <<token, chat, registry, lease, queue, running, outstanding>>
  BY DEF StopSignal, dataVars, dirData
<1>. QED
  BY <1>1, <1>2, Elsewhere DEF IInv, TypesInv

LEMMA DialogSteps ==
  ASSUME IInv, Tick \/ ReturnClicked
  PROVE  IInv'
<1>1. Counted
  BY FaultCounts DEF Tick, ReturnClicked, IInv, dirVars
<1>2. dialog' \in [page : {"form", "tip", "login"}, left : 0 .. Countdown]
  <2>1. dialog \in [page : {"form", "tip", "login"}, left : 0 .. Countdown]
    BY DEF IInv, TypesInv
  <2>2. CASE Tick
    BY <2>1, <2>2, WorkersAssumption DEF Tick
  <2>3. CASE ReturnClicked
    BY <2>1, <2>3 DEF ReturnClicked
  <2>. QED
    BY <2>2, <2>3
<1>3. /\ UNCHANGED <<gate, con, call, varify, users, codes, issued, mailed>>
      /\ UNCHANGED <<token, chat, registry, lease, queue, running, outstanding>>
  BY DEF Tick, ReturnClicked, dataVars, dirVars, dirData, gateVars
<1>. QED
  BY <1>1, <1>2, <1>3, Elsewhere DEF IInv, TypesInv

\* A connection goes on to its end, its answer made or not.
Advanced(c, k) ==
  /\ k.req = con[c].req /\ k.during = con[c].during /\ k.out = con[c].out /\ k.hit = con[c].hit
  /\ k.pc = con[c].pc
  /\ \/ con[c].st \notin Ready /\ k.st = con[c].st
     \/ con[c].st = "post" /\ k.st = "write"
     \/ con[c].st \in {"reading", "post", "write"} /\ k.st = "end"

LEMMA AdvancedKeeps ==
  ASSUME IInv, NEW c \in Conns, NEW k, Advanced(c, k)
  PROVE  /\ ConInv(c, k) /\ CallInv(k, call[c]) /\ VarifyInv(k, varify[c])
         /\ TableInv(k, varify[c], users, issued)
         /\ k.st \notin Ready /\ con[c].st # "free"
<1>1. /\ ConInv(c, con[c]) /\ CallInv(con[c], call[c]) /\ VarifyInv(con[c], varify[c])
      /\ TableInv(con[c], varify[c], users, issued)
  BY DEF IInv, EachInv
<1>2. k.st \notin Ready /\ con[c].st # "free"
  BY DEF Ready, Advanced
<1>3. ConInv(c, k)
  <2>1. k.req.body = "good" => Shape(c, k.req)
    BY <1>1 DEF ConInv, Shape, Ready, Advanced
  <2>2. Handling(k) => k.pc \in Path(k.req.url)
    BY <1>1 DEF ConInv, Handling, Advanced
  <2>. QED
    BY <1>2, <2>1, <2>2 DEF ConInv
<1>4. \A pc : Asking(con[c], pc) => Asking(k, pc)
  BY DEF Asking, Past, Advanced
<1>5. CallInv(k, call[c]) /\ VarifyInv(k, varify[c])
  BY <1>1, <1>4 DEF CallInv, VarifyInv, Advanced
<1>6. TableInv(k, varify[c], users, issued)
  BY <1>1 DEF TableInv, Handling, Advanced
<1>. QED
  BY <1>2, <1>3, <1>5, <1>6

LEMMA Advances ==
  ASSUME IInv, NEW c \in Conns, NEW k \in ConType, con' = [con EXCEPT ![c] = k],
         Advanced(c, k), Counted, gate' = gate,
         dialog' \in [page : {"form", "tip", "login"}, left : 0 .. Countdown],
         UNCHANGED <<call, varify, users, codes, issued, mailed>>,
         UNCHANGED <<token, chat, registry, lease, queue, running, outstanding>>
  PROVE  IInv'
<1>1. /\ ConInv(c, k) /\ CallInv(k, call[c]) /\ VarifyInv(k, varify[c])
      /\ TableInv(k, varify[c], users, issued)
      /\ k.st \notin Ready /\ con[c].st # "free"
  BY AdvancedKeeps
<1>2. /\ k.req = con[c].req /\ k.during = con[c].during
      /\ con[c].st \in Past => k.st \in Past
      /\ con[c].st = "end" => k.st = "end"
  BY DEF Advanced, Past
<1>3. RowsGrow /\ users' = users
  BY DEF RowsGrow
<1>4. /\ EachInv' /\ OrderInv' /\ KeptInv' /\ TokenInv' /\ NumbersInv' /\ UsersInv' /\ OwnerInv'
      /\ CodesInv' /\ AwayInv'
  BY <1>1, <1>2, <1>3, ConnectionStep
<1>5. ExecInv'
  <2>1. con'[c] = k
    BY DEF IInv, TypesInv
  <2>2. /\ con'[c].st = "queued" <=> con[c].st = "queued"
        /\ con'[c].st = "handler" => con[c].st = "handler"
        /\ con[c].st \in Past \cup {"handler"} => con'[c].st \in Past \cup {"handler"}
    BY <2>1 DEF Advanced, Past
  <2>3. \A d \in Conns \ {c} : con'[d] = con[d]
    BY DEF IInv, TypesInv
  <2>. QED
    BY <2>2, <2>3, ExecKept DEF IInv
<1>6. TypesInv'
  BY DEF IInv, TypesInv, Counted
<1>7. ServersInv'
  BY BoundAssumption, ServersKept DEF IInv, Counted
<1>. QED
  BY <1>4, <1>5, <1>6, <1>7 DEF IInv

LEMMA CheckDeadlineStep ==
  ASSUME IInv, NEW c \in Conns, CheckDeadline(c)
  PROVE  IInv'
<1> DEFINE over == con[c].st \in {"reading", "write"}
           k == [con[c] EXCEPT !.open = FALSE, !.st = IF over THEN "end" ELSE @,
                               !.got = IF over THEN "broken" ELSE @]
<1>1. con[c] \in ConType /\ con[c].st \notin {"free", "end"}
  BY DEF IInv, TypesInv, CheckDeadline
<1>2. con' = [con EXCEPT ![c] = k]
  BY DEF CheckDeadline, IInv, TypesInv
<1>3. "broken" \in Outs
  BY DEF Outs
<1>4. /\ k \in ConType /\ k.req = con[c].req /\ k.during = con[c].during /\ k.out = con[c].out
      /\ k.hit = con[c].hit /\ k.pc = con[c].pc /\ k.st = IF over THEN "end" ELSE con[c].st
  BY <1>1, <1>3 DEF ConType
<1> HIDE DEF k
<1>5. Counted
  BY FaultCounts DEF CheckDeadline, IInv
<1>6. /\ UNCHANGED <<gate, dialog, call, varify, users, codes, issued, mailed>>
      /\ UNCHANGED <<token, chat, registry, lease, queue, running, outstanding>>
  BY DEF CheckDeadline, dataVars, dirData
<1>7. dialog' \in [page : {"form", "tip", "login"}, left : 0 .. Countdown]
  BY <1>6 DEF IInv, TypesInv
<1>8. Advanced(c, k)
  BY <1>1, <1>4 DEF Ready, Advanced
<1>. QED
  BY <1>2, <1>4, <1>5, <1>6, <1>7, <1>8, Advances

LEMMA PostBackStep ==
  ASSUME IInv, NEW c \in Conns, PostBack(c)
  PROVE  IInv'
<1>1. con[c] \in ConType /\ con[c].st = "post"
  BY DEF IInv, TypesInv, PostBack
<1>2. "broken" \in Outs
  BY DEF Outs
<1>3. PICK k \in ConType : con' = [con EXCEPT ![c] = k] /\ Advanced(c, k)
  <2>1. CASE con[c].open
    <3>1. con' = [con EXCEPT ![c] = [con[c] EXCEPT !.st = "write"]]
      BY <2>1 DEF PostBack, WriteResponse, IInv, TypesInv
    <3>2. [con[c] EXCEPT !.st = "write"] \in ConType
      BY <1>1 DEF ConType
    <3>. QED
      BY <1>1, <3>1, <3>2 DEF ConType, Advanced
  <2>2. CASE ~con[c].open
    <3>1. con' = [con EXCEPT ![c] = [con[c] EXCEPT !.st = "end", !.got = "broken"]]
      BY <2>2 DEF PostBack, IInv, TypesInv
    <3>2. [con[c] EXCEPT !.st = "end", !.got = "broken"] \in ConType
      BY <1>1, <1>2 DEF ConType
    <3>. QED
      BY <1>1, <3>1, <3>2 DEF ConType, Advanced
  <2>. QED
    BY <2>1, <2>2
<1>4. Counted
  BY FaultCounts DEF PostBack, IInv, dirVars
<1>5. /\ UNCHANGED <<gate, dialog, call, varify, users, codes, issued, mailed>>
      /\ UNCHANGED <<token, chat, registry, lease, queue, running, outstanding>>
  BY DEF PostBack, dataVars, dirVars
<1>6. dialog' \in [page : {"form", "tip", "login"}, left : 0 .. Countdown]
  BY <1>5 DEF IInv, TypesInv
<1>. QED
  BY <1>1, <1>3, <1>4, <1>5, <1>6, Advances

LEMMA WrittenStep ==
  ASSUME IInv, NEW c \in Conns, Written(c)
  PROVE  IInv'
<1> DEFINE k == [con[c] EXCEPT !.st = "end", !.open = FALSE, !.got = con[c].out]
<1>1. con[c] \in ConType /\ con[c].st = "write"
  BY DEF IInv, TypesInv, Written
<1>2. con' = [con EXCEPT ![c] = k]
  BY DEF Written, IInv, TypesInv
<1>3. /\ k \in ConType /\ k.req = con[c].req /\ k.during = con[c].during /\ k.out = con[c].out
      /\ k.hit = con[c].hit /\ k.pc = con[c].pc /\ k.st = "end"
  BY <1>1 DEF ConType
<1> HIDE DEF k
<1>4. Counted
  BY FaultCounts DEF Written, IInv, dirVars
<1>5. /\ UNCHANGED <<gate, call, varify, users, codes, issued, mailed>>
      /\ UNCHANGED <<token, chat, registry, lease, queue, running, outstanding>>
  BY DEF Written, dataVars, dirVars
<1>6. dialog' \in [page : {"form", "tip", "login"}, left : 0 .. Countdown]
  <2>1. dialog \in [page : {"form", "tip", "login"}, left : 0 .. Countdown]
    BY DEF IInv, TypesInv
  <2>. QED
    BY <2>1 DEF Written, DialogAnswered, ChangeTipPage
<1>7. Advanced(c, k)
  BY <1>1, <1>3 DEF Advanced
<1>. QED
  BY <1>2, <1>3, <1>4, <1>5, <1>6, <1>7, Advances

-----------------------------------------------------------------------------
(* A connection comes, sends its request, and is served.                   *)

\* The number of the last token is a number.
LEMMA IssuedLargest ==
  ASSUME TypesInv, NumbersInv
  PROVE  /\ Issued \in Nat
         /\ \A u \in Users : token[u] <= Issued
         /\ \A c \in Conns : call[c].wrote <= Issued
<1> DEFINE S == {1} \cup {token[u] : u \in Users} \cup {call[c].wrote : c \in Conns}
           B == {n \in Nat : \A x \in S : x <= n}
<1>1. S \subseteq Nat /\ 1 \in S
  BY DEF TypesInv, CallType
<1>2. PICK n \in Nat : (\A u \in Users : token[u] <= n) /\ (\A c \in Conns : call[c].wrote <= n)
  BY DEF NumbersInv
<1>3. n + 1 \in B
  <2>1. \A x \in S : x <= n + 1
    BY <1>1, <1>2
  <2>. QED
    BY <2>1
<1>4. PICK m \in B : \A b \in B : ~(<<b, m>> \in OpToRel(<, Nat))
  <2>1. B \subseteq Nat /\ B # {}
    BY <1>3
  <2> HIDE DEF B, S
  <2>. QED
    BY <2>1, NatLessThanWellFounded, WFMin
<1>5. \A b \in B : ~(b < m)
  BY <1>4 DEF OpToRel
<1>6. m \in S
  <2> SUFFICES ASSUME m \notin S
               PROVE  FALSE
    OBVIOUS
  <2>1. m \in Nat /\ \A x \in S : x <= m
    OBVIOUS
  <2> HIDE DEF S
  <2>2. \A x \in S : x \in Nat /\ x <= m - 1
    BY <1>1, <2>1
  <2>3. m - 1 \in Nat
    BY <1>1, <2>1, <2>2
  <2>4. m - 1 \in B
    BY <2>2, <2>3
  <2>. QED
    BY <1>5, <2>1, <2>4
<1>7. \A x \in S : m >= x
  BY <1>1
<1>8. Issued = Max(S)
  BY DEF Issued
<1> HIDE DEF S
<1>9. Issued \in S /\ \A x \in S : Issued >= x
  BY <1>6, <1>7, <1>8 DEF Max
<1>10. Issued \in Nat /\ \A x \in S : x <= Issued
  BY <1>1, <1>9
<1>. QED
  BY <1>10 DEF S

\* What a request carries.
Sent(c, r) == r \in RequestType /\ (r.body = "good" => Shape(c, r))

LEMMA RequestSent ==
  ASSUME NEW c, NEW url \in Urls, NEW e \in Emails \cup {None}, NEW n \in Names \cup {None},
         NEW k \in Nat, NEW p \in Nat, NEW t \in Nat, NEW body \in Bodies,
         body = "good" =>
           /\ url \in {"varify", "register", "reset", "login"} => e \in Emails
           /\ url \in {"register", "reset"} => n \in Names /\ p = c
           /\ url = "login" => t = 0
           /\ url = "reassign" => t # 0
  PROVE  Sent(c, Request(url, e, n, k, p, t, body))
<1> DEFINE r == Request(url, e, n, k, p, t, body)
<1>1. /\ r.url = url /\ r.email = e /\ r.name = n /\ r.pwd = p /\ r.token = t /\ r.body = body
      /\ r \in RequestType
  BY DEF Request, RequestType
<1> HIDE DEF r
<1>2. Sent(c, r)
  BY <1>1 DEF Shape, Sent
<1>. QED
  BY <1>2 DEF r

LEMMA RequestShape ==
  ASSUME IInv, NEW c \in Conns, NEW r \in Requests(c) \cup OddRequests(c)
  PROVE  Sent(c, r)
<1>1. /\ mailed \in [Emails -> Nat] /\ Issued \in Nat /\ c \in Nat
      /\ AnEmail \in Emails /\ AName \in Names
  BY IssuedLargest, ConnsAssumption, NamesAssumption DEF IInv, TypesInv, AnEmail, AName
<1>2. /\ {"varify", "register", "reset", "login", "reassign", "procedure", "get_test",
          "unknown"} \subseteq Urls
      /\ "good" \in Bodies /\ "broken" \in Bodies /\ "partial" \in Bodies /\ "mismatch" \in Bodies
  BY DEF Urls, Bodies
<1>3. CASE r \in VarifyRequests
  BY <1>1, <1>2, <1>3, RequestSent DEF VarifyRequests
<1>4. CASE r \in RegisterRequests(c)
  <2>1. PICK e \in Emails, n \in Names : r = Request("register", e, n, mailed[e], c, 0, "good")
    BY <1>4 DEF RegisterRequests
  <2>2. mailed[e] \in Nat
    BY <1>1
  <2>. QED
    BY <1>1, <1>2, <2>1, <2>2, RequestSent
<1>5. CASE r \in ResetRequests(c)
  <2>1. PICK e \in Emails, n \in Names : r = Request("reset", e, n, mailed[e], c, 0, "good")
    BY <1>5 DEF ResetRequests
  <2>2. mailed[e] \in Nat
    BY <1>1
  <2>. QED
    BY <1>1, <1>2, <2>1, <2>2, RequestSent
<1>6. CASE r \in LoginRequests(c)
  <2>1. PICK p \in 0 .. c : r = Request("login", AnEmail, None, 0, p, 0, "good")
    BY <1>6 DEF LoginRequests
  <2>2. p \in Nat
    BY <1>1
  <2>. QED
    BY <1>1, <1>2, <2>1, <2>2, RequestSent
<1>7. CASE r \in ReassignRequests
  <2>1. PICK t \in 1 .. Issued : r = Request("reassign", None, None, 0, 0, t, "good")
    BY <1>7 DEF ReassignRequests
  <2>2. t \in Nat /\ t # 0
    BY <1>1
  <2>. QED
    BY <1>2, <2>1, <2>2, RequestSent
<1>8. CASE r \in OddRequests(c)
  <2>1. CASE \E u \in {"procedure", "get_test", "unknown"} :
               r = Request(u, AnEmail, AName, 0, 0, 0, "good")
    BY <1>1, <1>2, <2>1, RequestSent
  <2>2. CASE \E u \in {"register", "reset"}, n \in Names, e \in Emails \ {AnEmail} :
               r = Request(u, AnEmail, n, mailed[e], c, 0, "good")
    <3>1. PICK u \in {"register", "reset"}, n \in Names, e \in Emails \ {AnEmail} :
            r = Request(u, AnEmail, n, mailed[e], c, 0, "good")
      BY <2>2
    <3>2. mailed[e] \in Nat /\ u \in Urls
      BY <1>1, <1>2
    <3>. QED
      BY <1>1, <1>2, <3>1, <3>2, RequestSent
  <2>3. CASE \E u \in {"varify", "register", "reset", "login", "reassign", "procedure"},
                b \in {"broken", "partial"} : r = Request(u, AnEmail, AName, 0, 0, 1, b)
    <3>1. PICK u \in {"varify", "register", "reset", "login", "reassign", "procedure"},
               b \in {"broken", "partial"} : r = Request(u, AnEmail, AName, 0, 0, 1, b)
      BY <2>3
    <3>2. u \in Urls /\ b \in Bodies /\ b # "good"
      BY <1>2
    <3>. QED
      BY <1>1, <3>1, <3>2, RequestSent
  <2>4. CASE r = Request("register", AnEmail, AName, 0, 0, 0, "mismatch")
    BY <1>1, <1>2, <2>4, RequestSent
  <2>. QED
    BY <1>8, <2>1, <2>2, <2>3, <2>4 DEF OddRequests
<1>. QED
  BY <1>3, <1>4, <1>5, <1>6, <1>7, <1>8 DEF Requests

\* A connection that comes, or sends its request: nothing relied on it before.
LEMMA Arrives ==
  ASSUME IInv, NEW c \in Conns, NEW k \in ConType, con' = [con EXCEPT ![c] = k],
         con[c].st \in Ready, k.st \in {"reading", "queued", "write"},
         k.out \in {"none", "404", "503"},
         k.st = "reading" => k.out = "none" /\ k.req.url = "none",
         k.st # "reading" /\ k.req.body = "good" => Shape(c, k.req),
         UNCHANGED <<call, varify, users, codes, issued, mailed>>, UNCHANGED <<token, chat>>
  PROVE  /\ EachInv' /\ KeptInv' /\ TokenInv' /\ NumbersInv' /\ UsersInv' /\ OwnerInv'
         /\ CodesInv' /\ AwayInv'
<1>1. con'[c] = k /\ \A d \in Conns \ {c} : con'[d] = con[d]
  BY DEF IInv, TypesInv
<1>2. ConInv(c, con[c]) /\ CallInv(con[c], call[c]) /\ VarifyInv(con[c], varify[c])
  BY DEF IInv, EachInv
<1>3. call[c].pc = "none" /\ varify[c].pc = "none" /\ con[c].req.url = "none"
  BY <1>2 DEF CallInv, VarifyInv, ConInv, Asking, Ready, Past
<1>4. /\ Others(c) /\ RowsGrow /\ IssuedGrows
      /\ call' = call /\ varify' = varify /\ users' = users /\ issued' = issued
  BY <1>1 DEF Others, RowsGrow, IssuedGrows
<1>5. ConInv(c, k)
  BY DEF ConInv, Ready, Handling
<1>6. CallInv(k, call[c]) /\ VarifyInv(k, varify[c]) /\ TableInv(k, varify[c], users, issued)
  BY <1>2, <1>3 DEF CallInv, VarifyInv, TableInv, Handling, Coded
<1>7. EachInv'
  BY <1>1, <1>4, <1>5, <1>6, EachKept DEF IInv
<1>8. KeptInv'
  <2> SUFFICES ASSUME NEW d \in Conns, KeptOnce(varify[d])
               PROVE  \/ codes[con'[d].req.email].code = varify[d].code
                      \/ \E x \in Conns : /\ x # d /\ (x > d \/ x \in con'[d].during)
                                          /\ con'[x].req.url = "varify"
                                          /\ con'[x].req.email = con'[d].req.email
    BY DEF KeptInv, Beside, Address
  <2>1. d # c
    BY <1>3 DEF KeptOnce
  <2>2. CASE codes[con[d].req.email].code = varify[d].code
    BY <1>1, <2>1, <2>2
  <2>3. ASSUME NEW x \in Conns, x # d, x > d \/ x \in con[d].during, con[x].req.url = "varify",
               con[x].req.email = con[d].req.email
        PROVE  con'[x] = con[x] /\ con'[d] = con[d]
    BY <1>1, <1>3, <2>1, <2>3
  <2>. QED
    BY <2>2, <2>3 DEF KeptInv, Beside, Address, IInv
<1>9. TokenInv'
  <2> SUFFICES ASSUME NEW d \in Conns, call[d].wrote # 0
               PROVE  \/ token[call[d].uid] \in {call[d].wrote, 0}
                      \/ \E x \in Conns : /\ x # d /\ (x > d \/ x \in con'[d].during)
                                          /\ con'[x].req.url = "login" /\ call[x].wrote # 0
    BY DEF TokenInv, Beside
  <2>1. d # c
    BY <1>2, <1>3 DEF CallInv
  <2>2. ASSUME NEW x \in Conns, con[x].req.url = "login"
        PROVE  con'[x] = con[x] /\ con'[d] = con[d]
    BY <1>1, <1>3, <2>1, <2>2
  <2>. QED
    BY <2>2 DEF TokenInv, Beside, IInv
<1>10. NumbersInv'
  BY NumbersKept DEF IInv
<1>11. UsersInv'
  <2>1. \A d \in Conns : con[d].st \in Past => con'[d].st \in Past
    BY <1>1 DEF Ready, Past
  <2>. QED
    BY <1>4, <2>1, UsersKept DEF IInv
<1>12. OwnerInv'
  <2>1. \A d \in Conns : con[d].st \notin Ready => con'[d].st \notin Ready /\ con'[d].req = con[d].req
    BY <1>1
  <2>. QED
    BY <1>4, <2>1, OwnerKept DEF IInv
<1>. QED
  BY <1>7, <1>8, <1>9, <1>10, <1>11, <1>12, CodesKept, AwayKept DEF IInv

LEMMA AcceptStep ==
  ASSUME IInv, NEW c \in Conns, Accept(c)
  PROVE  IInv'
<1> DEFINE k == [con[c] EXCEPT !.st = "reading", !.open = TRUE,
                               !.during = {d \in Conns : Unfinished(d)}]
<1>1. con[c] \in ConType /\ con[c].st = "free" /\ ConInv(c, con[c])
  BY DEF IInv, TypesInv, EachInv, Accept
<1>2. con' = [con EXCEPT ![c] = k]
  BY DEF Accept, IInv, TypesInv
<1>3. /\ k \in ConType /\ k.st = "reading" /\ k.out = con[c].out /\ k.req = con[c].req
      /\ k.during = {d \in Conns : Unfinished(d)}
  BY <1>1 DEF ConType
<1> HIDE DEF k
<1>4. /\ UNCHANGED <<gate, dialog, call, varify, users, codes, issued, mailed>>
      /\ UNCHANGED <<token, chat>> /\ UNCHANGED <<chat, lease, registry>> /\ faults' = faults
      /\ UNCHANGED <<queue, running, outstanding>>
  BY DEF Accept, dataVars, dirVars
<1>5. con'[c] = k /\ \A d \in Conns \ {c} : con'[d] = con[d]
  BY <1>2 DEF IInv, TypesInv
<1>6. /\ EachInv' /\ KeptInv' /\ TokenInv' /\ NumbersInv' /\ UsersInv' /\ OwnerInv'
      /\ CodesInv' /\ AwayInv'
  <2>1. con[c].st \in Ready /\ k.out = "none" /\ k.req.url = "none"
    BY <1>1, <1>3 DEF ConInv, Ready
  <2>. QED
    BY <1>2, <1>3, <1>4, <2>1, Arrives
<1>7. OrderInv'
  <2> SUFFICES ASSUME NEW e \in Conns, NEW d \in Conns, d < e, con'[e].st # "free",
                      d \notin con'[e].during
               PROVE  Finished(d)'
    BY DEF OrderInv
  <2>1. d # c /\ Finished(d)
    <3>1. CASE e = c
      <4>1. con[d].st # "free"
        BY <3>1 DEF Accept
      <4>2. ~Unfinished(d) /\ d # c
        BY <1>3, <1>5, <3>1, ConnsAssumption
      <4>. QED
        BY <4>1, <4>2 DEF Unfinished, Finished
    <3>2. CASE e # c
      BY <1>1, <1>5, <3>2 DEF IInv, OrderInv, Finished
    <3>. QED
      BY <3>1, <3>2
  <2>. QED
    BY <1>4, <1>5, <2>1 DEF Finished
<1>8. ExecInv'
  BY <1>1, <1>3, <1>4, <1>5, ExecKept DEF IInv, Past
<1>9. TypesInv'
  BY <1>2, <1>3, <1>4 DEF IInv, TypesInv
<1>10. ServersInv'
  BY <1>4 DEF IInv, ServersInv
<1>. QED
  BY <1>6, <1>7, <1>8, <1>9, <1>10 DEF IInv

LEMMA RunLoopStep ==
  ASSUME IInv, NEW c \in Conns, RunLoop(c)
  PROVE  IInv'
<1> DEFINE k == [con[c] EXCEPT !.st = "handler", !.pc = FirstStep(con[c].req)]
<1>1. queue \in Seq(Conns) /\ queue # <<>> /\ Head(queue) = c /\ queue' = Tail(queue)
  BY DEF RunLoop, IInv, ExecInv
<1>2. con[c] \in ConType /\ con[c].st = "queued"
  <2>1. 1 \in DOMAIN queue /\ queue[1] = c
    BY <1>1
  <2>. QED
    BY <2>1 DEF IInv, TypesInv, ExecInv
<1>3. con' = [con EXCEPT ![c] = k]
  BY DEF RunLoop, IInv, TypesInv
<1>4. FirstStep(con[c].req) \in {"code", "pwd", "varify", "status", "query"}
  BY DEF FirstStep
<1>5. /\ k \in ConType /\ k.req = con[c].req /\ k.during = con[c].during /\ k.out = con[c].out
      /\ k.hit = con[c].hit /\ k.pc = FirstStep(con[c].req) /\ k.st = "handler"
  BY <1>2, <1>4 DEF ConType
<1> HIDE DEF k
<1>6. /\ UNCHANGED <<gate, dialog, call, varify, users, codes, issued, mailed>>
      /\ UNCHANGED <<token, chat>> /\ UNCHANGED <<chat, lease, registry>> /\ faults' = faults
      /\ outstanding' = outstanding /\ running' = running \cup {c}
  BY DEF RunLoop, dataVars, dirVars
<1>7. con'[c] = k /\ \A d \in Conns \ {c} : con'[d] = con[d]
  BY <1>3 DEF IInv, TypesInv
<1>8. /\ ConInv(c, con[c]) /\ CallInv(con[c], call[c]) /\ VarifyInv(con[c], varify[c])
      /\ TableInv(con[c], varify[c], users, issued)
  BY DEF IInv, EachInv
<1>9. call[c].pc = "none" /\ varify[c].pc = "none"
  BY <1>2, <1>8 DEF CallInv, VarifyInv, Asking, Past
<1>10. ConInv(c, k)
  <2>1. FirstStep(con[c].req) \in Path(con[c].req.url)
    BY DEF FirstStep, Path
  <2>. QED
    BY <1>2, <1>5, <1>8, <2>1 DEF ConInv, Ready
<1>11. CallInv(k, call[c]) /\ VarifyInv(k, varify[c])
  BY <1>5, <1>8, <1>9 DEF CallInv, VarifyInv
<1>12. TableInv(k, varify[c], users, issued)
  <2>1. con[c].req.url = "login" => FirstStep(con[c].req) = "pwd"
    BY DEF FirstStep
  <2>. QED
    BY <1>4, <1>5, <1>8, <2>1 DEF TableInv
<1>13. /\ EachInv' /\ OrderInv' /\ KeptInv' /\ TokenInv' /\ NumbersInv' /\ UsersInv' /\ OwnerInv'
       /\ CodesInv' /\ AwayInv'
  <2>1. RowsGrow /\ users' = users
    BY <1>6 DEF RowsGrow
  <2>2. con[c].st # "free" /\ k.st \notin Ready /\ con[c].st \notin Past
    BY <1>2, <1>5 DEF Ready, Past
  <2>3. con[c].st # "end"
    BY <1>2
  <2>. QED
    BY <1>3, <1>5, <1>6, <1>10, <1>11, <1>12, <2>1, <2>2, <2>3, ConnectionStep
<1>14. ExecInv'
  <2>1. /\ queue' \in Seq(Conns) /\ Len(queue) = Len(queue') + 1
        /\ \A i \in DOMAIN queue' : i + 1 \in DOMAIN queue /\ queue'[i] = queue[i + 1]
        /\ \A i \in DOMAIN queue : i # 1 => i - 1 \in DOMAIN queue' /\ queue[i] = queue'[i - 1]
    BY <1>1
  <2>2. IsInjective(queue) /\ queue[1] = c /\ 1 \in DOMAIN queue /\ DOMAIN queue \subseteq Nat
        /\ DOMAIN queue' \subseteq Nat \ {0}
    BY <1>1, <2>1 DEF IInv, ExecInv
  <2>3. IsInjective(queue')
    BY <2>1, <2>2 DEF IsInjective
  <2>4. ASSUME NEW d \in Conns
        PROVE  con'[d].st = "queued" <=> \E i \in DOMAIN queue' : queue'[i] = d
    <3>1. CASE d = c
      <4>1. \A i \in DOMAIN queue' : queue'[i] # c
        BY <2>1, <2>2 DEF IsInjective
      <4>. QED
        BY <1>5, <1>7, <3>1, <4>1
    <3>2. CASE d # c
      <4>1. con[d].st = "queued" <=> \E i \in DOMAIN queue : queue[i] = d
        BY DEF IInv, ExecInv
      <4>2. ASSUME NEW i \in DOMAIN queue', queue'[i] = d
            PROVE  con[d].st = "queued"
        BY <2>1, <4>1, <4>2
      <4>3. ASSUME NEW i \in DOMAIN queue, queue[i] = d
            PROVE  \E j \in DOMAIN queue' : queue'[j] = d
        BY <2>1, <2>2, <3>2, <4>3
      <4>4. con'[d] = con[d]
        BY <1>7, <3>2
      <4>. QED
        BY <4>1, <4>2, <4>3, <4>4
    <3>. QED
      BY <3>1, <3>2
  <2>5. ASSUME NEW d \in Conns
        PROVE  /\ con'[d].st = "handler" => d \in running'
               /\ d \in running' => con'[d].st \in Past \cup {"handler"}
    BY <1>5, <1>6, <1>7 DEF IInv, ExecInv
  <2>6. outstanding' = Len(queue') + Cardinality(running')
    <3>1. running \subseteq Conns /\ c \notin running
      BY <1>2 DEF IInv, ExecInv, Past
    <3>2. IsFiniteSet(running) /\ Cardinality(running) \in Nat
      BY <3>1, ConnsAssumption, FS_Subset, FS_CardinalityType
    <3>3. Cardinality(running') = Cardinality(running) + 1
      BY <1>6, <3>1, <3>2, FS_AddElement
    <3>4. outstanding = Len(queue) + Cardinality(running) /\ Len(queue') \in Nat
      BY <2>1 DEF IInv, ExecInv
    <3>. QED
      BY <1>6, <2>1, <3>2, <3>3, <3>4
  <2>7. running' \subseteq Conns
    BY <1>6 DEF IInv, ExecInv
  <2>. QED
    BY <2>1, <2>3, <2>4, <2>5, <2>6, <2>7 DEF ExecInv
<1>15. TypesInv'
  BY <1>3, <1>5, <1>6 DEF IInv, TypesInv
<1>16. ServersInv'
  BY <1>6 DEF IInv, ServersInv
<1>. QED
  BY <1>13, <1>14, <1>15, <1>16 DEF IInv

\* Dispatch has taken the request r on connection c, which is k now.
Received(c, r, k) ==
  /\ con' = [con EXCEPT ![c] = k]
  /\ k.req = r /\ k.during = con[c].during /\ k.out \in {"none", "404", "503"}
  /\ \/ k.st = "write" /\ UNCHANGED <<queue, outstanding>>
     \/ k.st = "queued" /\ Post(c)

LEMMA HandleReqStep ==
  ASSUME IInv, NEW c \in Conns, HandleReq(c)
  PROVE  IInv'
<1>1. con[c] \in ConType /\ con[c].st = "reading" /\ ConInv(c, con[c])
  BY DEF IInv, TypesInv, EachInv, HandleReq
<1>2. PICK r \in Requests(c) \cup OddRequests(c) : Dispatch(c, r)
  BY DEF HandleReq
<1>3. Sent(c, r)
  BY RequestShape
<1>4. Counted
  BY FaultCounts DEF HandleReq, IInv
<1>5. /\ UNCHANGED <<gate, dialog, call, varify, users, codes, issued, mailed>>
      /\ UNCHANGED <<token, chat>> /\ UNCHANGED <<chat, lease, registry>> /\ running' = running
  BY DEF HandleReq, dataVars, dirData
<1>6. PICK k \in ConType : Received(c, r, k)
  <2>1. con[c].out = "none" /\ r \in RequestType
    BY <1>1, <1>3 DEF ConInv, Ready, Sent
  <2>2. ASSUME NEW out \in {"404", "503"}, UNCHANGED <<queue, outstanding>>,
               con' = [con EXCEPT ![c].req = r, ![c].st = "write", ![c].out = out]
        PROVE  \E k \in ConType : Received(c, r, k)
    <3> DEFINE k == [con[c] EXCEPT !.req = r, !.st = "write", !.out = out]
    <3>1. con' = [con EXCEPT ![c] = k]
      BY <2>2 DEF IInv, TypesInv
    <3>2. out \in Outs
      BY DEF Outs
    <3>3. k \in ConType /\ k.req = r /\ k.during = con[c].during /\ k.out = out /\ k.st = "write"
      BY <1>1, <2>1, <3>2 DEF ConType
    <3> HIDE DEF k
    <3>4. Received(c, r, k)
      BY <2>2, <3>1, <3>3 DEF Received
    <3>. QED
      BY <3>3, <3>4
  <2>3. ASSUME Post(c), con' = [con EXCEPT ![c].req = r, ![c].st = "queued"]
        PROVE  \E k \in ConType : Received(c, r, k)
    <3> DEFINE k == [con[c] EXCEPT !.req = r, !.st = "queued"]
    <3>1. con' = [con EXCEPT ![c] = k]
      BY <2>3 DEF IInv, TypesInv
    <3>2. /\ k \in ConType /\ k.req = r /\ k.during = con[c].during /\ k.out = "none"
          /\ k.st = "queued"
      BY <1>1, <2>1 DEF ConType
    <3> HIDE DEF k
    <3>3. Received(c, r, k)
      BY <2>3, <3>1, <3>2 DEF Received
    <3>. QED
      BY <3>2, <3>3
  <2>4. \/ /\ con' = [con EXCEPT ![c].req = r, ![c].st = "write", ![c].out = "404"]
           /\ UNCHANGED <<queue, outstanding>>
        \/ /\ con' = [con EXCEPT ![c].req = r, ![c].st = "write", ![c].out = "503"]
           /\ UNCHANGED <<queue, outstanding>>
        \/ Post(c) /\ con' = [con EXCEPT ![c].req = r, ![c].st = "queued"]
    BY <1>2 DEF Dispatch
  <2>. QED
    BY <2>2, <2>3, <2>4
<1>7. /\ con' = [con EXCEPT ![c] = k]
      /\ k.req = r /\ k.during = con[c].during /\ k.out \in {"none", "404", "503"}
      /\ \/ k.st = "write" /\ UNCHANGED <<queue, outstanding>>
         \/ k.st = "queued" /\ Post(c)
  BY <1>6 DEF Received
<1>8. con'[c] = k /\ \A d \in Conns \ {c} : con'[d] = con[d]
  BY <1>7 DEF IInv, TypesInv
<1>9. /\ EachInv' /\ KeptInv' /\ TokenInv' /\ NumbersInv' /\ UsersInv' /\ OwnerInv'
      /\ CodesInv' /\ AwayInv'
  <2>1. con[c].st \in Ready
    BY <1>1 DEF Ready
  <2>2. k.st \in {"queued", "write"} /\ (k.req.body = "good" => Shape(c, k.req))
    BY <1>3, <1>7 DEF Sent
  <2>. QED
    BY <1>5, <1>7, <2>1, <2>2, Arrives
<1>10. OrderInv'
  <2> SUFFICES ASSUME NEW e \in Conns, NEW d \in Conns, d < e, con'[e].st # "free",
                      d \notin con'[e].during
               PROVE  Finished(d)'
    BY DEF OrderInv
  <2>1. con[e].st # "free" /\ con'[e].during = con[e].during
    BY <1>1, <1>7, <1>8
  <2>2. Finished(d)
    BY <2>1 DEF IInv, OrderInv
  <2>. QED
    BY <1>1, <1>5, <1>8, <2>2 DEF Finished
<1>11. ExecInv'
  <2>1. CASE k.st = "write"
    BY <1>1, <1>5, <1>7, <1>8, <2>1, ExecKept DEF IInv, Past
  <2>2. CASE k.st = "queued"
    <3>1. queue' = Append(queue, c) /\ outstanding' = outstanding + 1
      BY <1>7, <2>2 DEF Post
    <3>2. queue \in Seq(Conns) /\ IsInjective(queue) /\ \A i \in DOMAIN queue : queue[i] # c
      BY <1>1 DEF IInv, ExecInv
    <3>3. /\ queue' \in Seq(Conns) /\ Len(queue') = Len(queue) + 1
          /\ DOMAIN queue' = DOMAIN queue \cup {Len(queue) + 1} /\ queue'[Len(queue) + 1] = c
          /\ \A i \in DOMAIN queue : queue'[i] = queue[i]
      BY <3>1, <3>2
    <3>4. IsInjective(queue')
      BY <3>2, <3>3 DEF IsInjective
    <3>5. ASSUME NEW d \in Conns
          PROVE  con'[d].st = "queued" <=> \E i \in DOMAIN queue' : queue'[i] = d
      <4>1. CASE d = c
        BY <1>8, <2>2, <3>3, <4>1
      <4>2. CASE d # c
        <5>1. con[d].st = "queued" <=> \E i \in DOMAIN queue : queue[i] = d
          BY DEF IInv, ExecInv
        <5>. QED
          BY <1>8, <3>3, <4>2, <5>1
      <4>. QED
        BY <4>1, <4>2
    <3>6. ASSUME NEW d \in Conns
          PROVE  /\ con'[d].st = "handler" => d \in running
                 /\ d \in running => con'[d].st \in Past \cup {"handler"}
      BY <1>1, <1>8, <2>2 DEF IInv, ExecInv, Past
    <3>7. outstanding' = Len(queue') + Cardinality(running)
      <4>1. running \subseteq Conns /\ outstanding = Len(queue) + Cardinality(running)
        BY DEF IInv, ExecInv
      <4>2. Cardinality(running) \in Nat
        BY <4>1, ConnsAssumption, FS_Subset, FS_CardinalityType
      <4>. QED
        BY <3>1, <3>2, <3>3, <4>1, <4>2
    <3>8. running \subseteq Conns
      BY DEF IInv, ExecInv
    <3>. QED
      BY <1>5, <3>3, <3>4, <3>5, <3>6, <3>7, <3>8 DEF ExecInv
  <2>. QED
    BY <1>7, <2>1, <2>2
<1>12. TypesInv'
  BY <1>4, <1>5, <1>7 DEF IInv, TypesInv, Counted
<1>13. ServersInv'
  BY <1>4, <1>5, BoundAssumption, ServersKept DEF IInv, Counted
<1>. QED
  BY <1>9, <1>10, <1>11, <1>12, <1>13 DEF IInv

LEMMA TaskEndsStep ==
  ASSUME IInv, NEW c \in Conns, TaskEnds(c)
  PROVE  IInv'
<1>1. /\ UNCHANGED <<gate, con, dialog, call, varify, users, codes, issued, mailed>>
      /\ UNCHANGED <<token, chat, registry, lease, faults>>
      /\ queue' = queue /\ running' = running \ {c} /\ outstanding' = outstanding - 1
  BY DEF TaskEnds, dataVars, dirVars
<1>2. ExecInv'
  <2>1. /\ queue \in Seq(Conns) /\ running \subseteq Conns /\ c \in running
        /\ outstanding = Len(queue) + Cardinality(running)
    BY DEF TaskEnds, IInv, ExecInv
  <2>2. IsFiniteSet(running) /\ Cardinality(running) \in Nat
    BY <2>1, ConnsAssumption, FS_Subset, FS_CardinalityType
  <2>3. Cardinality(running') = Cardinality(running) - 1
    BY <1>1, <2>1, <2>2, FS_RemoveElement
  <2>4. outstanding' = Len(queue) + Cardinality(running')
    BY <1>1, <2>1, <2>2, <2>3
  <2>5. \A d \in Conns : con[d].st = "handler" => d \in running'
    BY <1>1 DEF TaskEnds, IInv, ExecInv
  <2>6. running' \subseteq running
    BY <1>1
  <2>. QED
    BY <1>1, <2>1, <2>4, <2>5, <2>6 DEF IInv, ExecInv
<1>3. TypesInv' /\ ServersInv'
  BY <1>1 DEF IInv, TypesInv, ServersInv
<1>4. EachInv' /\ OrderInv' /\ AwayInv'
  BY <1>1 DEF IInv, EachInv, OrderInv, Finished, AwayInv
<1>5. KeptInv' /\ TokenInv' /\ NumbersInv'
  BY <1>1 DEF IInv, KeptInv, TokenInv, NumbersInv, Beside, Address
<1>6. UsersInv' /\ OwnerInv' /\ CodesInv'
  BY <1>1 DEF IInv, UsersInv, Over, OwnerInv, CodesInv
<1>. QED
  BY <1>2, <1>3, <1>4, <1>5, <1>6 DEF IInv

LEMMA StoppedStep ==
  ASSUME IInv, Stopped
  PROVE  IInv'
<1>1. /\ UNCHANGED <<dialog, call, varify, users, codes, issued, mailed>>
      /\ UNCHANGED <<token, chat, registry, lease, faults>>
      /\ UNCHANGED <<queue, running, outstanding>> /\ queue = <<>> /\ running = {}
      /\ gate' = "stopped"
  BY DEF Stopped, dataVars, dirVars
<1>2. con' \in [Conns -> ConType] /\ \A d \in Conns :
        IF con[d].st \in {"free", "end"} THEN con'[d] = con[d]
        ELSE Advanced(d, con'[d]) /\ con'[d].st = "end"
  <2>1. con' = [d \in Conns |->
                  IF con[d].st \in {"free", "end"} THEN con[d]
                  ELSE [con[d] EXCEPT !.st = "end", !.open = FALSE, !.got = "broken"]]
    BY DEF Stopped, ConsCut
  <2>2. ASSUME NEW d \in Conns, con[d].st \notin {"free", "end"},
               NEW k, k = [con[d] EXCEPT !.st = "end", !.open = FALSE, !.got = "broken"]
        PROVE  k \in ConType /\ k.st = "end" /\ Advanced(d, k)
    <3>1. con[d] \in ConType /\ "broken" \in Outs
      BY DEF IInv, TypesInv, Outs
    <3>2. con[d].st \notin {"queued", "handler"}
      BY <1>1 DEF IInv, ExecInv
    <3>3. con[d].st \in {"reading", "post", "write"}
      BY <2>2, <3>1, <3>2 DEF ConType
    <3>4. /\ k \in ConType /\ k.st = "end" /\ k.req = con[d].req /\ k.during = con[d].during
          /\ k.out = con[d].out /\ k.hit = con[d].hit /\ k.pc = con[d].pc
      BY <2>2, <3>1 DEF ConType
    <3>. QED
      BY <3>3, <3>4 DEF Advanced
  <2>3. \A d \in Conns : con[d] \in ConType
    BY DEF IInv, TypesInv
  <2>. QED
    BY <2>1, <2>2, <2>3
<1>3. SameRequests
  BY <1>2 DEF SameRequests, Advanced
<1>4. RowsGrow /\ IssuedGrows
  BY <1>1 DEF RowsGrow, IssuedGrows
<1>5. EachInv'
  <2> SUFFICES ASSUME NEW d \in Conns
               PROVE  /\ ConInv(d, con'[d]) /\ CallInv(con'[d], call[d])
                      /\ VarifyInv(con'[d], varify[d])
                      /\ TableInv(con'[d], varify[d], users, issued)
    BY <1>1 DEF EachInv
  <2>1. CASE con[d].st \in {"free", "end"}
    BY <1>2, <2>1 DEF IInv, EachInv
  <2>2. CASE con[d].st \notin {"free", "end"}
    BY <1>2, <2>2, AdvancedKeeps
  <2>. QED
    BY <2>1, <2>2
<1>6. OrderInv'
  BY <1>1, <1>2, <1>3, OrderKept DEF IInv, Finished
<1>7. KeptInv' /\ TokenInv' /\ NumbersInv'
  BY <1>1, <1>3, KeptKept, TokenKept, NumbersKept DEF IInv
<1>8. UsersInv' /\ OwnerInv'
  <2>1. \A d \in Conns : con[d].st \in Past => con'[d].st \in Past
    BY <1>2 DEF Past
  <2>2. \A d \in Conns : con[d].st \notin Ready => con'[d].st \notin Ready
    BY <1>2 DEF Ready
  <2>3. \A d \in Conns : con'[d].req = con[d].req
    BY <1>3 DEF SameRequests
  <2>. QED
    BY <1>1, <1>4, <2>1, <2>2, <2>3, UsersKept, OwnerKept DEF IInv
<1>9. ExecInv'
  BY <1>1, <1>2, ExecKept DEF IInv, ExecInv, Past
<1>10. TypesInv' /\ ServersInv'
  BY <1>1, <1>2 DEF IInv, TypesInv, ServersInv
<1>. QED
  BY <1>1, <1>5, <1>6, <1>7, <1>8, <1>9, <1>10, CodesKept, AwayKept DEF IInv

-----------------------------------------------------------------------------
(* VarifyServer.                                                           *)

\* Whoever is still at work came later than e, or was there when e came.
LEMMA BesideAtWork ==
  ASSUME IInv, NEW c \in Conns, NEW e \in Conns, e # c, con[e].st # "free", ~Finished(c)
  PROVE  Beside(c, e)
<1>1. c \in Nat /\ e \in Nat
  BY ConnsAssumption
<1>2. CASE c > e
  BY <1>2 DEF Beside
<1>3. CASE ~(c > e)
  <2>1. c < e
    BY <1>1, <1>3
  <2>2. c \in con[e].during
    BY <2>1 DEF IInv, OrderInv
  <2>. QED
    BY <2>2 DEF Beside
<1>. QED
  BY <1>2, <1>3

\* A call of VarifyServer belongs to a request for a code.
LEMMA VarifyCaller ==
  ASSUME IInv, NEW c \in Conns, varify[c].pc # "none"
  PROVE  /\ con[c].req.url = "varify" /\ Address(c) \in Emails /\ con[c].st # "free"
         /\ varify[c] \in VarifyType
<1>1. ConInv(c, con[c]) /\ VarifyInv(con[c], varify[c])
  BY DEF IInv, EachInv
<1>2. con[c].req.url = "varify" /\ con[c].st \notin Ready /\ con[c].req.body = "good"
  BY <1>1 DEF VarifyInv, Asking, Ready, Past
<1>3. Address(c) \in Emails
  BY <1>1, <1>2 DEF ConInv, Shape, Address
<1>. QED
  BY <1>2, <1>3 DEF Ready, IInv, TypesInv

\* A call of VarifyServer goes on: it may write the code of its own address.
LEMMA VarifyCallStep ==
  ASSUME IInv, NEW c \in Conns, NEW v \in VarifyType, varify' = [varify EXCEPT ![c] = v],
         varify[c].pc \notin {"none", "done"}, v.pc # "none",
         UNCHANGED varifyRest, Counted, IssuedGrows, CodesInv',
         codes' \in [Emails -> CodeType], mailed' \in [Emails -> Nat],
         Coded(v) => MadeFor(v.code, Address(c), issued'),
         \A e \in Emails : codes'[e].code = codes[e].code \/ e = Address(c),
         KeptOnce(v) => codes'[Address(c)].code = v.code
                        \/ (/\ KeptOnce(varify[c]) /\ v.code = varify[c].code
                            /\ codes'[Address(c)].code = codes[Address(c)].code)
  PROVE  IInv'
<1>1. varify'[c] = v /\ \A d \in Conns \ {c} : varify'[d] = varify[d]
  BY DEF IInv, TypesInv
<1>2. /\ UNCHANGED <<gate, con, call, users, dialog>>
      /\ UNCHANGED <<chat, lease, registry>> /\ UNCHANGED <<call, chat>> /\ token' = token
      /\ UNCHANGED <<queue, running, outstanding>>
  BY DEF varifyRest, gateVars, dirData
<1>3. ConInv(c, con[c]) /\ CallInv(con[c], call[c]) /\ VarifyInv(con[c], varify[c])
      /\ TableInv(con[c], varify[c], users, issued)
  BY DEF IInv, EachInv
<1>4. SameRequests /\ Others(c) /\ RowsGrow
  BY <1>1, <1>2 DEF SameRequests, Others, RowsGrow
<1>5. VarifyInv(con[c], v)
  BY <1>3 DEF VarifyInv
<1>6. TableInv(con[c], v, users', issued')
  <2>1. TableInv(con[c], varify[c], users', issued')
    BY <1>3, <1>4, TableGrows
  <2>. QED
    BY <2>1 DEF TableInv, Address
<1>7. EachInv'
  BY <1>1, <1>2, <1>3, <1>4, <1>5, <1>6, EachKept DEF IInv
<1>8. ~Finished(c)
  BY DEF Finished
<1>9. OrderInv'
  <2>1. \A d \in Conns : Finished(d) => Finished(d)'
    BY <1>1, <1>2, <1>8 DEF Finished
  <2>. QED
    BY <1>2, <1>4, <2>1, OrderKept DEF IInv
<1>10. KeptInv'
  <2> SUFFICES ASSUME NEW d \in Conns, KeptOnce(varify'[d])
               PROVE  \/ codes'[Address(d)].code = varify'[d].code
                      \/ \E x \in Conns : /\ Beside(x, d) /\ con[x].req.url = "varify"
                                          /\ Address(x) = Address(d)
    BY <1>2 DEF KeptInv, Beside, Address
  <2>1. KeptOnce(varify[d]) =>
          \/ codes[Address(d)].code = varify[d].code
          \/ \E x \in Conns : /\ Beside(x, d) /\ con[x].req.url = "varify"
                              /\ Address(x) = Address(d)
    BY DEF IInv, KeptInv
  <2>2. CASE d = c
    BY <1>1, <2>1, <2>2
  <2>3. CASE d # c
    <3>1. varify'[d] = varify[d] /\ varify[d].pc # "none"
      BY <1>1, <2>3 DEF KeptOnce
    <3>2. Address(d) \in Emails /\ con[d].st # "free" /\ con[c].req.url = "varify"
      BY <3>1, VarifyCaller
    <3>3. Beside(c, d)
      BY <1>8, <2>3, <3>2, BesideAtWork
    <3>4. CASE Address(d) = Address(c)
      BY <3>2, <3>3, <3>4
    <3>5. CASE Address(d) # Address(c)
      <4>1. codes'[Address(d)].code = codes[Address(d)].code
        BY <3>2, <3>5
      <4>. QED
        BY <2>1, <3>1, <4>1
    <3>. QED
      BY <3>4, <3>5
  <2>. QED
    BY <2>2, <2>3
<1>11. TokenInv' /\ NumbersInv'
  BY <1>2, <1>4, TokenKept, NumbersKept DEF IInv
<1>12. UsersInv' /\ OwnerInv'
  BY <1>2, UsersKept, OwnerKept DEF IInv
<1>13. ExecInv' /\ AwayInv'
  BY <1>2, ExecKept, AwayKept DEF IInv
<1>14. TypesInv'
  BY <1>2 DEF IInv, TypesInv, Counted
<1>15. ServersInv'
  BY <1>2, BoundAssumption, ServersKept DEF IInv, Counted
<1>. QED
  BY <1>7, <1>9, <1>10, <1>11, <1>12, <1>13, <1>14, <1>15 DEF IInv

\* A new code is made for the address.
LEMMA NewCodeStep ==
  ASSUME IInv, NEW c \in Conns, varify[c].pc = "get", NewCode(c), UNCHANGED varifyRest,
         UNCHANGED <<codes, mailed>>, Counted
  PROVE  IInv'
<1> DEFINE v == [varify[c] EXCEPT !.pc = "set", !.code = Len(issued) + 1]
<1>1. varify[c] \in VarifyType /\ Address(c) \in Emails
  BY VarifyCaller
<1>2. issued \in Seq(Emails) /\ issued' = Append(issued, Address(c))
  BY DEF IInv, CodesInv, NewCode
<1>3. /\ issued' \in Seq(Emails) /\ Len(issued) + 1 \in DOMAIN issued'
      /\ issued'[Len(issued) + 1] = Address(c) /\ Len(issued) + 1 \in Nat
      /\ \A i \in DOMAIN issued : i \in DOMAIN issued' /\ issued'[i] = issued[i]
  BY <1>1, <1>2
<1>4. IssuedGrows
  BY <1>3 DEF IssuedGrows
<1>5. varify' = [varify EXCEPT ![c] = v]
  BY DEF NewCode, IInv, TypesInv
<1>6. v \in VarifyType /\ v.pc = "set" /\ v.code = Len(issued) + 1
  BY <1>1, <1>3 DEF VarifyType
<1> HIDE DEF v
<1>7. CodesInv'
  BY <1>3 DEF IInv, CodesInv, MadeFor
<1>8. MadeFor(v.code, Address(c), issued') /\ ~KeptOnce(v)
  BY <1>3, <1>6 DEF MadeFor, KeptOnce
<1>9. codes' \in [Emails -> CodeType] /\ mailed' \in [Emails -> Nat] /\ codes' = codes
  BY DEF IInv, TypesInv
<1>. QED
  BY <1>4, <1>5, <1>6, <1>7, <1>8, <1>9, VarifyCallStep

LEMMA GetRedisStep ==
  ASSUME IInv, NEW c \in Conns, GetRedis(c)
  PROVE  IInv'
<1>1. varify[c].pc = "get" /\ UNCHANGED varifyRest /\ UNCHANGED <<codes, mailed>>
  BY DEF GetRedis
<1>2. Counted
  BY FaultCounts DEF GetRedis, IInv, NewCode
<1>3. CASE NewCode(c)
  BY <1>1, <1>2, <1>3, NewCodeStep
<1>4. CASE /\ varify' = [varify EXCEPT ![c].pc = "mail", ![c].code = codes[Address(c)].code]
           /\ issued' = issued
  <2> DEFINE v == [varify[c] EXCEPT !.pc = "mail", !.code = codes[Address(c)].code]
  <2>1. varify[c] \in VarifyType /\ Address(c) \in Emails
    BY <1>1, VarifyCaller
  <2>2. codes[Address(c)].code \in Nat /\ MadeFor(codes[Address(c)].code, Address(c), issued)
    BY <2>1 DEF IInv, TypesInv, CodeType, CodesInv
  <2>3. varify' = [varify EXCEPT ![c] = v]
    BY <1>4 DEF IInv, TypesInv
  <2>4. v \in VarifyType /\ v.pc = "mail" /\ v.code = codes[Address(c)].code
    BY <2>1, <2>2 DEF VarifyType
  <2> HIDE DEF v
  <2>5. IssuedGrows /\ CodesInv'
    BY <1>1, <1>4 DEF IssuedGrows, IInv, CodesInv
  <2>6. codes' \in [Emails -> CodeType] /\ mailed' \in [Emails -> Nat] /\ codes' = codes
    BY <1>1 DEF IInv, TypesInv
  <2>. QED
    BY <1>1, <1>2, <1>4, <2>2, <2>3, <2>4, <2>5, <2>6, VarifyCallStep
<1>. QED
  BY <1>3, <1>4 DEF GetRedis

\* The call ends with an error.
LEMMA VarifyFails ==
  ASSUME IInv, NEW c \in Conns, NEW error \in {"RedisErr", "Exception"},
         varify[c].pc \notin {"none", "done"}, VarifyDone(c, error), UNCHANGED varifyRest,
         UNCHANGED <<codes, issued, mailed>>, Counted
  PROVE  IInv'
<1> DEFINE v == [varify[c] EXCEPT !.pc = "done", !.error = error]
<1>1. varify[c] \in VarifyType
  BY VarifyCaller
<1>2. varify' = [varify EXCEPT ![c] = v]
  BY DEF VarifyDone, IInv, TypesInv
<1>3. error \in Outs \ {"UserExist"}
  BY DEF Outs
<1>4. v \in VarifyType /\ v.pc = "done" /\ v.error = error
  BY <1>1, <1>3 DEF VarifyType
<1> HIDE DEF v
<1>5. IssuedGrows /\ CodesInv'
  BY DEF IssuedGrows, IInv, CodesInv
<1>6. codes' \in [Emails -> CodeType] /\ mailed' \in [Emails -> Nat] /\ codes' = codes
  BY DEF IInv, TypesInv
<1>7. ~Coded(v) /\ ~KeptOnce(v)
  BY <1>4 DEF Coded, KeptOnce
<1>. QED
  BY <1>2, <1>4, <1>5, <1>6, <1>7, VarifyCallStep

LEMMA SetRedisStep ==
  ASSUME IInv, NEW c \in Conns, SetRedis(c)
  PROVE  IInv'
<1>1. varify[c].pc = "set" /\ UNCHANGED varifyRest /\ UNCHANGED <<issued, mailed>>
  BY DEF SetRedis
<1>2. Counted
  BY FaultCounts DEF SetRedis, IInv
<1>3. CASE VarifyDone(c, "RedisErr") /\ UNCHANGED codes
  BY <1>1, <1>2, <1>3, VarifyFails
<1>4. CASE /\ codes' = [codes EXCEPT ![Address(c)] =
                          [code |-> varify[c].code, live |-> TRUE, ttl |-> FALSE]]
           /\ varify' = [varify EXCEPT ![c].pc = "expire"]
  <2> DEFINE v == [varify[c] EXCEPT !.pc = "expire"]
             new == [code |-> varify[c].code, live |-> TRUE, ttl |-> FALSE]
  <2>1. varify[c] \in VarifyType /\ Address(c) \in Emails
    BY <1>1, VarifyCaller
  <2>2. MadeFor(varify[c].code, Address(c), issued)
    BY <1>1 DEF IInv, EachInv, TableInv, Coded, Address
  <2>3. varify' = [varify EXCEPT ![c] = v]
    BY <1>4 DEF IInv, TypesInv
  <2>4. v \in VarifyType /\ v.pc = "expire" /\ v.code = varify[c].code
    BY <2>1 DEF VarifyType
  <2>5. new \in CodeType /\ new.code = varify[c].code
    BY <2>1 DEF VarifyType, CodeType
  <2>6. codes \in [Emails -> CodeType] /\ codes' = [codes EXCEPT ![Address(c)] = new]
    BY <1>4 DEF IInv, TypesInv
  <2> HIDE DEF v, new
  <2>7. /\ codes' \in [Emails -> CodeType] /\ codes'[Address(c)] = new
        /\ \A e \in Emails : e # Address(c) => codes'[e] = codes[e]
    BY <2>1, <2>5, <2>6
  <2>8. IssuedGrows /\ mailed' \in [Emails -> Nat] /\ issued' = issued
    BY <1>1 DEF IssuedGrows, IInv, TypesInv
  <2>9. CodesInv'
    <3>1. \A e \in Emails : MadeFor(codes'[e].code, e, issued)
      BY <2>2, <2>5, <2>7 DEF IInv, CodesInv
    <3>. QED
      BY <1>1, <3>1 DEF IInv, CodesInv
  <2>10. \A e \in Emails : codes'[e].code = codes[e].code \/ e = Address(c)
    BY <2>7
  <2>. QED
    BY <1>1, <1>2, <2>2, <2>3, <2>4, <2>5, <2>7, <2>8, <2>9, <2>10, VarifyCallStep
<1>. QED
  BY <1>3, <1>4 DEF SetRedis

LEMMA RedisExpireStep ==
  ASSUME IInv, NEW c \in Conns, RedisExpire(c)
  PROVE  IInv'
<1>1. varify[c].pc = "expire" /\ UNCHANGED varifyRest /\ UNCHANGED <<issued, mailed>>
  BY DEF RedisExpire
<1>2. Counted
  BY FaultCounts DEF RedisExpire, IInv
<1>3. CASE VarifyDone(c, "RedisErr") /\ UNCHANGED codes
  BY <1>1, <1>2, <1>3, VarifyFails
<1>4. CASE /\ codes' = [codes EXCEPT ![Address(c)].ttl = TRUE]
           /\ varify' = [varify EXCEPT ![c].pc = "mail"]
  <2> DEFINE v == [varify[c] EXCEPT !.pc = "mail"]
  <2>1. varify[c] \in VarifyType /\ Address(c) \in Emails
    BY <1>1, VarifyCaller
  <2>2. MadeFor(varify[c].code, Address(c), issued)
    BY <1>1 DEF IInv, EachInv, TableInv, Coded, Address
  <2>3. varify' = [varify EXCEPT ![c] = v]
    BY <1>4 DEF IInv, TypesInv
  <2>4. v \in VarifyType /\ v.pc = "mail" /\ v.code = varify[c].code
    BY <2>1 DEF VarifyType
  <2> HIDE DEF v
  <2>5. codes \in [Emails -> CodeType]
    BY DEF IInv, TypesInv
  <2>6. codes' \in [Emails -> CodeType] /\ \A e \in Emails : codes'[e].code = codes[e].code
    BY <1>4, <2>1, <2>5 DEF CodeType
  <2>7. IssuedGrows /\ mailed' \in [Emails -> Nat] /\ issued' = issued
    BY <1>1 DEF IssuedGrows, IInv, TypesInv
  <2>8. CodesInv'
    BY <1>1, <2>6 DEF IInv, CodesInv
  <2>9. KeptOnce(varify[c])
    BY <1>1 DEF KeptOnce
  <2>. QED
    BY <1>1, <1>2, <2>1, <2>2, <2>3, <2>4, <2>6, <2>7, <2>8, <2>9, VarifyCallStep
<1>. QED
  BY <1>3, <1>4 DEF RedisExpire

LEMMA SendMailStep ==
  ASSUME IInv, NEW c \in Conns, SendMail(c)
  PROVE  IInv'
<1>1. varify[c].pc = "mail" /\ UNCHANGED varifyRest /\ UNCHANGED <<codes, issued>>
  BY DEF SendMail
<1>2. Counted
  BY FaultCounts DEF SendMail, IInv
<1>3. CASE VarifyDone(c, "Exception") /\ UNCHANGED mailed
  BY <1>1, <1>2, <1>3, VarifyFails
<1>4. CASE VarifyDone(c, "ok") /\ mailed' = [mailed EXCEPT ![Address(c)] = varify[c].code]
  <2> DEFINE v == [varify[c] EXCEPT !.pc = "done", !.error = "ok"]
  <2>1. varify[c] \in VarifyType /\ Address(c) \in Emails
    BY <1>1, VarifyCaller
  <2>2. MadeFor(varify[c].code, Address(c), issued)
    BY <1>1 DEF IInv, EachInv, TableInv, Coded, Address
  <2>3. varify' = [varify EXCEPT ![c] = v]
    BY <1>4 DEF VarifyDone, IInv, TypesInv
  <2>4. "ok" \in Outs \ {"UserExist"}
    BY DEF Outs
  <2>5. v \in VarifyType /\ v.pc = "done" /\ v.code = varify[c].code /\ varify[c].code \in Nat
    BY <2>1, <2>4 DEF VarifyType
  <2> HIDE DEF v
  <2>6. /\ codes' \in [Emails -> CodeType] /\ codes' = codes
        /\ mailed' \in [Emails -> Nat]
        /\ \A e \in Emails : mailed'[e] \in {mailed[e], varify[c].code}
    BY <1>1, <1>4, <2>5 DEF IInv, TypesInv
  <2>7. IssuedGrows /\ issued' = issued
    BY <1>1 DEF IssuedGrows
  <2>8. CodesInv'
    <3>1. \A e \in Emails : mailed'[e] \in DOMAIN issued
      BY <2>2, <2>6 DEF MadeFor, IInv, CodesInv
    <3>. QED
      BY <1>1, <3>1 DEF IInv, CodesInv
  <2>9. KeptOnce(varify[c])
    BY <1>1 DEF KeptOnce
  <2>. QED
    BY <1>1, <1>2, <2>2, <2>3, <2>5, <2>6, <2>7, <2>8, <2>9, VarifyCallStep
<1>. QED
  BY <1>3, <1>4 DEF SendMail

\* A code that expires is no longer live; it stays the one that was kept.
LEMMA CodeExpiresStep ==
  ASSUME IInv, NEW a \in Emails, CodeExpires(a)
  PROVE  IInv'
<1>1. Counted
  BY FaultCounts DEF CodeExpires, IInv
<1>2. /\ UNCHANGED <<gate, con, call, users, dialog, issued, mailed, varify>>
      /\ UNCHANGED <<chat, lease, registry>> /\ UNCHANGED <<call, chat>> /\ token' = token
      /\ UNCHANGED <<queue, running, outstanding>>
  BY DEF CodeExpires, varifyRest, gateVars, dirData
<1>3. codes' \in [Emails -> CodeType] /\ \A e \in Emails : codes'[e].code = codes[e].code
  <2>1. codes \in [Emails -> CodeType]
    BY DEF IInv, TypesInv
  <2>. QED
    BY <2>1 DEF CodeExpires, CodeType
<1>4. EachInv' /\ OrderInv'
  BY <1>2 DEF IInv, EachInv, OrderInv, Finished
<1>5. KeptInv'
  <2>1. \A d \in Conns : KeptOnce(varify[d]) => Address(d) \in Emails
    BY VarifyCaller DEF KeptOnce
  <2>2. SameRequests
    BY <1>2 DEF SameRequests
  <2>. QED
    BY <1>2, <1>3, <2>1, <2>2, KeptKept DEF IInv
<1>6. TokenInv' /\ NumbersInv'
  BY <1>2 DEF IInv, TokenInv, NumbersInv, Beside
<1>7. UsersInv' /\ OwnerInv'
  BY <1>2 DEF IInv, UsersInv, Over, OwnerInv
<1>8. CodesInv'
  BY <1>2, <1>3 DEF IInv, CodesInv
<1>9. ExecInv' /\ AwayInv'
  BY <1>2, ExecKept, AwayKept DEF IInv
<1>10. TypesInv'
  BY <1>1, <1>2, <1>3 DEF IInv, TypesInv, Counted
<1>11. ServersInv'
  BY <1>1, <1>2, BoundAssumption, ServersKept DEF IInv, Counted
<1>. QED
  BY <1>4, <1>5, <1>6, <1>7, <1>8, <1>9, <1>10, <1>11 DEF IInv

-----------------------------------------------------------------------------
(* StatusServer.                                                           *)

\* A call of StatusServer belongs to a login or a reassignment.
LEMMA StatusCaller ==
  ASSUME IInv, NEW c \in Conns, call[c].pc # "none"
  PROVE  /\ call[c].uid \in Users /\ call[c] \in CallType /\ con[c].st # "free"
         /\ call[c].token = 0 => con[c].req.url = "login"
<1>1. ConInv(c, con[c]) /\ CallInv(con[c], call[c])
  BY DEF IInv, EachInv
<1>2. /\ con[c].req.url \in {"login", "reassign"} /\ call[c].uid \in Users
      /\ con[c].st \notin Ready /\ con[c].req.body = "good" /\ call[c].token = con[c].req.token
  BY <1>1 DEF CallInv, Asking, Ready, Past
<1>3. con[c].req.url = "reassign" => con[c].req.token # 0
  BY <1>1, <1>2 DEF ConInv, Shape
<1>. QED
  BY <1>2, <1>3 DEF Ready, IInv, TypesInv

statusRest == <<gateDialog, chat, registry, lease, mix>>

\* A call of StatusServer goes on; the tokens are dealt with where they change.
LEMMA StatusCallStep ==
  ASSUME IInv, NEW c \in Conns, NEW a \in CallType, call' = [call EXCEPT ![c] = a],
         call[c].pc \notin {"none", "done"}, a.pc # "none",
         a.uid = call[c].uid, a.token = call[c].token, a.away = call[c].away,
         UNCHANGED statusRest, Counted, token' \in [Users -> Nat], TokenInv', NumbersInv',
         a.wrote # 0 => a.pc = "done" /\ a.token = 0,
         a.pc = "token" => a.token = 0,
         a.pc = "done" /\ a.error = "ok" /\ a.token = 0 => a.wrote # 0,
         a.best \cap a.away = {}, a.server = None \/ a.server \notin a.away
  PROVE  IInv'
<1>1. call'[c] = a /\ \A d \in Conns \ {c} : call'[d] = call[d]
  BY DEF IInv, TypesInv
<1>2. /\ UNCHANGED <<gate, con, users, dialog, codes, issued, mailed, varify>>
      /\ UNCHANGED <<chat, lease, registry>> /\ UNCHANGED <<codes, issued, mailed>>
      /\ UNCHANGED <<queue, running, outstanding>>
  BY DEF statusRest, gateDialog, gateVars, dataVars
<1>3. /\ ConInv(c, con[c]) /\ CallInv(con[c], call[c]) /\ VarifyInv(con[c], varify[c])
      /\ TableInv(con[c], varify[c], users, issued)
  BY DEF IInv, EachInv
<1>4. SameRequests /\ Others(c) /\ RowsGrow /\ IssuedGrows
  BY <1>1, <1>2 DEF SameRequests, Others, RowsGrow, IssuedGrows
<1>5. CallInv(con[c], a)
  BY <1>3 DEF CallInv
<1>6. EachInv'
  BY <1>1, <1>2, <1>3, <1>4, <1>5, EachKept DEF IInv
<1>7. OrderInv'
  <2>1. \A d \in Conns : Finished(d) => Finished(d)'
    BY <1>1, <1>2 DEF Finished
  <2>. QED
    BY <1>2, <1>4, <2>1, OrderKept DEF IInv
<1>8. KeptInv'
  BY <1>2, <1>4, KeptKept DEF IInv
<1>9. UsersInv' /\ OwnerInv' /\ CodesInv'
  BY <1>2, <1>4, UsersKept, OwnerKept, CodesKept DEF IInv
<1>10. ExecInv'
  BY <1>2, ExecKept DEF IInv
<1>11. AwayInv'
  <2>1. \A d \in Conns : call'[d].away = call[d].away
    BY <1>1
  <2>2. chat' = chat
    BY <1>2
  <2>3. \A d \in Conns : /\ call'[d].best \cap call'[d].away = {}
                         /\ call'[d].server = None \/ call'[d].server \notin call'[d].away
    BY <1>1 DEF IInv, AwayInv
  <2>. QED
    BY <2>1, <2>2, <2>3 DEF IInv, AwayInv
<1>12. TypesInv'
  BY <1>2 DEF IInv, TypesInv, Counted
<1>13. ServersInv'
  BY <1>2, BoundAssumption, ServersKept DEF IInv, Counted
<1>. QED
  BY <1>6, <1>7, <1>8, <1>9, <1>10, <1>11, <1>12, <1>13 DEF IInv

\* The same where no token is written.
LEMMA StatusReads ==
  ASSUME IInv, NEW c \in Conns, NEW a \in CallType, call' = [call EXCEPT ![c] = a],
         call[c].pc \notin {"none", "done"}, a.pc # "none",
         a.uid = call[c].uid, a.token = call[c].token, a.away = call[c].away,
         a.wrote = call[c].wrote, UNCHANGED statusRest, Counted, token' = token,
         a.pc = "token" => a.token = 0,
         a.pc = "done" /\ a.error = "ok" => a.token # 0,
         a.best \cap a.away = {}, a.server = None \/ a.server \notin a.away
  PROVE  IInv'
<1>1. call[c].wrote = 0
  BY DEF IInv, EachInv, CallInv
<1>2. call'[c] = a /\ \A d \in Conns \ {c} : call'[d] = call[d]
  BY DEF IInv, TypesInv
<1>3. SameRequests /\ \A d \in Conns : call'[d].wrote = call[d].wrote /\ call'[d].uid = call[d].uid
  BY <1>2 DEF SameRequests, statusRest, gateDialog, gateVars
<1>4. TokenInv' /\ NumbersInv'
  BY <1>3, TokenKept, NumbersKept DEF IInv
<1>5. token' \in [Users -> Nat]
  BY DEF IInv, TypesInv
<1>. QED
  BY <1>1, <1>4, <1>5, StatusCallStep

\* What a call at work holds of the servers.
LEMMA CallHolds ==
  ASSUME IInv, NEW c \in Conns
  PROVE  /\ call[c].best \cap call[c].away = {}
         /\ call[c].server = None \/ call[c].server \notin call[c].away
         /\ \A s \in Servers : lease[s] # None => s \notin call[c].away
<1>1. \A s \in call[c].away : chat[s].st = "down" /\ chat[s].clean
  BY DEF IInv, AwayInv
<1>2. \A s \in Servers : lease[s] # None => ~(chat[s].st = "down" /\ chat[s].clean)
  BY DEF IInv, ServersInv
<1>. QED
  BY <1>1, <1>2 DEF IInv, AwayInv

LEMMA ReplyStep ==
  ASSUME IInv, NEW c \in Conns, NEW error \in Outs, error # "ok", Reply(c, error),
         call[c].pc \notin {"none", "done"}, UNCHANGED statusRest, token' = token, Counted
  PROVE  IInv'
<1> DEFINE a == [call[c] EXCEPT !.pc = "done", !.error = error]
<1>1. call[c] \in CallType
  BY StatusCaller
<1>2. call' = [call EXCEPT ![c] = a]
  BY DEF Reply, IInv, TypesInv
<1>3. /\ a \in CallType /\ a.pc = "done" /\ a.error = error /\ a.uid = call[c].uid
      /\ a.token = call[c].token /\ a.away = call[c].away /\ a.wrote = call[c].wrote
      /\ a.best = call[c].best /\ a.server = call[c].server
  BY <1>1 DEF CallType
<1> HIDE DEF a
<1>. QED
  BY <1>2, <1>3, CallHolds, StatusReads

LEMMA CheckTokenStep ==
  ASSUME IInv, NEW c \in Conns, CheckToken(c), UNCHANGED gateDialog
  PROVE  IInv'
<1>1. call[c].pc = "check" /\ UNCHANGED statusRest /\ token' = token
  BY DEF CheckToken, statusRest
<1>2. Counted
  BY FaultCounts DEF CheckToken, IInv
<1>3. CASE Reply(c, "UidInvalid") \/ Reply(c, "TokenInvalid")
  <2>1. "UidInvalid" \in Outs /\ "TokenInvalid" \in Outs
    BY DEF Outs
  <2>. QED
    BY <1>1, <1>2, <1>3, <2>1, ReplyStep
<1>4. CASE call' = [call EXCEPT ![c].pc = "list"]
  <2> DEFINE a == [call[c] EXCEPT !.pc = "list"]
  <2>1. call[c] \in CallType
    BY <1>1, StatusCaller
  <2>2. call' = [call EXCEPT ![c] = a]
    BY <1>4 DEF IInv, TypesInv
  <2>3. /\ a \in CallType /\ a.pc = "list" /\ a.uid = call[c].uid
        /\ a.token = call[c].token /\ a.away = call[c].away /\ a.wrote = call[c].wrote
        /\ a.best = call[c].best /\ a.server = call[c].server
    BY <2>1 DEF CallType
  <2> HIDE DEF a
  <2>. QED
    BY <1>1, <1>2, <2>2, <2>3, CallHolds, StatusReads
<1>. QED
  BY <1>3, <1>4 DEF CheckToken

LEMMA HGetAllStep ==
  ASSUME IInv, NEW c \in Conns, HGetAll(c), UNCHANGED gateDialog
  PROVE  IInv'
<1>1. call[c].pc = "list" /\ UNCHANGED statusRest /\ token' = token
  BY DEF HGetAll, statusRest
<1>2. Counted
  BY FaultCounts DEF HGetAll, IInv
<1>3. CASE Reply(c, "NoAvailableChatServer")
  <2>1. "NoAvailableChatServer" \in Outs
    BY DEF Outs
  <2>. QED
    BY <1>1, <1>2, <1>3, <2>1, ReplyStep
<1>4. CASE call' = [call EXCEPT ![c].pc = "lease", ![c].seen = registry]
  <2> DEFINE a == [call[c] EXCEPT !.pc = "lease", !.seen = registry]
  <2>1. call[c] \in CallType /\ registry \subseteq Servers
    BY <1>1, StatusCaller DEF IInv, TypesInv
  <2>2. call' = [call EXCEPT ![c] = a]
    BY <1>4 DEF IInv, TypesInv
  <2>3. /\ a \in CallType /\ a.pc = "lease" /\ a.uid = call[c].uid
        /\ a.token = call[c].token /\ a.away = call[c].away /\ a.wrote = call[c].wrote
        /\ a.best = call[c].best /\ a.server = call[c].server
    BY <2>1 DEF CallType
  <2> HIDE DEF a
  <2>. QED
    BY <1>1, <1>2, <2>2, <2>3, CallHolds, StatusReads
<1>. QED
  BY <1>3, <1>4 DEF HGetAll

LEMMA ReadLeaseStep ==
  ASSUME IInv, NEW c \in Conns, ReadLease(c), UNCHANGED gateDialog
  PROVE  IInv'
<1> DEFINE s == CHOOSE r \in call[c].seen : TRUE
           lower == call[c].best = {} \/ lease[s] < call[c].least
           best == IF lower THEN {s}
                   ELSE IF lease[s] = call[c].least THEN call[c].best \cup {s} ELSE call[c].best
           least == IF lower THEN lease[s] ELSE call[c].least
<1>1. call[c].pc = "lease" /\ UNCHANGED statusRest /\ token' = token /\ call[c] \in CallType
  BY StatusCaller DEF ReadLease, statusRest
<1>2. Counted
  BY FaultCounts DEF ReadLease, IInv
<1>3. s \in Servers
  <2>1. s \in call[c].seen
    BY DEF ReadLease
  <2>. QED
    BY <1>1, <2>1 DEF CallType
<1> HIDE DEF s
<1>4. CASE Skip(c, s)
  <2> DEFINE a == [call[c] EXCEPT !.seen = call[c].seen \ {s}]
  <2>1. call' = [call EXCEPT ![c] = a]
    BY <1>4 DEF Skip, IInv, TypesInv
  <2>2. /\ a \in CallType /\ a.pc = call[c].pc /\ a.uid = call[c].uid
        /\ a.token = call[c].token /\ a.away = call[c].away /\ a.wrote = call[c].wrote
        /\ a.best = call[c].best /\ a.server = call[c].server
    BY <1>1 DEF CallType
  <2> HIDE DEF a
  <2>. QED
    BY <1>1, <1>2, <2>1, <2>2, CallHolds, StatusReads
<1>5. CASE /\ lease[s] # None
           /\ call' = [call EXCEPT ![c].seen  = @ \ {s}, ![c].best  = best, ![c].least = least]
  <2> DEFINE a == [call[c] EXCEPT !.seen = call[c].seen \ {s}, !.best = best, !.least = least]
  <2>1. call' = [call EXCEPT ![c] = a]
    BY <1>5 DEF IInv, TypesInv
  <2>2. lease[s] \in Nat
    BY <1>3, <1>5 DEF IInv, TypesInv
  <2>3. best \subseteq call[c].best \cup {s} /\ least \in Nat
    BY <1>1, <2>2 DEF CallType
  <2> HIDE DEF best, least
  <2>4. /\ a \in CallType /\ a.pc = call[c].pc /\ a.uid = call[c].uid
        /\ a.token = call[c].token /\ a.away = call[c].away /\ a.wrote = call[c].wrote
        /\ a.best = best /\ a.server = call[c].server
    <3>1. best \in SUBSET Servers
      BY <1>1, <1>3, <2>3 DEF CallType
    <3>. QED
      BY <1>1, <2>3, <3>1 DEF CallType
  <2> HIDE DEF a
  <2>5. a.best \cap a.away = {}
    BY <1>3, <1>5, <2>3, <2>4, CallHolds
  <2>. QED
    BY <1>1, <1>2, <2>1, <2>4, <2>5, CallHolds, StatusReads
<1>6. Skip(c, s) \/ (/\ lease[s] # None
                     /\ call' = [call EXCEPT ![c].seen  = @ \ {s}, ![c].best  = best,
                                             ![c].least = least])
  BY DEF ReadLease, s
<1>. QED
  BY <1>4, <1>5, <1>6

LEMMA ChooseStep ==
  ASSUME IInv, NEW c \in Conns, Choose(c), UNCHANGED gateDialog
  PROVE  IInv'
<1>1. call[c].pc = "lease" /\ UNCHANGED statusRest /\ token' = token /\ call[c] \in CallType
  BY StatusCaller DEF Choose, statusRest
<1>2. Counted
  BY FaultCounts DEF Choose, IInv
<1>3. CASE Reply(c, "NoAvailableChatServer")
  <2>1. "NoAvailableChatServer" \in Outs
    BY DEF Outs
  <2>. QED
    BY <1>1, <1>2, <1>3, <2>1, ReplyStep
<1>4. ASSUME NEW s \in call[c].best,
             call' = [call EXCEPT ![c].server = s,
                                  ![c].pc = IF call[c].token = 0 THEN "token" ELSE "done",
                                  ![c].error = IF call[c].token = 0 THEN "none" ELSE "ok"]
      PROVE  IInv'
  <2> DEFINE pc == IF call[c].token = 0 THEN "token" ELSE "done"
             error == IF call[c].token = 0 THEN "none" ELSE "ok"
             a == [call[c] EXCEPT !.server = s, !.pc = pc, !.error = error]
  <2>1. call' = [call EXCEPT ![c] = a]
    BY <1>4 DEF IInv, TypesInv
  <2>2. error \in Outs /\ s \in Servers
    BY <1>1, <1>4 DEF Outs, CallType
  <2>3. /\ a \in CallType /\ a.pc = pc /\ a.uid = call[c].uid /\ a.error = error
        /\ a.token = call[c].token /\ a.away = call[c].away /\ a.wrote = call[c].wrote
        /\ a.best = call[c].best /\ a.server = s
    BY <1>1, <1>4, <2>2 DEF CallType
  <2> HIDE DEF a
  <2>4. a.best \cap a.away = {} /\ a.server \notin a.away
    BY <2>3, CallHolds
  <2>5. /\ a.pc # "none" /\ (a.pc = "token" => a.token = 0)
        /\ a.pc = "done" /\ a.error = "ok" => a.token # 0
    BY <2>3
  <2> HIDE DEF pc, error
  <2>. QED
    BY <1>1, <1>2, <2>1, <2>3, <2>4, <2>5, StatusReads
<1>5. \/ Reply(c, "NoAvailableChatServer")
      \/ \E s \in call[c].best :
           call' = [call EXCEPT ![c].server = s,
                                ![c].pc = IF call[c].token = 0 THEN "token" ELSE "done",
                                ![c].error = IF call[c].token = 0 THEN "none" ELSE "ok"]
  BY DEF Choose
<1>. QED
  BY <1>3, <1>4, <1>5

LEMMA SetExStep ==
  ASSUME IInv, NEW c \in Conns, SetEx(c), UNCHANGED gateDialog
  PROVE  IInv'
<1>1. call[c].pc = "token" /\ UNCHANGED statusRest /\ call[c] \in CallType
  BY StatusCaller DEF SetEx, statusRest
<1>2. Counted
  BY FaultCounts DEF SetEx, IInv
<1>3. CASE Reply(c, "RPCFailed") /\ token' = token
  <2>1. "RPCFailed" \in Outs
    BY DEF Outs
  <2>. QED
    BY <1>1, <1>2, <1>3, <2>1, ReplyStep
<1>4. CASE /\ token' = [token EXCEPT ![call[c].uid] = Issued + 1]
           /\ call' = [call EXCEPT ![c].pc = "done", ![c].error = "ok", ![c].wrote = Issued + 1]
  <2> DEFINE a == [call[c] EXCEPT !.pc = "done", !.error = "ok", !.wrote = Issued + 1]
  <2>1. call' = [call EXCEPT ![c] = a]
    BY <1>4 DEF IInv, TypesInv
  <2>2. /\ Issued \in Nat /\ \A u \in Users : token[u] <= Issued
        /\ \A d \in Conns : call[d].wrote <= Issued
    BY IssuedLargest DEF IInv
  <2>3. "ok" \in Outs
    BY DEF Outs
  <2>4. Issued + 1 \in Nat /\ Issued + 1 # 0
    BY <2>2
  <2>5. /\ a \in CallType /\ a.pc = "done" /\ a.uid = call[c].uid /\ a.error = "ok"
        /\ a.token = call[c].token /\ a.away = call[c].away /\ a.wrote = Issued + 1
        /\ a.best = call[c].best /\ a.server = call[c].server
    BY <1>1, <2>3, <2>4 DEF CallType
  <2> HIDE DEF a
  <2>6. call'[c] = a /\ \A d \in Conns \ {c} : call'[d] = call[d]
    BY <2>1 DEF IInv, TypesInv
  <2>7. /\ call[c].uid \in Users /\ call[c].token = 0 /\ con[c].req.url = "login"
    BY <1>1, StatusCaller DEF IInv, EachInv, CallInv
  <2>8. /\ token' \in [Users -> Nat] /\ token'[call[c].uid] = Issued + 1
        /\ \A u \in Users : u # call[c].uid => token'[u] = token[u]
    BY <1>4, <2>4, <2>7 DEF IInv, TypesInv
  <2>9. con' = con
    BY <1>1 DEF statusRest, gateDialog, gateVars
  <2>10. TokenInv'
    <3> SUFFICES ASSUME NEW d \in Conns, call'[d].wrote # 0
                 PROVE  \/ token'[call'[d].uid] \in {call'[d].wrote, 0}
                        \/ \E x \in Conns : /\ Beside(x, d) /\ con[x].req.url = "login"
                                            /\ call'[x].wrote # 0
      BY <2>9 DEF TokenInv, Beside
    <3>1. CASE d = c
      BY <2>5, <2>6, <2>8, <3>1
    <3>2. CASE d # c
      <4>1. call'[d] = call[d] /\ call[d].wrote # 0
        BY <2>6, <3>2
      <4>2. call[d].pc # "none"
        BY <4>1 DEF IInv, EachInv, CallInv
      <4>3. call[d].uid \in Users /\ con[d].st # "free"
        BY <4>2, StatusCaller
      <4>4. ~Finished(c)
        BY <1>1 DEF Finished
      <4>5. Beside(c, d)
        BY <3>2, <4>3, <4>4, BesideAtWork
      <4>. QED
        BY <2>4, <2>5, <2>6, <2>7, <4>5
    <3>. QED
      BY <3>1, <3>2
  <2>11. NumbersInv'
    <3>1. \A u \in Users : token'[u] <= Issued + 1
      <4>1. \A u \in Users : token[u] \in Nat
        BY DEF IInv, TypesInv
      <4>. QED
        BY <2>2, <2>8, <4>1
    <3>2. \A d \in Conns : call'[d].wrote <= Issued + 1
      <4>1. \A d \in Conns : call[d].wrote \in Nat
        BY DEF IInv, TypesInv, CallType
      <4>. QED
        BY <2>2, <2>5, <2>6, <4>1
    <3>. QED
      BY <2>4, <3>1, <3>2 DEF NumbersInv
  <2>. QED
    BY <1>1, <1>2, <2>1, <2>4, <2>5, <2>7, <2>8, <2>10, <2>11, CallHolds, StatusCallStep
<1>. QED
  BY <1>3, <1>4 DEF SetEx

-----------------------------------------------------------------------------
(* The chat servers, and tokens that expire.                               *)

\* The calls keep all but the servers known to have left.
SameCalls ==
  \A d \in Conns :
    /\ call'[d].pc = call[d].pc /\ call'[d].uid = call[d].uid /\ call'[d].token = call[d].token
    /\ call'[d].best = call[d].best /\ call'[d].server = call[d].server
    /\ call'[d].error = call[d].error /\ call'[d].wrote = call[d].wrote
    /\ call'[d].away \subseteq call[d].away

\* A step of a chat server, or a token's end, changes nothing at the Gate.
LEMMA ServersOnly ==
  ASSUME IInv, UNCHANGED gateDialog, SameCalls, call' \in [Conns -> CallType],
         token' \in [Users -> Nat], \A u \in Users : token'[u] \in {token[u], 0},
         Counted, chat' \in [Servers -> ServerType], registry' \subseteq Servers,
         lease' \in [Servers -> Nat \cup {None}], ServersInv', AwayInv'
  PROVE  IInv'
<1>1. /\ UNCHANGED <<gate, con, users, dialog, codes, issued, mailed, varify>>
      /\ UNCHANGED <<codes, issued, mailed>> /\ UNCHANGED <<queue, running, outstanding>>
  BY DEF gateDialog, gateVars, dataVars
<1>2. SameRequests
  BY <1>1 DEF SameRequests
<1>3. EachInv'
  <2>1. \A d \in Conns : CallInv(con[d], call[d]) => CallInv(con[d], call'[d])
    BY DEF CallInv, SameCalls
  <2>. QED
    BY <1>1, <2>1 DEF IInv, EachInv
<1>4. OrderInv'
  <2>1. \A d \in Conns : Finished(d) => Finished(d)'
    BY <1>1 DEF Finished, SameCalls
  <2>. QED
    BY <1>1, <1>2, <2>1, OrderKept DEF IInv
<1>5. KeptInv'
  BY <1>1, <1>2, KeptKept DEF IInv
<1>6. TokenInv'
  <2> SUFFICES ASSUME NEW d \in Conns, call'[d].wrote # 0
               PROVE  \/ token'[call'[d].uid] \in {call'[d].wrote, 0}
                      \/ \E x \in Conns : /\ Beside(x, d) /\ con[x].req.url = "login"
                                          /\ call'[x].wrote # 0
    BY <1>1 DEF TokenInv, Beside
  <2>1. call[d].wrote # 0 /\ call'[d].wrote = call[d].wrote /\ call'[d].uid = call[d].uid
    BY DEF SameCalls
  <2>2. call[d].uid \in Users
    <3>1. call[d].pc # "none"
      BY <2>1 DEF IInv, EachInv, CallInv
    <3>. QED
      BY <3>1, StatusCaller
  <2>3. CASE token[call[d].uid] \in {call[d].wrote, 0}
    BY <2>1, <2>2, <2>3
  <2>4. CASE \E x \in Conns : Beside(x, d) /\ con[x].req.url = "login" /\ call[x].wrote # 0
    BY <2>4 DEF SameCalls
  <2>. QED
    BY <2>1, <2>3, <2>4 DEF IInv, TokenInv
<1>7. NumbersInv'
  BY NumbersKept DEF IInv, SameCalls
<1>8. UsersInv' /\ OwnerInv' /\ CodesInv'
  <2>1. IssuedGrows
    BY <1>1 DEF IssuedGrows
  <2>. QED
    BY <1>1, <2>1, UsersKept, OwnerKept, CodesKept DEF IInv
<1>9. ExecInv'
  BY <1>1, ExecKept DEF IInv
<1>10. TypesInv'
  BY <1>1 DEF IInv, TypesInv, Counted
<1>. QED
  BY <1>3, <1>4, <1>5, <1>6, <1>7, <1>8, <1>9, <1>10 DEF IInv

\* The same for a step of the servers that leaves the calls and tokens alone.
LEMMA ServerChanges ==
  ASSUME IInv, UNCHANGED gateDialog, UNCHANGED <<call, token>>,
         Counted, chat' \in [Servers -> ServerType], registry' \subseteq Servers,
         lease' \in [Servers -> Nat \cup {None}], ServersInv',
         \A s \in Servers : chat[s].st = "down" /\ chat[s].clean => chat'[s] = chat[s]
  PROVE  IInv'
<1>1. SameCalls
  BY DEF SameCalls
<1>2. /\ call' \in [Conns -> CallType] /\ token' \in [Users -> Nat]
      /\ \A u \in Users : token'[u] \in {token[u], 0}
  BY DEF IInv, TypesInv
<1>3. AwayInv'
  <2>1. \A c \in Conns : call[c].away \subseteq Servers
    BY DEF IInv, TypesInv, CallType
  <2>2. \A c \in Conns : \A s \in call[c].away : chat'[s].st = "down" /\ chat'[s].clean
    BY <2>1 DEF IInv, AwayInv
  <2>. QED
    BY <2>2 DEF IInv, AwayInv
<1>. QED
  BY <1>1, <1>2, <1>3, ServersOnly

\* One chat server changes, with its registration and its lease.
LEMMA ServerStepKeeps ==
  ASSUME IInv, UNCHANGED gateDialog, UNCHANGED <<call, token>>, Counted,
         NEW s \in Servers, NEW h \in ServerType, NEW l \in Nat \cup {None},
         chat' = [chat EXCEPT ![s] = h], lease' = [lease EXCEPT ![s] = l],
         registry' \subseteq registry \cup {s}, chat[s].st = "down" => h = chat[s],
         h.load <= faults', l = None \/ l <= faults',
         h.st = "down" /\ h.clean => s \notin registry' /\ l = None
  PROVE  IInv'
<1>1. /\ chat \in [Servers -> ServerType] /\ lease \in [Servers -> Nat \cup {None}]
      /\ registry \subseteq Servers
  BY DEF IInv, TypesInv
<1>2. /\ chat'[s] = h /\ lease'[s] = l
      /\ \A x \in Servers \ {s} : chat'[x] = chat[x] /\ lease'[x] = lease[x]
  BY <1>1
<1>3. /\ chat' \in [Servers -> ServerType] /\ lease' \in [Servers -> Nat \cup {None}]
      /\ registry' \subseteq Servers
  BY <1>1
<1>4. faults \in Nat /\ faults' \in Nat /\ faults <= faults'
  BY BoundAssumption DEF IInv, TypesInv, Counted
<1>5. ServersInv'
  <2> SUFFICES ASSUME NEW x \in Servers
               PROVE  /\ chat'[x].load <= faults'
                      /\ lease'[x] = None \/ lease'[x] \in 0 .. faults'
                      /\ chat'[x].st = "down" /\ chat'[x].clean =>
                           x \notin registry' /\ lease'[x] = None
    BY DEF ServersInv
  <2>1. CASE x = s
    BY <1>2, <1>4, <2>1
  <2>2. CASE x # s
    <3>1. /\ chat[x].load <= faults /\ (lease[x] = None \/ lease[x] \in 0 .. faults)
          /\ chat[x].st = "down" /\ chat[x].clean => x \notin registry /\ lease[x] = None
      BY DEF IInv, ServersInv
    <3>2. chat[x].load \in Nat
      BY <1>1 DEF ServerType
    <3>. QED
      BY <1>2, <1>4, <2>2, <3>1, <3>2
  <2>. QED
    BY <2>1, <2>2
<1>6. \A x \in Servers : chat[x].st = "down" /\ chat[x].clean => chat'[x] = chat[x]
  BY <1>2
<1>. QED
  BY <1>3, <1>5, <1>6, ServerChanges

LEMMA ServerSteps ==
  ASSUME IInv, UNCHANGED gateDialog, NEW s \in Servers,
         \/ SessionsChange(s) \/ ReportLease(s) \/ LeaseExpires(s)
         \/ Crash(s) \/ Shutdown(s) \/ Leave(s)
  PROVE  IInv'
<1>1. UNCHANGED <<call, token>> /\ Counted
  BY FaultCounts DEF IInv, SessionsChange, ReportLease, LeaseExpires, Crash, Shutdown, Leave
<1>2. /\ chat \in [Servers -> ServerType] /\ lease \in [Servers -> Nat \cup {None}]
      /\ chat[s] \in ServerType /\ lease[s] \in Nat \cup {None}
      /\ faults \in Nat /\ faults' \in Nat /\ faults <= faults'
  BY <1>1, BoundAssumption DEF IInv, TypesInv, Counted
<1>3. /\ chat[s].load <= faults /\ (lease[s] = None \/ lease[s] \in 0 .. faults)
      /\ chat[s].st = "down" /\ chat[s].clean => s \notin registry /\ lease[s] = None
  BY DEF IInv, ServersInv
<1>4. chat[s].load \in Nat /\ chat[s].clean \in BOOLEAN /\ chat[s].st \in {"up", "ending", "down"}
  BY <1>2 DEF ServerType
<1>5. chat[s].load <= faults' /\ (lease[s] = None \/ lease[s] <= faults')
  BY <1>2, <1>3, <1>4
<1>6. chat = [chat EXCEPT ![s] = chat[s]] /\ lease = [lease EXCEPT ![s] = lease[s]]
  BY <1>2
<1>7. CASE SessionsChange(s)
  <2> DEFINE h == [chat[s] EXCEPT !.load = chat[s].load + 1]
  <2>1. h \in ServerType /\ h.load = chat[s].load + 1 /\ h.st = "up"
    BY <1>2, <1>4, <1>7 DEF SessionsChange, ServerType
  <2>2. chat' = [chat EXCEPT ![s] = h] /\ lease' = lease /\ registry' = registry
    BY <1>2, <1>7 DEF SessionsChange
  <2>3. faults' = faults + 1 /\ chat[s].st = "up"
    BY <1>7 DEF SessionsChange, Fault
  <2> HIDE DEF h
  <2>4. h.load <= faults'
    BY <1>2, <1>3, <1>4, <2>1, <2>3
  <2>. QED
    BY <1>1, <1>2, <1>5, <1>6, <2>1, <2>2, <2>3, <2>4, ServerStepKeeps
<1>8. CASE ReportLease(s)
  <2>1. chat[s].st = "up" /\ chat' = chat /\ registry' \subseteq registry \cup {s}
    BY <1>8 DEF ReportLease
  <2>2. lease' = [lease EXCEPT ![s] = chat[s].load] \/ lease' = lease
    BY <1>8 DEF ReportLease
  <2>3. CASE lease' = [lease EXCEPT ![s] = chat[s].load]
    BY <1>1, <1>2, <1>4, <1>5, <1>6, <2>1, <2>3, ServerStepKeeps
  <2>4. CASE lease' = lease
    BY <1>1, <1>2, <1>4, <1>5, <1>6, <2>1, <2>4, ServerStepKeeps
  <2>. QED
    BY <2>2, <2>3, <2>4
<1>9. CASE LeaseExpires(s)
  <2>1. chat' = chat /\ registry' = registry /\ lease' = [lease EXCEPT ![s] = None]
    BY <1>9 DEF LeaseExpires
  <2>. QED
    BY <1>1, <1>2, <1>3, <1>5, <1>6, <2>1, ServerStepKeeps
<1>10. CASE Crash(s)
  <2> DEFINE h == [st |-> "down", load |-> 0, clean |-> FALSE]
  <2>1. h \in ServerType /\ h.load = 0 /\ ~h.clean
    BY DEF ServerType
  <2>2. /\ chat' = [chat EXCEPT ![s] = h] /\ lease' = lease /\ registry' = registry
        /\ chat[s].st = "up"
    BY <1>10 DEF Crash
  <2> HIDE DEF h
  <2>3. /\ h.load <= faults' /\ lease' = [lease EXCEPT ![s] = lease[s]]
        /\ registry' \subseteq registry \cup {s}
        /\ chat[s].st # "down" /\ ~(h.st = "down" /\ h.clean)
    BY <1>2, <1>6, <2>1, <2>2
  <2>. QED
    BY <1>1, <1>2, <1>5, <2>1, <2>2, <2>3, ServerStepKeeps
<1>11. CASE Shutdown(s)
  <2> DEFINE h == [chat[s] EXCEPT !.st = "ending", !.load = 0]
  <2>1. h \in ServerType /\ h.load = 0 /\ h.st = "ending"
    BY <1>2 DEF ServerType
  <2>2. /\ chat' = [chat EXCEPT ![s] = h] /\ lease' = lease /\ registry' = registry
        /\ chat[s].st = "up"
    BY <1>2, <1>11 DEF Shutdown
  <2> HIDE DEF h
  <2>3. /\ h.load <= faults' /\ lease' = [lease EXCEPT ![s] = lease[s]]
        /\ registry' \subseteq registry \cup {s}
        /\ chat[s].st # "down" /\ ~(h.st = "down" /\ h.clean)
    BY <1>2, <1>6, <2>1, <2>2
  <2>. QED
    BY <1>1, <1>2, <1>5, <2>1, <2>2, <2>3, ServerStepKeeps
<1>12. CASE Leave(s)
  <2> DEFINE h == [chat[s] EXCEPT !.st = "down", !.clean = TRUE]
  <2>1. h \in ServerType /\ h.load = chat[s].load
    BY <1>2 DEF ServerType
  <2>2. /\ chat' = [chat EXCEPT ![s] = h] /\ lease' = [lease EXCEPT ![s] = None]
        /\ registry' = registry \ {s} /\ chat[s].st = "ending"
    BY <1>2, <1>12 DEF Leave
  <2> HIDE DEF h
  <2>. QED
    BY <1>1, <1>2, <1>5, <2>1, <2>2, ServerStepKeeps
<1>. QED
  BY <1>7, <1>8, <1>9, <1>10, <1>11, <1>12

LEMMA StartAgainStep ==
  ASSUME IInv, UNCHANGED gateDialog, NEW s \in Servers, StartAgain(s)
  PROVE  IInv'
<1> DEFINE h == [chat[s] EXCEPT !.st = "up", !.clean = FALSE]
<1>1. /\ chat \in [Servers -> ServerType] /\ chat[s] \in ServerType
      /\ call \in [Conns -> CallType]
  BY DEF IInv, TypesInv
<1>2. h \in ServerType /\ h.load = chat[s].load /\ h.st = "up"
  BY <1>1 DEF ServerType
<1>3. /\ chat' = [chat EXCEPT ![s] = h] /\ UNCHANGED <<registry, lease, token, faults>>
      /\ call' = [d \in Conns |-> [call[d] EXCEPT !.away = call[d].away \ {s}]]
  BY <1>1 DEF StartAgain
<1> HIDE DEF h
<1>4. chat'[s] = h /\ \A x \in Servers \ {s} : chat'[x] = chat[x]
  BY <1>1, <1>3
<1>5. ASSUME NEW d \in Conns
      PROVE  /\ call'[d] \in CallType /\ call'[d].away = call[d].away \ {s}
             /\ call'[d].pc = call[d].pc /\ call'[d].uid = call[d].uid
             /\ call'[d].token = call[d].token
             /\ call'[d].best = call[d].best /\ call'[d].server = call[d].server
             /\ call'[d].error = call[d].error /\ call'[d].wrote = call[d].wrote
  <2>1. call[d] \in CallType /\ call'[d] = [call[d] EXCEPT !.away = call[d].away \ {s}]
    BY <1>1, <1>3
  <2>. QED
    BY <2>1 DEF CallType
<1>6. SameCalls /\ call' \in [Conns -> CallType]
  <2>1. DOMAIN call' = Conns /\ call' = [d \in Conns |-> call'[d]]
    BY <1>3
  <2>. QED
    BY <1>5, <2>1 DEF SameCalls
<1>7. Counted
  BY <1>3, FaultCounts DEF IInv
<1>8. /\ token' \in [Users -> Nat] /\ (\A u \in Users : token'[u] \in {token[u], 0})
      /\ chat' \in [Servers -> ServerType] /\ registry' \subseteq Servers
      /\ lease' \in [Servers -> Nat \cup {None}]
  BY <1>1, <1>2, <1>3 DEF IInv, TypesInv
<1>9. ServersInv'
  <2>1. \A x \in Servers : /\ chat'[x].load = chat[x].load
                           /\ chat'[x].st = "down" => chat'[x] = chat[x]
    BY <1>2, <1>4
  <2>. QED
    BY <1>3, <2>1 DEF IInv, ServersInv
<1>10. AwayInv'
  <2> SUFFICES ASSUME NEW d \in Conns
               PROVE  /\ \A x \in call'[d].away : chat'[x].st = "down" /\ chat'[x].clean
                      /\ call'[d].best \cap call'[d].away = {}
                      /\ call'[d].server = None \/ call'[d].server \notin call'[d].away
    BY DEF AwayInv
  <2>1. /\ \A x \in call[d].away : chat[x].st = "down" /\ chat[x].clean
        /\ call[d].best \cap call[d].away = {}
        /\ call[d].server = None \/ call[d].server \notin call[d].away
    BY DEF IInv, AwayInv
  <2>2. call[d].away \subseteq Servers
    BY <1>1 DEF CallType
  <2>. QED
    BY <1>4, <1>5, <2>1, <2>2
<1>. QED
  BY <1>6, <1>7, <1>8, <1>9, <1>10, ServersOnly

LEMMA TokenExpiresStep ==
  ASSUME IInv, UNCHANGED gateDialog, NEW u \in Users, TokenExpires(u)
  PROVE  IInv'
<1>1. UNCHANGED <<chat, registry, lease, call>> /\ token' = [token EXCEPT ![u] = 0] /\ Counted
  BY FaultCounts DEF TokenExpires, IInv
<1>2. /\ call' \in [Conns -> CallType] /\ token' \in [Users -> Nat]
      /\ \A x \in Users : token'[x] \in {token[x], 0}
      /\ chat' \in [Servers -> ServerType] /\ registry' \subseteq Servers
      /\ lease' \in [Servers -> Nat \cup {None}]
  BY <1>1 DEF IInv, TypesInv
<1>3. SameCalls
  BY <1>1 DEF SameCalls
<1>4. ServersInv' /\ AwayInv'
  BY <1>1, BoundAssumption, ServersKept, AwayKept DEF IInv, Counted
<1>. QED
  BY <1>1, <1>2, <1>3, <1>4, ServersOnly

-----------------------------------------------------------------------------
(* The invariant and what follows from it.                                 *)

\* There is a first code for every address.
LEMMA FirstCodes ==
  ASSUME Init
  PROVE  issued \in Seq(Emails) /\ \A e \in Emails : \E k \in DOMAIN issued : issued[k] = e
<1> DEFINE n == Cardinality(Emails)
<1>1. n \in Nat /\ ExistsBijection(1 .. n, Emails)
  BY NamesAssumption, FS_CardinalityType
<1>2. PICK f \in [1 .. n -> Emails] : Range(f) = Emails
  BY <1>1 DEF ExistsBijection, Bijection, Surjection, Range
<1>3. issued \in [1 .. n -> Emails] /\ Range(issued) = Emails
  BY <1>2 DEF Init, AccInit
<1> HIDE DEF n
<1>4. issued \in Seq(Emails)
  BY <1>1, <1>3
<1>. QED
  BY <1>3, <1>4 DEF Range

LEMMA Initially ==
  ASSUME Init
  PROVE  IInv
<1>1. /\ gate = "up" /\ con = [c \in Conns |-> NoCon] /\ varify = [c \in Conns |-> NoVarify]
      /\ call = [c \in Conns |-> NoCall] /\ faults = 0
      /\ queue = <<>> /\ running = {} /\ outstanding = 0
      /\ dialog = [page |-> "form", left |-> Countdown]
      /\ mailed = [e \in Emails |-> codes[e].code]
      /\ codes = [e \in Emails |-> [code |-> CHOOSE k \in DOMAIN issued : issued[k] = e,
                                    live |-> mix.kept, ttl |-> TRUE]]
      /\ users = {[uid |-> 1, name |-> AName, email |-> AnEmail, pwd |-> 0]}
  BY DEF Init, AccInit, DirInit, AName, AnEmail
<1>2. \A c \in Conns : con[c] = NoCon /\ varify[c] = NoVarify /\ call[c] = NoCall
  BY <1>1
<1>3. NoCon \in ConType /\ NoVarify \in VarifyType /\ NoCall \in CallType
  <2>1. "none" \in Outs \ {"UserExist"} /\ "none" \in Urls /\ "good" \in Bodies
    BY DEF Outs, Urls, Bodies
  <2>2. NoRequest \in RequestType
    BY <2>1 DEF NoRequest, RequestType
  <2>3. NoCon \in ConType
    BY <2>1, <2>2 DEF NoCon, ConType
  <2>. QED
    BY <2>1, <2>3 DEF NoVarify, VarifyType, NoCall, CallType
<1>4. issued \in Seq(Emails) /\ \A e \in Emails :
        /\ codes[e].code \in DOMAIN issued /\ issued[codes[e].code] = e
        /\ mailed[e] = codes[e].code
  BY <1>1, FirstCodes
<1>5. CodesInv
  BY <1>4 DEF CodesInv, MadeFor
<1>6. TypesInv
  <2>1. mix.kept \in BOOLEAN
    BY MixesAssumption DEF Init, DirInit
  <2>2. \A e \in Emails : codes[e].code \in Nat
    BY <1>4
  <2>3. codes \in [Emails -> CodeType] /\ mailed \in [Emails -> Nat]
    <3>1. \A e \in Emails : codes[e] \in CodeType
      BY <1>1, <2>1, <2>2 DEF CodeType
    <3>. QED
      BY <1>1, <2>2, <3>1
  <2>4. /\ con \in [Conns -> ConType] /\ call \in [Conns -> CallType]
        /\ varify \in [Conns -> VarifyType]
    BY <1>1, <1>3
  <2>5. token \in [Users -> Nat] /\ registry \subseteq Servers
    BY DEF Init, DirInit
  <2>6. chat \in [Servers -> ServerType]
    BY DEF Init, DirInit, ServerType
  <2>7. lease \in [Servers -> Nat \cup {None}]
    BY DEF Init, DirInit
  <2>8. dialog \in [page : {"form", "tip", "login"}, left : 0 .. Countdown]
    BY <1>1, WorkersAssumption
  <2>9. faults \in 0 .. MaxFaults /\ gate \in {"up", "draining", "stopped"}
    BY <1>1, BoundAssumption
  <2>. QED
    BY <2>3, <2>4, <2>5, <2>6, <2>7, <2>8, <2>9 DEF TypesInv
<1>7. EachInv
  <2>1. /\ NoCon.st = "free" /\ NoCon.out = "none" /\ NoCon.req.url = "none"
        /\ NoVarify.pc = "none" /\ NoCall.pc = "none" /\ NoCall.best = {}
        /\ NoCall.server = None /\ NoCall.wrote = 0
    BY DEF NoCon, NoRequest, NoVarify, NoCall
  <2>2. \A c \in Conns : ConInv(c, NoCon)
    BY <2>1 DEF ConInv, Ready, Handling
  <2>3. CallInv(NoCon, NoCall) /\ VarifyInv(NoCon, NoVarify)
    BY <2>1 DEF CallInv, VarifyInv
  <2>4. TableInv(NoCon, NoVarify, users, issued)
    BY <2>1 DEF TableInv, Handling, Coded
  <2>. QED
    BY <1>2, <2>2, <2>3, <2>4 DEF EachInv
<1>8. OrderInv /\ KeptInv /\ TokenInv
  BY <1>2 DEF OrderInv, KeptInv, TokenInv, NoCon, NoVarify, NoCall, KeptOnce
<1>9. NumbersInv
  <2>1. \A u \in Users : token[u] <= 1
    BY DEF Init, DirInit
  <2>2. \A c \in Conns : call[c].wrote <= 1
    BY <1>2 DEF NoCall
  <2>. QED
    BY <2>1, <2>2 DEF NumbersInv
<1>10. ExecInv
  <2>1. \A c \in Conns : con[c].st = "free"
    BY <1>2 DEF NoCon
  <2>2. Cardinality({}) = 0
    BY FS_EmptySet
  <2>. QED
    BY <1>1, <2>1, <2>2 DEF ExecInv, IsInjective
<1>11. UsersInv /\ OwnerInv
  <2> DEFINE u == [uid |-> 1, name |-> AName, email |-> AnEmail, pwd |-> 0]
  <2>1. u \in UserType /\ u.uid = 1 /\ u.pwd = 0
    BY NamesAssumption DEF UserType, AName, AnEmail
  <2>2. users = {u}
    BY <1>1
  <2> HIDE DEF u
  <2>3. IsFiniteSet(users) /\ Cardinality(users) = 1
    BY <2>2, FS_Singleton
  <2>4. 1 <= Cardinality(Over) + 1
    BY OverFinite
  <2>. QED
    BY <2>1, <2>2, <2>3, <2>4 DEF UsersInv, OwnerInv
<1>12. ServersInv
  BY <1>1 DEF ServersInv, Init, DirInit
<1>13. AwayInv
  BY <1>2 DEF AwayInv, NoCall
<1>. QED
  BY <1>5, <1>6, <1>7, <1>8, <1>9, <1>10, <1>11, <1>12, <1>13 DEF IInv

LEMMA NextStep ==
  ASSUME IInv, [Next]_vars
  PROVE  IInv'
<1>1. CASE UNCHANGED vars
  <2>1. Counted
    BY <1>1, FaultCounts DEF IInv, vars, dirVars
  <2>2. /\ UNCHANGED <<con, call, varify, users, codes, issued, mailed, gate, dialog>>
        /\ UNCHANGED <<token, chat, registry, lease, queue, running, outstanding>>
    BY <1>1 DEF vars, dirVars, gateVars, dataVars
  <2>. QED
    BY <2>1, <2>2, Elsewhere DEF IInv, TypesInv
<1>2. ASSUME NEW c \in Conns, GateStep(c)
      PROVE  IInv'
  <2>1. CASE HandlerStep(c)
    BY <2>1, HandlerSteps
  <2>2. CASE VarifyStep(c)
    BY <2>2, GetRedisStep, SetRedisStep, RedisExpireStep, SendMailStep DEF VarifyStep
  <2>. QED
    BY <1>2, <2>1, <2>2, AcceptStep, HandleReqStep, CheckDeadlineStep, RunLoopStep,
       TaskEndsStep, PostBackStep, WrittenStep DEF GateStep
<1>3. ASSUME NEW c \in Conns, StatusStep(c), UNCHANGED gateDialog
      PROVE  IInv'
  BY <1>3, CheckTokenStep, HGetAllStep, ReadLeaseStep, ChooseStep, SetExStep DEF StatusStep
<1>4. ASSUME NEW s \in Servers, ServerStep(s), UNCHANGED gateDialog
      PROVE  IInv'
  BY <1>4, ServerSteps, StartAgainStep DEF ServerStep
<1>5. ASSUME NEW u \in Users, TokenExpires(u), UNCHANGED gateDialog
      PROVE  IInv'
  BY <1>5, TokenExpiresStep
<1>6. ASSUME NEW e \in Emails, CodeExpires(e)
      PROVE  IInv'
  BY <1>6, CodeExpiresStep
<1>. QED
  BY <1>1, <1>2, <1>3, <1>4, <1>5, <1>6, StopSignalStep, StoppedStep, DialogSteps DEF Next

(* The inductive invariant of the accounts: connections and their calls agree,
   what a handler has read stays true, and whoever overwrites a code or a token
   came later than the one that made it, or was at work when that one came.  *)
THEOREM Invariance == Spec => []IInv
<1>1. Init => IInv
  BY Initially
<1>2. IInv /\ [Next]_vars => IInv'
  BY NextStep
<1>. QED
  BY <1>1, <1>2, PTL DEF Spec

(* An account has one owner.  Two registrations may look before either inserts,
   and a code may be replaced between the check and the update; still no two
   rows share a name, an address or an id, and every password was set with a
   code made for the address of its own account.                            *)
THEOREM AlwaysOneOwner == Spec => []OneOwner
<1>1. IInv => OneOwner
  <2> SUFFICES ASSUME IInv
               PROVE  OneOwner
    OBVIOUS
  <2>1. TypeOK
    <3>1. \A c \in Conns :
            /\ con[c].st \in {"free", "reading", "queued", "handler", "post", "write", "end"}
            /\ con[c].st = "queued" <=> \E i \in DOMAIN queue : queue[i] = c
      BY DEF IInv, TypesInv, ConType, ExecInv
    <3>2. outstanding \in Nat
      <4>1. queue \in Seq(Conns) /\ running \subseteq Conns
            /\ outstanding = Len(queue) + Cardinality(running)
        BY DEF IInv, ExecInv
      <4>2. Cardinality(running) \in Nat
        BY <4>1, ConnsAssumption, FS_Subset, FS_CardinalityType
      <4>. QED
        BY <4>1, <4>2
    <3>3. \A u \in users : u.uid \in Users /\ u.name \in Names /\ u.email \in Emails
      <4>1. Cardinality(users) \in Nat /\ Cardinality(users) <= Cardinality(Conns) + 1
        <5>1. Cardinality(users) \in Nat /\ Cardinality(users) <= Cardinality(Over) + 1
          BY FS_CardinalityType DEF IInv, UsersInv
        <5>. QED
          BY <5>1, OverFinite
      <4>2. \A u \in users : u.uid \in 1 .. Cardinality(users) /\ u \in UserType
        BY DEF IInv, UsersInv
      <4>3. \A u \in users : u.uid \in Users
        BY <4>1, <4>2, UsersAssumption, OverFinite
      <4>. QED
        BY <4>2, <4>3 DEF UserType
    <3>4. \A e \in Emails : codes[e].code \in DOMAIN issued /\ mailed[e] \in DOMAIN issued
      BY DEF IInv, CodesInv, MadeFor
    <3>5. dialog.left \in 0 .. Countdown /\ gate \in {"up", "draining", "stopped"}
          /\ faults \in 0 .. MaxFaults
      BY DEF IInv, TypesInv
    <3>6. \A s \in Servers : lease[s] = None \/ lease[s] \in 0 .. MaxFaults
      BY <3>5, BoundAssumption DEF IInv, ServersInv
    <3>. QED
      BY <3>1, <3>2, <3>3, <3>4, <3>5, <3>6 DEF TypeOK
  <2>2. \A u, v \in users : u # v => u.name # v.name /\ u.email # v.email /\ u.uid # v.uid
    BY DEF IInv, UsersInv
  <2>3. \A u \in users : u.pwd # 0 => issued[con[u.pwd].req.code] = u.email
    BY DEF IInv, OwnerInv, MadeFor
  <2>. QED
    BY <2>1, <2>2, <2>3 DEF OneOwner
<1>. QED
  BY <1>1, Invariance, PTL

(* What registration and reset answer is true, whatever other requests do
   between a handler's reads and its writes.                                *)
THEOREM AnswersAlwaysTrue == Spec => []AnswerIsTrue
<1>1. IInv => AnswerIsTrue
  <2> SUFFICES ASSUME IInv, NEW c \in Conns
               PROVE  /\ con[c].out = "ok" /\ con[c].req.url = "register" =>
                           \E u \in users : u.name = con[c].req.name /\ u.email = con[c].req.email
                      /\ con[c].out = "ok" /\ con[c].req.url = "reset" => Row(con[c].req.name) # {}
                      /\ con[c].out = "UserExist" /\ ~con[c].hit =>
                           Row(con[c].req.name) \union RowOf(con[c].req.email) # {}
    BY DEF AnswerIsTrue
  <2>1. TableInv(con[c], varify[c], users, issued)
    BY DEF IInv, EachInv
  <2>. QED
    BY <2>1 DEF TableInv, Row, RowOf
<1>. QED
  BY <1>1, Invariance, PTL

(* The code a client was told is in the mail is the one kept for its address,
   unless another request for the address came later or overlapped.         *)
THEOREM MailedAlwaysWorks == Spec => []MailedWorks
<1>1. IInv => MailedWorks
  <2> SUFFICES ASSUME IInv, NEW c \in Conns, con[c].req.url = "varify", con[c].out = "ok"
               PROVE  KeptOnce(varify[c])
    BY DEF MailedWorks, IInv, KeptInv
  <2>. QED
    BY DEF IInv, EachInv, VarifyInv, KeptOnce
<1>. QED
  BY <1>1, Invariance, PTL

(* The token a login was answered with stays the user's, until its day is over,
   unless another login came later or overlapped.                           *)
THEOREM TokensHonoured == Spec => []TokenHonoured
<1>1. IInv => TokenHonoured
  <2> SUFFICES ASSUME IInv, NEW c \in Conns, con[c].req.url = "login", con[c].out = "ok"
               PROVE  call[c].wrote # 0
    BY DEF TokenHonoured, IInv, TokenInv
  <2>1. ConInv(c, con[c]) /\ CallInv(con[c], call[c])
    BY DEF IInv, EachInv
  <2>2. /\ call[c].pc = "done" /\ call[c].error = "ok" /\ call[c].token = con[c].req.token
        /\ con[c].req.body = "good" /\ con[c].st \notin Ready
    BY <2>1 DEF CallInv, Asking, ConInv
  <2>3. con[c].req.token = 0
    BY <2>1, <2>2 DEF ConInv, Shape
  <2>. QED
    BY <2>1, <2>2, <2>3 DEF CallInv
<1>. QED
  BY <1>1, Invariance, PTL

(* No request is sent to a chat server that had left in good order before it
   came: what a call gathers lease by lease never holds such a server.      *)
THEOREM NeverSentAway == Spec => []NotSentAway
<1>1. IInv => NotSentAway
  BY DEF IInv, AwayInv, NotSentAway
<1>. QED
  BY <1>1, Invariance, PTL

=============================================================================
