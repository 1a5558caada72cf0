---------------------------- MODULE Outbox_proofs ----------------------------
(***************************************************************************)
(* Theorems about Outbox, for every number of messages, copies and faults. *)
(***************************************************************************)
EXTENDS Outbox, TLAPS

\* The time a prover has for a step.
USE ZenonT(3), SMTT(30)

-----------------------------------------------------------------------------
(* The inductive invariant.                                                *)

Plain == {"open", "load", "enqueue"}
Settling == {"confirm", "fail", "advance"}

\* A call for the message is queued in q; a queued result says that it was
\* committed; the rows hold one of the message.
Asked(q, op, m) == \E c \in Range(q) : c.op = op /\ c.message = m
Told(res, op, m) == \E r \in Range(res) : r.op = op /\ r.ok /\ r.message = m
Listed(rows, m) == \E x \in Range(rows) : x.message = m

Row(m, s) == \E x \in Range(outbox) : x.message = m /\ x.stage = s

\* The server has stored the announced message, and its row says so.
Advanced(m) ==
  /\ m \in stored
  /\ status[m] # "none"
  /\ \A x \in Range(outbox) : x.message = m => x.stage = "uploading"

\* The message will never be published.
Doomed(m) ==
  /\ m \notin published
  /\ m \in refused \/ m \in Resources \ source

GivenUp(m) == Doomed(m) \/ "upload" \in faults.kinds

FaultsOK ==
  /\ faults \in [count : Nat, max : Nat, kinds : SUBSET AllFaults]
  /\ faults.count \in 0 .. faults.max

FlagsInv ==
  /\ dbReady => dbOpen
  /\ restored => dbReady
  /\ restoring => dbReady /\ ~restored

\* Before the outbox has been restored nothing is under way for a message.
PlainCalls(q) == \A c \in Range(q) : c.op \in Plain
PlainResults(res) ==
  \A r \in Range(res) :
    r.op \in Plain /\ (r.op = "load" => Range(r.rows) \subseteq Range(outbox))
NoAction(act) == \A m \in Messages : act[m] = "none"

QuietInv ==
  ~restored =>
    /\ c2s = <<>> /\ s2c = <<>> /\ finished = <<>> /\ jobs = {}
    /\ NoAction(action)
    /\ PlainCalls(calls)
    /\ PlainResults(results)

IsEnqueued(r) == r.op = "enqueue" /\ r.ok

\* What a result says of those behind it.
InOrder(r, s) ==
  /\ r.op = "open" /\ r.ok /\ s.op = "open" => s.ok
  /\ IsEnqueued(s) => /\ IsEnqueued(r) => r.message # s.message
                      /\ ~Listed(r.rows, s.message)

AllInOrder(res) ==
  \A i, j \in DOMAIN res : i < j => InOrder(res[i], res[j])

EnqueuedOnce(q) ==
  \A i, j \in DOMAIN q :
    i < j /\ q[i].op = "enqueue" /\ q[j].op = "enqueue"
      => q[i].message # q[j].message

Named(q) ==
  \A c \in Range(q) : c.op \notin {"open", "load"} => c.message \in Messages

NamedResults(res) ==
  \A r \in Range(res) :
    r.ok /\ r.op \notin {"open", "load"} => r.message \in Messages

CallsInv == Named(calls) /\ EnqueuedOnce(calls)

ResultsInv ==
  /\ NamedResults(results)
  /\ AllInOrder(results)
  /\ \A r \in Range(results) : r.op = "open" => IF r.ok THEN dbOpen
                                                        ELSE ~dbReady

RowsInv ==
  /\ \A x, y \in Range(outbox) : x.message = y.message => x = y
  /\ \A x \in Range(outbox) :
       /\ status[x.message] # "none"
       /\ x.stage = "metadata" => x.message \in Resources
       /\ x.stage = "uploading" => x.message \in stored
  /\ \A r \in Range(results) :
       \A x \in Range(r.rows) : status[x.message] # "none"

\* The calls and results of a message, given the entries, calls and results
\* that a slot has arrived at.
QueuedInv(m, reg, act, stg, q, res) ==
  /\ Asked(q, "enqueue", m) => status[m] = "none"
  /\ Told(res, "enqueue", m) => /\ m \notin reg
                                /\ Row(m, FirstStage[m])
                                /\ \A op \in Settling : ~Asked(q, op, m)
  /\ \A op \in Settling : Asked(q, op, m) =>
       /\ status[m] # "none"
       /\ m \in reg => act[m] = op \/ (op = "advance" /\ stg[m] = "uploading")
  /\ Told(res, "advance", m) => Advanced(m)

\* The entry of a message agrees with its row.
EntryInv(m, reg, act, stg) ==
  /\ m \in reg => status[m] # "none"
  /\ m \notin reg => act[m] = "none" /\ stg[m] = FirstStage[m]
  /\ m \in reg /\ act[m] = "none" /\ stg[m] = "metadata" => Row(m, "metadata")
  /\ stg[m] = "metadata" => m \in Resources
  /\ stg[m] = "uploading" => Advanced(m)

\* What is being settled is so on the server.
Justified(m, what) ==
  /\ what = "advance" => m \in stored
  /\ what = "confirm" => m \in published
  /\ what = "fail" => GivenUp(m)

TruthInv(m, act, q) ==
  /\ Justified(m, act[m])
  /\ \A op \in Settling : Asked(q, op, m) => Justified(m, op)

MessageInv(m, reg, act, stg, q, res) ==
  /\ QueuedInv(m, reg, act, stg, q, res)
  /\ EntryInv(m, reg, act, stg)
  /\ TruthInv(m, act, q)

EntriesInv ==
  \A m \in Messages :
    MessageInv(m, registry, action, stage, calls, results)

StatusInv ==
  \A m \in Messages : /\ status[m] = "sent" => m \in published
                      /\ status[m] = "failed" => GivenUp(m)

JobsInv == \A m \in jobs \cup (published \cap Resources) : Advanced(m)

RepliesInv ==
  \A r \in Range(s2c) : /\ r.code = "ok" => r.message \in stored
                        /\ r.code = "permanent" => r.message \in refused

EndsInv ==
  \A r \in Range(finished) : IF r.ok THEN r.message \in published
                                     ELSE GivenUp(r.message)

TablesInv ==
  /\ source \subseteq Resources
  /\ stored \cap refused = {}
  /\ published \subseteq stored
  /\ stored \ Resources \subseteq published
  /\ Range(events) = published
  /\ IsInjective(events)

IInv ==
  /\ TypeOK
  /\ FaultsOK
  /\ FlagsInv
  /\ QuietInv
  /\ CallsInv
  /\ ResultsInv
  /\ RowsInv
  /\ EntriesInv
  /\ StatusInv
  /\ JobsInv
  /\ RepliesInv
  /\ EndsInv
  /\ TablesInv

-----------------------------------------------------------------------------
(* Sequences.                                                              *)

LEMMA QueueEmpty == \A S : <<>> \in Seq(S)
  OBVIOUS

LEMMA RangeEmpty == Range(<<>>) = {}
  BY DEF Range

LEMMA QueueTail ==
  ASSUME NEW S, NEW q \in Seq(S), q # <<>>
  PROVE  /\ Tail(q) \in Seq(S)
         /\ Head(q) \in S
         /\ Head(q) \in Range(q)
         /\ Range(Tail(q)) \subseteq Range(q)
         /\ DOMAIN Tail(q) = 1 .. Len(q) - 1
         /\ \A i \in DOMAIN Tail(q) : Tail(q)[i] = q[i + 1] /\ i + 1 \in DOMAIN q
         /\ Head(q) = q[1] /\ 1 \in DOMAIN q
<1>1. Tail(q) \in Seq(S) /\ Head(q) \in S /\ Len(q) \in Nat \ {0} /\ Len(Tail(q)) = Len(q) - 1
  BY SMT
<1>2. DOMAIN q = 1 .. Len(q) /\ DOMAIN Tail(q) = 1 .. Len(q) - 1
  BY <1>1, SMT
<1>3. \A i \in DOMAIN Tail(q) : Tail(q)[i] = q[i + 1] /\ i + 1 \in DOMAIN q
  BY <1>1, <1>2, SMT
<1>4. Head(q) = q[1] /\ 1 \in DOMAIN q
  BY <1>1, <1>2, SMT
<1>. QED
  BY <1>1, <1>2, <1>3, <1>4 DEF Range

LEMMA QueueAppend ==
  ASSUME NEW S, NEW q \in Seq(S), NEW e \in S
  PROVE  /\ Append(q, e) \in Seq(S)
         /\ DOMAIN q = 1 .. Len(q) /\ Len(q) \in Nat
         /\ DOMAIN Append(q, e) = 1 .. Len(q) + 1
         /\ \A i \in 1 .. Len(q) : Append(q, e)[i] = q[i]
         /\ Append(q, e)[Len(q) + 1] = e
         /\ Range(Append(q, e)) = Range(q) \cup {e}
<1>1. Append(q, e) \in Seq(S) /\ Len(q) \in Nat /\ Len(Append(q, e)) = Len(q) + 1
  BY SMT
<1>2. DOMAIN q = 1 .. Len(q) /\ DOMAIN Append(q, e) = 1 .. Len(q) + 1
  BY <1>1, SMT
<1>3. (\A i \in 1 .. Len(q) : Append(q, e)[i] = q[i]) /\ Append(q, e)[Len(q) + 1] = e
  BY <1>1, SMT
<1>4. \A i \in DOMAIN q : i \in DOMAIN Append(q, e) /\ Append(q, e)[i] = q[i]
  BY <1>1, <1>2, <1>3, SMT
<1>5. Len(q) + 1 \in DOMAIN Append(q, e)
  BY <1>1, <1>2, SMT
<1>6. \A i \in DOMAIN Append(q, e) : i \in DOMAIN q \/ i = Len(q) + 1
  BY <1>1, <1>2, SMT
<1>7. Range(Append(q, e)) = Range(q) \cup {e}
  BY <1>3, <1>4, <1>5, <1>6 DEF Range
<1>. QED
  BY <1>1, <1>2, <1>3, <1>7

LEMMA QueueConcat ==
  ASSUME NEW S, NEW q \in Seq(S), NEW r \in Seq(S)
  PROVE  /\ q \o r \in Seq(S)
         /\ \A i \in DOMAIN (q \o r) :
              \/ i \in DOMAIN q /\ (q \o r)[i] = q[i]
              \/ i \notin DOMAIN q /\ (q \o r)[i] \in Range(r)
         /\ DOMAIN q \subseteq DOMAIN (q \o r)
         /\ Range(q \o r) = Range(q) \cup Range(r)
<1>1. q \o r \in Seq(S) /\ Len(q) \in Nat /\ Len(r) \in Nat /\ Len(q \o r) = Len(q) + Len(r)
  BY SMT
<1>2. DOMAIN q = 1 .. Len(q) /\ DOMAIN r = 1 .. Len(r) /\ DOMAIN (q \o r) = 1 .. Len(q) + Len(r)
  BY <1>1, SMT
<1>3. \A i \in 1 .. Len(q) + Len(r) : (q \o r)[i] = IF i <= Len(q) THEN q[i] ELSE r[i - Len(q)]
  BY <1>1, SMT
<1>4. \A i \in DOMAIN q : i \in DOMAIN (q \o r) /\ (q \o r)[i] = q[i]
  BY <1>1, <1>2, <1>3, SMT
<1>5. \A i \in DOMAIN r : i + Len(q) \in DOMAIN (q \o r) /\ (q \o r)[i + Len(q)] = r[i]
  BY <1>1, <1>2, <1>3, SMT
<1>6. \A i \in DOMAIN (q \o r) \ DOMAIN q : i - Len(q) \in DOMAIN r /\ (q \o r)[i] = r[i - Len(q)]
  BY <1>1, <1>2, <1>3, SMT
<1>7. Range(q \o r) \subseteq Range(q) \cup Range(r)
  BY <1>4, <1>6 DEF Range
<1>8. Range(q) \subseteq Range(q \o r) /\ Range(r) \subseteq Range(q \o r)
  BY <1>4, <1>5 DEF Range
<1>9. \A i \in DOMAIN (q \o r) : i \notin DOMAIN q => (q \o r)[i] \in Range(r)
  BY <1>6 DEF Range
<1>. QED
  BY <1>1, <1>4, <1>7, <1>8, <1>9

\* A list of the messages of a set is a sequence of them.
LEMMA OrderedList ==
  ASSUME NEW set, NEW seq, NEW list \in Ordered(set, seq)
  PROVE  list \in Seq(set)
<1>1. PICK n \in 0 .. Len(Keys) : list \in [1 .. n -> set]
  BY DEF Ordered
<1>2. n \in Nat
  BY MessagesAssumption
<1>. QED
  BY <1>1, <1>2

-----------------------------------------------------------------------------
(* Queues of calls and results.                                            *)

LEMMA OnceTail ==
  ASSUME NEW q \in Seq(CallType), q # <<>>, EnqueuedOnce(q)
  PROVE  /\ EnqueuedOnce(Tail(q))
         /\ Head(q).op = "enqueue" => ~Asked(Tail(q), "enqueue", Head(q).message)
<1>1. \A i \in DOMAIN Tail(q) : Tail(q)[i] = q[i + 1] /\ i + 1 \in DOMAIN q
  BY QueueTail
<1>2. \A i, j \in DOMAIN Tail(q) : i < j => i + 1 < j + 1
  BY QueueTail, SMT
<1>3. EnqueuedOnce(Tail(q))
  BY <1>1, <1>2 DEF EnqueuedOnce
<1>4. \A i \in DOMAIN Tail(q) : 1 < i + 1
  BY QueueTail, SMT
<1>5. Head(q).op = "enqueue" => ~Asked(Tail(q), "enqueue", Head(q).message)
  BY <1>1, <1>4, QueueTail DEF EnqueuedOnce, Asked, Range
<1>. QED
  BY <1>3, <1>5

LEMMA OnceAppend ==
  ASSUME NEW q \in Seq(CallType), NEW c \in CallType, EnqueuedOnce(q),
         c.op = "enqueue" => ~Asked(q, "enqueue", c.message)
  PROVE  EnqueuedOnce(Append(q, c))
<1>. DEFINE n == Len(q) + 1
<1>1. \A i \in DOMAIN Append(q, c) : \/ i \in DOMAIN q /\ Append(q, c)[i] = q[i]
                                     \/ i = n /\ Append(q, c)[i] = c
  BY QueueAppend, SMT
<1>2. \A i, j \in DOMAIN Append(q, c) : i < j => i \in DOMAIN q
  BY QueueAppend, SMT
<1>3. SUFFICES ASSUME NEW i \in DOMAIN Append(q, c), NEW j \in DOMAIN Append(q, c), i < j,
                      Append(q, c)[i].op = "enqueue", Append(q, c)[j].op = "enqueue"
               PROVE  Append(q, c)[i].message # Append(q, c)[j].message
  BY DEF EnqueuedOnce
<1>4. i \in DOMAIN q /\ Append(q, c)[i] = q[i]
  BY <1>2, <1>3, QueueAppend
<1>5. CASE j \in DOMAIN q
  BY <1>3, <1>4, <1>5, QueueAppend DEF EnqueuedOnce
<1>6. CASE j = n /\ Append(q, c)[j] = c
  BY <1>3, <1>4, <1>6 DEF Asked, Range
<1>. QED
  BY <1>1, <1>5, <1>6

LEMMA OnceConcat ==
  ASSUME NEW q \in Seq(CallType), NEW r \in Seq(CallType), EnqueuedOnce(q),
         \A c \in Range(r) : c.op # "enqueue"
  PROVE  EnqueuedOnce(q \o r)
<1>1. \A i \in DOMAIN (q \o r) : (q \o r)[i].op = "enqueue" => i \in DOMAIN q /\ (q \o r)[i] = q[i]
  BY QueueConcat
<1>. QED
  BY <1>1 DEF EnqueuedOnce

LEMMA OrderTail ==
  ASSUME NEW q \in Seq(ResultType), q # <<>>, AllInOrder(q)
  PROVE  /\ AllInOrder(Tail(q))
         /\ \A r \in Range(Tail(q)) : InOrder(Head(q), r)
<1>1. \A i \in DOMAIN Tail(q) : Tail(q)[i] = q[i + 1] /\ i + 1 \in DOMAIN q
  BY QueueTail
<1>2. \A i, j \in DOMAIN Tail(q) : i < j => i + 1 < j + 1
  BY QueueTail, SMT
<1>3. AllInOrder(Tail(q))
  BY <1>1, <1>2 DEF AllInOrder
<1>4. \A i \in DOMAIN Tail(q) : 1 < i + 1
  BY QueueTail, SMT
<1>5. \A i \in DOMAIN Tail(q) : InOrder(Head(q), Tail(q)[i])
  BY <1>1, <1>4, QueueTail DEF AllInOrder
<1>. QED
  BY <1>3, <1>5 DEF Range

LEMMA OrderAppend ==
  ASSUME NEW q \in Seq(ResultType), NEW e \in ResultType, AllInOrder(q),
         \A r \in Range(q) : InOrder(r, e)
  PROVE  AllInOrder(Append(q, e))
<1>1. \A i \in DOMAIN Append(q, e) : \/ i \in DOMAIN q /\ Append(q, e)[i] = q[i]
                                     \/ Append(q, e)[i] = e
  BY QueueAppend, SMT
<1>2. \A i, j \in DOMAIN Append(q, e) : i < j => i \in DOMAIN q
  BY QueueAppend, SMT
<1>. QED
  BY <1>1, <1>2, QueueAppend DEF AllInOrder, Range

-----------------------------------------------------------------------------
(* The dispatcher's procedures.                                            *)

LEMMA CallTyped ==
  ASSUME NEW op \in Ops, NEW m \in Messages \cup {None}, NEW id \in BOOLEAN
  PROVE  /\ Call(op, m, id) \in CallType
         /\ Call(op, m, id).op = op
         /\ Call(op, m, id).message = m
  BY DEF Call, CallType

LEMMA PlainCallsTyped ==
  /\ OpenCall \in CallType /\ OpenCall.op = "open"
  /\ LoadCall \in CallType /\ LoadCall.op = "load"
  BY CallTyped DEF OpenCall, LoadCall, Ops, Actions, Call, CallType

\* A call for the current action of a registered message.
Current(c, reg, act) ==
  c.op \in Settling /\ c.message \in reg /\ act[c.message] = c.op

\* A queue of calls after a slot: plain calls and reads apart, what is new
\* repeats or begins the action of an entry.
Extends(q, r, reg, act) ==
  \A c \in Range(r) : \/ c \in Range(q)
                      \/ c.op \in {"open", "load", "get"}
                      \/ Current(c, reg, act)

LEMMA IssueFacts ==
  ASSUME NEW q \in Seq(CallType), NEW set \in SUBSET Messages, NEW seq,
         NEW list \in Ordered(set, seq), NEW what,
         \A m \in set : what[m] \in Ops \ Plain, Named(q)
  PROVE  /\ Issue(q, list, what) \in Seq(CallType)
         /\ \A c \in Range(Issue(q, list, what)) :
              c \in Range(q) \/ (c.message \in set /\ c.op = what[c.message])
         /\ Named(Issue(q, list, what))
         /\ EnqueuedOnce(q) => EnqueuedOnce(Issue(q, list, what))
<1>. DEFINE r == [i \in DOMAIN list |-> Call(what[list[i]], list[i], list[i] \in known')]
<1>1. list \in Seq(set)
  BY OrderedList
<1>2. DOMAIN list = 1 .. Len(list) /\ Len(list) \in Nat /\ \A i \in DOMAIN list : list[i] \in set
  BY <1>1
<1>3. \A i \in DOMAIN list : Call(what[list[i]], list[i], list[i] \in known') \in CallType
  <2>. TAKE i \in DOMAIN list
  <2>1. list[i] \in set /\ what[list[i]] \in Ops
    BY <1>2
  <2>2. (list[i] \in known') \in BOOLEAN
    OBVIOUS
  <2>. QED
    BY <2>1, <2>2, CallTyped
<1>4. r \in [1 .. Len(list) -> CallType]
  BY <1>2, <1>3
<1>5. r \in Seq(CallType)
  BY <1>2, <1>4
<1>6. \A c \in Range(r) : c.message \in set /\ c.op = what[c.message]
  BY <1>2 DEF Range, Call
<1>7. Issue(q, list, what) = q \o r
  BY DEF Issue
<1>8. q \o r \in Seq(CallType) /\ Range(q \o r) = Range(q) \cup Range(r)
  BY <1>5, QueueConcat
<1>9. \A c \in Range(r) : c.op # "enqueue" /\ c.message \in Messages
  BY <1>6 DEF Plain
<1>10. EnqueuedOnce(q) => EnqueuedOnce(q \o r)
  BY <1>5, <1>9, OnceConcat
<1>11. Named(q \o r)
  BY <1>8, <1>9 DEF Named
<1>. QED
  BY <1>6, <1>7, <1>8, <1>10, <1>11

LEMMA GetFacts ==
  ASSUME NEW q \in Seq(CallType), NEW set \in SUBSET Messages, NEW seq,
         NEW list \in Ordered(set, seq), Named(q)
  PROVE  /\ Get(q, list) \in Seq(CallType)
         /\ \A c \in Range(Get(q, list)) :
              c \in Range(q) \/ (c.op = "get" /\ set # {})
         /\ Named(Get(q, list))
         /\ EnqueuedOnce(q) => EnqueuedOnce(Get(q, list))
<1>. DEFINE what == [m \in Messages |-> "get"]
<1>1. \A m \in set : what[m] \in Ops \ Plain
  BY DEF Ops, Plain, Actions
<1>2. Get(q, list) = Issue(q, list, what)
  BY DEF Get
<1>. HIDE DEF what
<1>3. /\ Issue(q, list, what) \in Seq(CallType)
      /\ \A c \in Range(Issue(q, list, what)) :
           c \in Range(q) \/ (c.message \in set /\ c.op = what[c.message])
      /\ Named(Issue(q, list, what))
      /\ EnqueuedOnce(q) => EnqueuedOnce(Issue(q, list, what))
  BY <1>1, IssueFacts
<1>4. \A m \in set : what[m] = "get"
  BY DEF what
<1>. QED
  BY <1>2, <1>3, <1>4

LEMMA TransmitTyped ==
  ASSUME NEW set \in SUBSET Messages, NEW seq, NEW list \in Ordered(set, seq),
         c2s \in Seq(RequestType), Transmit(list)
  PROVE  c2s' \in Seq(RequestType) /\ (set = {} => c2s' = c2s)
<1>. DEFINE r == [i \in DOMAIN list |-> [message |-> list[i]]]
<1>1. list \in Seq(set)
  BY OrderedList
<1>2. DOMAIN list = 1 .. Len(list) /\ Len(list) \in Nat /\ \A i \in DOMAIN list : list[i] \in set
  BY <1>1
<1>3. r \in [1 .. Len(list) -> RequestType]
  BY <1>2 DEF RequestType
<1>4. r \in Seq(RequestType)
  BY <1>2, <1>3
<1>5. c2s' = c2s \o r \/ c2s' = c2s
  BY DEF Transmit
<1>6. set = {} => r = <<>>
  BY <1>2, <1>4
<1>. HIDE DEF r
<1>7. c2s \o r \in Seq(RequestType)
  BY <1>4, QueueConcat
<1>8. c2s \o <<>> = c2s
  BY SMT
<1>. QED
  BY <1>5, <1>6, <1>7, <1>8

\* An entry that dispatchDueEntries gives up: its file is gone.
Lost(m, act) ==
  /\ act[m] = "none"
  /\ stage'[m] = "metadata"
  /\ m \notin source

LEMMA DispatchFacts ==
  ASSUME NEW reg \in SUBSET Messages, NEW act \in [Messages -> Actions],
         NEW wait \in SUBSET Messages, NEW q \in Seq(CallType), Named(q),
         NEW first, c2s \in Seq(RequestType),
         DispatchDueEntries(reg, act, wait, q, first)
  PROVE  /\ registry' = reg
         /\ action' \in [Messages -> Actions]
         /\ waiting' \subseteq Messages
         /\ calls' \in Seq(CallType)
         /\ c2s' \in Seq(RequestType)
         /\ Named(calls')
         /\ EnqueuedOnce(q) => EnqueuedOnce(calls')
         /\ Extends(q, calls', reg, action')
         /\ \A m \in Messages : \/ action'[m] = act[m]
                                \/ m \in reg /\ Lost(m, act) /\ action'[m] = "fail"
         /\ ~restored' => /\ c2s' = c2s
                          /\ \A m \in Messages : action'[m] = act[m]
                          /\ Range(calls') \subseteq Range(q)
<1>. DEFINE open == dbReady' /\ restored' /\ ~restoring'
            due == {m \in reg \ wait : open}
            pending == {m \in due : act[m] # "none"}
            idle == {m \in due \ pending : connected' \/ m \in Range(first)}
            announced == {m \in idle \cap loaded' : stage'[m] = "metadata"}
            lost == announced \ source
            what == [m \in Messages |-> IF m \in lost THEN "fail" ELSE act[m]]
            sent == (announced \ lost) \cup (idle \ Resources)
<1>1. /\ registry' = reg
      /\ action' = what
      /\ waiting' = wait \cup pending \cup lost \cup sent
      /\ \E list \in Ordered(pending \cup lost, Keys) : calls' = Issue(q, list, what)
      /\ \E list \in Ordered(sent, first \o Keys) : Transmit(list)
  BY DEF DispatchDueEntries
<1>2. /\ due \subseteq reg
      /\ pending \subseteq due /\ idle \subseteq due \ pending
      /\ lost \subseteq idle /\ sent \subseteq idle
      /\ pending \cup lost \in SUBSET Messages /\ sent \in SUBSET Messages
      /\ \A m \in pending : act[m] # "none"
      /\ \A m \in lost : act[m] = "none" /\ stage'[m] = "metadata" /\ m \notin source
      /\ ~restored' => due = {}
  OBVIOUS
<1>3. what \in [Messages -> Actions]
  BY DEF Actions
<1>4. \A m \in lost : what[m] = "fail"
  BY <1>2
<1>5. \A m \in Messages \ lost : what[m] = act[m]
  OBVIOUS
<1>. HIDE DEF open, due, pending, idle, announced, lost, what, sent
<1>6. \A m \in pending \cup lost : what[m] \in Settling
  BY <1>2, <1>3, <1>4, <1>5 DEF Actions, Settling
<1>7. \A m \in pending \cup lost : what[m] \in Ops \ Plain
  BY <1>6 DEF Settling, Ops, Plain, Actions
<1>8. PICK list \in Ordered(pending \cup lost, Keys) : calls' = Issue(q, list, what)
  BY <1>1
<1>. DEFINE set == pending \cup lost
<1>. HIDE DEF set
<1>8a. /\ Issue(q, list, what) \in Seq(CallType)
       /\ \A c \in Range(Issue(q, list, what)) :
            c \in Range(q) \/ (c.message \in set /\ c.op = what[c.message])
       /\ Named(Issue(q, list, what))
       /\ EnqueuedOnce(q) => EnqueuedOnce(Issue(q, list, what))
  <2>1. set \in SUBSET Messages /\ list \in Ordered(set, Keys)
    BY <1>2, <1>8 DEF set
  <2>2. \A m \in set : what[m] \in Ops \ Plain
    BY <1>7 DEF set
  <2>. QED
    BY <2>1, <2>2, IssueFacts
<1>9. /\ calls' \in Seq(CallType)
      /\ \A c \in Range(calls') :
           c \in Range(q) \/ (c.message \in pending \cup lost /\ c.op = what[c.message])
      /\ Named(calls')
      /\ EnqueuedOnce(q) => EnqueuedOnce(calls')
  BY <1>8, <1>8a DEF set
<1>10. Extends(q, calls', reg, action')
  BY <1>1, <1>2, <1>6, <1>9 DEF Extends, Current
<1>11. c2s' \in Seq(RequestType) /\ (sent = {} => c2s' = c2s)
  BY <1>1, <1>2, TransmitTyped
<1>12. \A m \in Messages : \/ action'[m] = act[m]
                           \/ m \in reg /\ Lost(m, act) /\ action'[m] = "fail"
  BY <1>1, <1>2, <1>4, <1>5 DEF Lost
<1>13. ~restored' => pending = {} /\ lost = {} /\ sent = {}
  BY <1>2
<1>14. ~restored' => /\ c2s' = c2s
                     /\ \A m \in Messages : action'[m] = act[m]
                     /\ Range(calls') \subseteq Range(q)
  BY <1>1, <1>5, <1>9, <1>11, <1>13
<1>15. waiting' \subseteq Messages
  BY <1>1, <1>2
<1>. QED
  BY <1>1, <1>3, <1>9, <1>10, <1>11, <1>12, <1>14, <1>15

LEMMA BeginActionFacts ==
  ASSUME NEW m \in Messages, NEW what \in Settling, m \in registry, TypeOK,
         CallsInv, BeginAction(m, what)
  PROVE  /\ action' \in [Messages -> Actions]
         /\ waiting' \subseteq Messages
         /\ calls' \in Seq(CallType)
         /\ Named(calls')
         /\ EnqueuedOnce(calls')
         /\ Extends(calls, calls', registry, action')
         /\ action'[m] = what
         /\ \A n \in Messages \ {m} : action'[n] = action[n]
<1>1. /\ action' = [action EXCEPT ![m] = what]
      /\ waiting' = waiting \cup {m}
      /\ calls' = Append(calls, Call(what, m, m \in known'))
  BY DEF BeginAction
<1>2. action \in [Messages -> Actions] /\ waiting \subseteq Messages /\ calls \in Seq(CallType)
  BY DEF TypeOK, EntriesTypeOK, QueuesTypeOK
<1>3. what \in Actions /\ what \in Ops /\ what # "enqueue"
  BY DEF Settling, Actions, Ops
<1>4. action' \in [Messages -> Actions] /\ action'[m] = what /\ \A n \in Messages \ {m} : action'[n] = action[n]
  BY <1>1, <1>2, <1>3
<1>5. (m \in known') \in BOOLEAN
  OBVIOUS
<1>. DEFINE c == Call(what, m, m \in known')
<1>6. c \in CallType /\ c.op = what /\ c.message = m
  BY <1>3, <1>5, CallTyped
<1>. HIDE DEF c
<1>7. calls' \in Seq(CallType) /\ Range(calls') = Range(calls) \cup {c}
  BY <1>1, <1>2, <1>6, QueueAppend DEF c
<1>8. EnqueuedOnce(calls')
  BY <1>1, <1>2, <1>3, <1>6, OnceAppend DEF c, CallsInv
<1>9. Named(calls') /\ Extends(calls, calls', registry, action')
  BY <1>4, <1>6, <1>7 DEF Named, CallsInv, Extends, Current
<1>. QED
  BY <1>1, <1>2, <1>4, <1>7, <1>8, <1>9

-----------------------------------------------------------------------------
(* Parts of the invariant that a slot of the dispatcher keeps.             *)

\* The database and the server are as before.
SameWorld ==
  /\ UNCHANGED <<status, outbox, stored, published, refused, events, source>>
  /\ faults'.kinds = faults.kinds

\* A queue is as before, its head has been taken, or it has been emptied.
Shrinks(old, new) ==
  new = old \/ (old # <<>> /\ new = Tail(old)) \/ new = <<>>

LEMMA FaultFacts ==
  ASSUME FaultsOK, NEW kind, Fault(kind)
  PROVE  FaultsOK' /\ faults'.kinds = faults.kinds
  BY DEF FaultsOK, Fault

LEMMA FaultsSame ==
  ASSUME FaultsOK, faults' = faults
  PROVE  FaultsOK' /\ faults'.kinds = faults.kinds
  BY DEF FaultsOK

LEMMA ShrinksFacts ==
  ASSUME NEW S, NEW old \in Seq(S), NEW new, Shrinks(old, new)
  PROVE  /\ new \in Seq(S)
         /\ Range(new) \subseteq Range(old)
         /\ old = <<>> => new = <<>>
<1>1. CASE new = old
  BY <1>1
<1>2. CASE old # <<>> /\ new = Tail(old)
  BY <1>2, QueueTail
<1>3. CASE new = <<>>
  BY <1>3, QueueEmpty, RangeEmpty
<1>. QED
  BY <1>1, <1>2, <1>3 DEF Shrinks

\* No message is disturbed by what only adds reads, plain calls and calls of
\* current actions.
LEMMA MessageKept ==
  ASSUME NEW m \in Messages, NEW reg, NEW act, NEW stg, NEW q, NEW res,
         NEW reg2, NEW act2, NEW stg2, NEW q2, NEW res2,
         MessageInv(m, reg, act, stg, q, res),
         m \in reg2 <=> m \in reg,
         stg2[m] = stg[m],
         \/ act2[m] = act[m]
         \/ m \in reg /\ act[m] = "none" /\ act2[m] \in Settling /\ Justified(m, act2[m]),
         Extends(q, q2, reg2, act2),
         Range(res2) \subseteq Range(res)
  PROVE  MessageInv(m, reg2, act2, stg2, q2, res2)
<1>1. \A op : Told(res2, op, m) => Told(res, op, m)
  BY DEF Told
<1>2. Asked(q2, "enqueue", m) => Asked(q, "enqueue", m)
  BY DEF Extends, Asked, Current, Settling
<1>3. \A op \in Settling : Asked(q2, op, m) => Asked(q, op, m) \/ (m \in reg2 /\ act2[m] = op)
  BY DEF Extends, Asked, Current, Settling
<1>4. act2[m] = act[m] \/ (m \in reg /\ act[m] = "none" /\ act2[m] # "none" /\ Justified(m, act2[m]))
  BY DEF Settling
<1>5. EntryInv(m, reg2, act2, stg2)
  BY <1>4 DEF MessageInv, EntryInv
<1>6. Justified(m, act2[m])
  BY <1>4 DEF MessageInv, TruthInv
<1>7. TruthInv(m, act2, q2)
  BY <1>3, <1>6 DEF MessageInv, TruthInv
<1>8. ASSUME NEW op \in Settling, Asked(q2, op, m)
      PROVE  /\ status[m] # "none"
             /\ m \in reg2 => act2[m] = op \/ (op = "advance" /\ stg2[m] = "uploading")
  <2>1. CASE m \in reg2 /\ act2[m] = op
    BY <2>1 DEF MessageInv, EntryInv
  <2>2. CASE Asked(q, op, m)
    BY <2>2, <1>4 DEF MessageInv, QueuedInv, Settling
  <2>. QED
    BY <1>3, <1>8, <2>1, <2>2
<1>9. QueuedInv(m, reg2, act2, stg2, q2, res2)
  BY <1>1, <1>2, <1>3, <1>8 DEF MessageInv, QueuedInv
<1>. QED
  BY <1>5, <1>7, <1>9 DEF MessageInv

LEMMA MessageForgotten ==
  ASSUME NEW m \in Messages, NEW reg, NEW act, NEW stg, NEW q, NEW res,
         NEW reg2, NEW act2, NEW stg2, NEW q2, NEW res2,
         MessageInv(m, reg, act, stg, q, res),
         m \notin reg2,
         act2[m] = "none", stg2[m] = FirstStage[m],
         Extends(q, q2, reg2, act2),
         Range(res2) \subseteq Range(res)
  PROVE  MessageInv(m, reg2, act2, stg2, q2, res2)
<1>1. \A op : Told(res2, op, m) => Told(res, op, m)
  BY DEF Told
<1>2. \A op \in Settling \cup {"enqueue"} : Asked(q2, op, m) => Asked(q, op, m)
  BY DEF Extends, Asked, Current, Settling
<1>3. EntryInv(m, reg2, act2, stg2)
  BY DEF EntryInv, FirstStage
<1>4. TruthInv(m, act2, q2)
  BY <1>2 DEF MessageInv, TruthInv, Justified
<1>5. QueuedInv(m, reg2, act2, stg2, q2, res2)
  BY <1>1, <1>2 DEF MessageInv, QueuedInv
<1>. QED
  BY <1>3, <1>4, <1>5 DEF MessageInv

LEMMA MessageRegistered ==
  ASSUME NEW m \in Messages, NEW reg, NEW act, NEW stg, NEW q, NEW res,
         NEW reg2, NEW stg2, NEW q2, NEW res2,
         MessageInv(m, reg, act, stg, q, res), RowsInv,
         m \notin reg, m \in reg2,
         Row(m, stg2[m]),
         \A op \in Settling : ~Asked(q, op, m),
         ~Told(res2, "enqueue", m),
         Extends(q, q2, {}, act),
         Range(res2) \subseteq Range(res)
  PROVE  MessageInv(m, reg2, act, stg2, q2, res2)
<1>1. \A op : Told(res2, op, m) => Told(res, op, m)
  BY DEF Told
<1>2. \A op \in Settling \cup {"enqueue"} : Asked(q2, op, m) => Asked(q, op, m)
  BY DEF Extends, Asked, Current, Settling
<1>3. PICK x \in Range(outbox) : x.message = m /\ x.stage = stg2[m]
  BY DEF Row
<1>4. status[m] # "none" /\ (stg2[m] = "metadata" => m \in Resources) /\ (stg2[m] = "uploading" => m \in stored)
  BY <1>3 DEF RowsInv
<1>5. \A y \in Range(outbox) : y.message = m => y = x
  BY <1>3 DEF RowsInv
<1>6. stg2[m] = "uploading" => Advanced(m)
  BY <1>3, <1>4, <1>5 DEF Advanced
<1>7. act[m] = "none"
  BY DEF MessageInv, EntryInv
<1>8. EntryInv(m, reg2, act, stg2)
  BY <1>4, <1>6 DEF EntryInv
<1>9. TruthInv(m, act, q2)
  BY <1>2 DEF MessageInv, TruthInv
<1>10. QueuedInv(m, reg2, act, stg2, q2, res2)
  BY <1>1, <1>2 DEF MessageInv, QueuedInv
<1>. QED
  BY <1>8, <1>9, <1>10 DEF MessageInv

LEMMA MessageStaged ==
  ASSUME NEW m \in Messages, NEW reg, NEW act, NEW stg, NEW q, NEW res,
         NEW act2, NEW stg2, NEW res2,
         MessageInv(m, reg, act, stg, q, res),
         m \in reg, act[m] = "advance", act2[m] = "none",
         stg2[m] = "uploading", Advanced(m),
         Range(res2) \subseteq Range(res)
  PROVE  MessageInv(m, reg, act2, stg2, q, res2)
<1>1. \A op : Told(res2, op, m) => Told(res, op, m)
  BY DEF Told
<1>2. EntryInv(m, reg, act2, stg2)
  BY DEF EntryInv, MessageInv
<1>3. TruthInv(m, act2, q)
  BY DEF MessageInv, TruthInv, Justified
<1>4. \A op \in Settling : Asked(q, op, m) => status[m] # "none" /\ op = "advance"
  BY DEF MessageInv, QueuedInv, EntryInv, Settling
<1>5. QueuedInv(m, reg, act2, stg2, q, res2)
  BY <1>1, <1>4 DEF MessageInv, QueuedInv
<1>. QED
  BY <1>2, <1>3, <1>5 DEF MessageInv

\* Without its file an announced message will never be published.
LEMMA LostGivenUp ==
  ASSUME NEW m \in Messages, NEW reg, NEW act, JobsInv,
         EntryInv(m, reg, act, stage'), m \in reg, Lost(m, act)
  PROVE  Justified(m, "fail")
<1>1. m \in Resources /\ m \notin source /\ Row(m, "metadata")
  BY DEF EntryInv, Lost
<1>2. ~Advanced(m)
  BY <1>1 DEF Row, Advanced
<1>3. m \notin published
  BY <1>1, <1>2 DEF JobsInv
<1>. QED
  BY <1>1, <1>3 DEF Justified, GivenUp, Doomed

LEMMA EntriesDispatched ==
  ASSUME JobsInv, NEW reg, NEW act, NEW q, NEW res,
         \A m \in Messages : MessageInv(m, reg, act, stage', q, res),
         registry' = reg,
         Extends(q, calls', reg, action'),
         \A m \in Messages : \/ action'[m] = act[m]
                             \/ m \in reg /\ Lost(m, act) /\ action'[m] = "fail",
         Range(results') \subseteq Range(res)
  PROVE  \A m \in Messages : MessageInv(m, registry', action', stage', calls', results')
<1>. SUFFICES ASSUME NEW m \in Messages
              PROVE  MessageInv(m, registry', action', stage', calls', results')
  OBVIOUS
<1>1. MessageInv(m, reg, act, stage', q, res) /\ EntryInv(m, reg, act, stage')
  BY DEF MessageInv
<1>2. m \in reg /\ Lost(m, act) /\ action'[m] = "fail"
        => act[m] = "none" /\ action'[m] \in Settling /\ Justified(m, action'[m])
  BY <1>1, LostGivenUp DEF Lost, Settling
<1>3. \/ action'[m] = act[m]
      \/ m \in reg /\ act[m] = "none" /\ action'[m] \in Settling /\ Justified(m, action'[m])
  BY <1>2
<1>. QED
  BY <1>1, <1>3, MessageKept

LEMMA SameWorldFacts ==
  ASSUME SameWorld
  PROVE  /\ \A m : (Advanced(m))' <=> Advanced(m)
         /\ \A m, s : (Row(m, s))' <=> Row(m, s)
         /\ \A m : (GivenUp(m))' <=> GivenUp(m)
         /\ \A m, what : (Justified(m, what))' <=> Justified(m, what)
<1>1. /\ status' = status /\ outbox' = outbox /\ stored' = stored /\ source' = source
      /\ published' = published /\ refused' = refused /\ faults'.kinds = faults.kinds
  BY DEF SameWorld
<1>. QED
  BY <1>1 DEF Advanced, Row, GivenUp, Doomed, Justified

LEMMA EntriesPrimed ==
  ASSUME SameWorld,
         \A m \in Messages : MessageInv(m, registry', action', stage', calls', results')
  PROVE  EntriesInv'
<1>. SUFFICES ASSUME NEW m \in Messages
              PROVE  (MessageInv(m, registry, action, stage, calls, results))'
  BY DEF EntriesInv
<1>1. status' = status /\ outbox' = outbox
  BY DEF SameWorld
<1>2. (QueuedInv(m, registry, action, stage, calls, results))'
  BY <1>1, SameWorldFacts DEF MessageInv, QueuedInv, Asked, Told
<1>3. (EntryInv(m, registry, action, stage))'
  BY <1>1, SameWorldFacts DEF MessageInv, EntryInv
<1>4. (TruthInv(m, action, calls))'
  BY SameWorldFacts DEF MessageInv, TruthInv, Asked
<1>. QED
  BY <1>2, <1>3, <1>4 DEF MessageInv

LEMMA WorldKept ==
  ASSUME SameWorld, StatusInv, TablesInv, RowsInv, RepliesInv, EndsInv, TypeOK,
         Shrinks(s2c, s2c'), Shrinks(finished, finished'), Shrinks(results, results')
  PROVE  /\ StatusInv' /\ TablesInv' /\ RowsInv' /\ RepliesInv' /\ EndsInv'
         /\ s2c' \in Seq(ReplyType) /\ finished' \in Seq(EndType)
         /\ results' \in Seq(ResultType) /\ Range(results') \subseteq Range(results)
<1>1. /\ status' = status /\ outbox' = outbox /\ stored' = stored /\ source' = source
      /\ published' = published /\ refused' = refused /\ events' = events
  BY DEF SameWorld
<1>2. StatusInv'
  BY <1>1, SameWorldFacts DEF StatusInv
<1>3. TablesInv'
  BY <1>1 DEF TablesInv, IsInjective
<1>4. s2c' \in Seq(ReplyType) /\ Range(s2c') \subseteq Range(s2c)
  BY ShrinksFacts DEF TypeOK, LinkTypeOK
<1>5. finished' \in Seq(EndType) /\ Range(finished') \subseteq Range(finished)
  BY ShrinksFacts DEF TypeOK, EngineTypeOK
<1>6. results' \in Seq(ResultType) /\ Range(results') \subseteq Range(results)
  BY ShrinksFacts DEF TypeOK, QueuesTypeOK
<1>7. RowsInv'
  BY <1>1, <1>6 DEF RowsInv
<1>8. RepliesInv'
  BY <1>1, <1>4 DEF RepliesInv
<1>9. EndsInv'
  BY <1>1, <1>5, SameWorldFacts DEF EndsInv
<1>. QED
  BY <1>2, <1>3, <1>4, <1>5, <1>6, <1>7, <1>8, <1>9

LEMMA ResultsKept ==
  ASSUME TypeOK, ResultsInv, Shrinks(results, results'),
         dbOpen' = dbOpen, dbReady' = dbReady
  PROVE  ResultsInv'
<1>1. results \in Seq(ResultType)
  BY DEF TypeOK, QueuesTypeOK
<1>2. Range(results') \subseteq Range(results)
  BY <1>1, ShrinksFacts
<1>3. AllInOrder(results')
  <2>1. CASE results' = results
    BY <2>1 DEF ResultsInv
  <2>2. CASE results # <<>> /\ results' = Tail(results)
    BY <1>1, <2>2, OrderTail DEF ResultsInv
  <2>3. CASE results' = <<>>
    BY <2>3 DEF AllInOrder
  <2>. QED
    BY <2>1, <2>2, <2>3 DEF Shrinks
<1>. QED
  BY <1>2, <1>3 DEF ResultsInv, NamedResults, AllInOrder

LEMMA PlainKept ==
  ASSUME SameWorld, Range(results') \subseteq Range(results), PlainResults(results)
  PROVE  (PlainResults(results))'
<1>1. outbox' = outbox
  BY DEF SameWorld
<1>. QED
  BY <1>1 DEF PlainResults

LEMMA JobsKept ==
  ASSUME SameWorld, JobsInv, \A m \in jobs' : m \in jobs \/ Advanced(m)
  PROVE  JobsInv'
<1>1. published' = published
  BY DEF SameWorld
<1>. QED
  BY <1>1, SameWorldFacts DEF JobsInv

LEMMA QuietKept ==
  ASSUME TypeOK, QuietInv, SameWorld, restored' = restored,
         Shrinks(s2c, s2c'), Shrinks(finished, finished'), Shrinks(results, results'),
         ~restored => /\ c2s' = <<>> /\ jobs' = {}
                      /\ NoAction(action') /\ PlainCalls(calls')
  PROVE  QuietInv'
<1>. SUFFICES ASSUME ~restored
              PROVE  /\ c2s' = <<>> /\ s2c' = <<>> /\ finished' = <<>> /\ jobs' = {}
                     /\ NoAction(action') /\ PlainCalls(calls') /\ (PlainResults(results))'
  BY DEF QuietInv, NoAction, PlainCalls
<1>1. s2c = <<>> /\ finished = <<>> /\ PlainResults(results)
  BY DEF QuietInv
<1>2. s2c' = <<>> /\ finished' = <<>>
  BY <1>1 DEF Shrinks
<1>3. Range(results') \subseteq Range(results)
  BY ShrinksFacts DEF TypeOK, QueuesTypeOK
<1>4. (PlainResults(results))'
  BY <1>1, <1>3, PlainKept
<1>. QED
  BY <1>2, <1>4

\* What a slot of the dispatcher has to keep.
LEMMA SlotKept ==
  ASSUME IInv, SameWorld,
         Shrinks(s2c, s2c'), Shrinks(finished, finished'), Shrinks(results, results'),
         dbOpen' \in BOOLEAN, hasId' = hasId,
         EntriesTypeOK', FlagsTypeOK',
         calls' \in Seq(CallType), c2s' \in Seq(RequestType),
         chatPage' \in BOOLEAN, linkUp' \in BOOLEAN, resourceUp' \in BOOLEAN,
         jobs' \subseteq Messages,
         \A m \in jobs' : m \in jobs \/ Advanced(m),
         FaultsOK', FlagsInv', QuietInv', CallsInv', ResultsInv',
         \A m \in Messages : MessageInv(m, registry', action', stage', calls', results')
  PROVE  IInv'
<1>1. /\ TypeOK /\ StatusInv /\ TablesInv /\ RowsInv /\ RepliesInv /\ EndsInv /\ JobsInv
  BY DEF IInv
<1>2. /\ StatusInv' /\ TablesInv' /\ RowsInv' /\ RepliesInv' /\ EndsInv'
      /\ s2c' \in Seq(ReplyType) /\ finished' \in Seq(EndType)
      /\ results' \in Seq(ResultType)
  BY <1>1, WorldKept
<1>3. EntriesInv' /\ JobsInv'
  BY <1>1, EntriesPrimed, JobsKept
<1>4. DbTypeOK' /\ ServerTypeOK'
  BY <1>1 DEF TypeOK, DbTypeOK, ServerTypeOK, SameWorld
<1>5. QueuesTypeOK' /\ LinkTypeOK'
  BY <1>2 DEF QueuesTypeOK, LinkTypeOK
<1>6. source' \subseteq Messages
  BY <1>1 DEF TypeOK, EngineTypeOK, SameWorld
<1>7. EngineTypeOK'
  BY <1>2, <1>6 DEF EngineTypeOK
<1>8. TypeOK'
  BY <1>4, <1>5, <1>7 DEF TypeOK, FaultsOK
<1>. QED
  BY <1>2, <1>3, <1>8 DEF IInv

\* Calls that only open the database or read it.
Reads(q, r) == \A c \in Range(r) : c \in Range(q) \/ c.op \in {"open", "load", "get"}

LEMMA ReadsExtends ==
  ASSUME NEW q, NEW q1, NEW r, NEW reg, NEW act, Reads(q, q1)
  PROVE  /\ Extends(q, q1, reg, act)
         /\ Extends(q1, r, reg, act) => Extends(q, r, reg, act)
  BY DEF Reads, Extends

LEMMA ReadsNothing == \A q : Reads(q, q)
  BY DEF Reads

LEMMA AppendPlain ==
  ASSUME TypeOK, CallsInv, NEW c \in CallType, c.op \in {"open", "load"}
  PROVE  /\ Append(calls, c) \in Seq(CallType)
         /\ Named(Append(calls, c))
         /\ EnqueuedOnce(Append(calls, c))
         /\ Reads(calls, Append(calls, c))
         /\ PlainCalls(calls) => PlainCalls(Append(calls, c))
<1>1. calls \in Seq(CallType)
  BY DEF TypeOK, QueuesTypeOK
<1>2. Append(calls, c) \in Seq(CallType) /\ Range(Append(calls, c)) = Range(calls) \cup {c}
  BY <1>1, QueueAppend
<1>3. EnqueuedOnce(Append(calls, c))
  BY <1>1, OnceAppend DEF CallsInv
<1>. QED
  BY <1>2, <1>3 DEF CallsInv, Named, Reads, PlainCalls, Plain

\* requestRestore: the calls after it.
WithLoad == IF CanRestore THEN Append(calls, LoadCall) ELSE calls

LEMMA WithLoadFacts ==
  ASSUME TypeOK, CallsInv
  PROVE  /\ WithLoad \in Seq(CallType)
         /\ Named(WithLoad)
         /\ EnqueuedOnce(WithLoad)
         /\ Reads(calls, WithLoad)
         /\ PlainCalls(calls) => PlainCalls(WithLoad)
  BY AppendPlain, PlainCallsTyped, ReadsNothing DEF WithLoad, CallsInv, TypeOK, QueuesTypeOK

\* The entries after a slot that leaves them alone.
LEMMA EntriesSame ==
  ASSUME EntriesInv, NEW q, Reads(calls, q), NEW res, Range(res) \subseteq Range(results)
  PROVE  \A m \in Messages : MessageInv(m, registry, action, stage, q, res)
<1>. SUFFICES ASSUME NEW m \in Messages
              PROVE  MessageInv(m, registry, action, stage, q, res)
  OBVIOUS
<1>1. MessageInv(m, registry, action, stage, calls, results)
  BY DEF EntriesInv
<1>2. Extends(calls, q, registry, action)
  BY ReadsExtends
<1>. QED
  BY <1>1, <1>2, MessageKept

LEMMA ResultTaken ==
  ASSUME NEW op, Result(op), TypeOK
  PROVE  /\ results # <<>> /\ results' = Tail(results) /\ Head(results).op = op
         /\ Head(results) \in ResultType /\ Head(results) \in Range(results)
         /\ Range(results') \subseteq Range(results)
         /\ Shrinks(results, results')
  BY QueueTail DEF Result, TypeOK, QueuesTypeOK, Shrinks

LEMMA StartUploadsFacts ==
  ASSUME TypeOK, NEW set \in SUBSET Messages, StartUploads(set)
  PROVE  /\ known' \subseteq Messages /\ uploading' \subseteq Messages
         /\ jobs' \subseteq Messages
         /\ jobs' \subseteq jobs \cup set
  BY DEF StartUploads, TypeOK, EntriesTypeOK, EngineTypeOK

LEMMA ResumeFacts ==
  ASSUME IInv
  PROVE  /\ ResumeStart \in SUBSET Messages
         /\ ResumeQuery \in SUBSET Messages
         /\ \A m \in ResumeStart : Advanced(m)
         /\ ~restored => ResumeStart = {} /\ ResumeQuery = {}
<1>1. Resumable \subseteq registry /\ (~restored => Resumable = {}) /\ \A m \in Resumable : stage[m] = "uploading"
  BY DEF Resumable
<1>2. registry \subseteq Messages
  BY DEF IInv, TypeOK, EntriesTypeOK
<1>3. \A m \in Resumable : Advanced(m)
  BY <1>1, <1>2 DEF IInv, EntriesInv, MessageInv, EntryInv
<1>4. ResumeStart \subseteq Resumable /\ ResumeQuery \subseteq Resumable
  BY DEF ResumeStart, ResumeQuery
<1>. QED
  BY <1>1, <1>2, <1>3, <1>4

-----------------------------------------------------------------------------
(* The steps of the dispatcher.                                            *)

LEMMA OpenUserDbStep ==
  ASSUME IInv, OpenUserDb
  PROVE  IInv'
<1>1. /\ calls' = Append(calls, OpenCall)
      /\ UNCHANGED <<dbVars, results, dispatchVars, entryVars, flagVars, linkVars,
                     engineVars, serverVars, faults>>
  BY DEF OpenUserDb
<1>2. /\ TypeOK /\ CallsInv /\ QuietInv /\ FaultsOK /\ EntriesInv /\ ResultsInv /\ FlagsInv
  BY DEF IInv
<1>3. SameWorld /\ FaultsOK'
  BY <1>1, <1>2, FaultsSame DEF SameWorld, dbVars, serverVars, engineVars
<1>4. Shrinks(s2c, s2c') /\ Shrinks(finished, finished') /\ Shrinks(results, results')
  BY <1>1 DEF Shrinks, linkVars, engineVars
<1>5. calls' \in Seq(CallType) /\ CallsInv' /\ Reads(calls, calls') /\ (PlainCalls(calls) => PlainCalls(calls'))
  BY <1>1, <1>2, AppendPlain, PlainCallsTyped DEF CallsInv, Named, EnqueuedOnce
<1>6. registry' = registry /\ action' = action /\ stage' = stage /\ results' = results
  BY <1>1 DEF dispatchVars, entryVars
<1>7. \A m \in Messages : MessageInv(m, registry', action', stage', calls', results')
  BY <1>2, <1>5, <1>6, EntriesSame
<1>8. EntriesTypeOK' /\ FlagsTypeOK' /\ FlagsInv'
  BY <1>1, <1>2 DEF dispatchVars, entryVars, flagVars, dbVars, TypeOK, EntriesTypeOK, FlagsTypeOK, FlagsInv
<1>9. ResultsInv'
  BY <1>1, <1>2, <1>4, ResultsKept DEF dbVars, flagVars
<1>10. QuietInv'
  BY <1>1, <1>2, <1>3, <1>4, <1>5, <1>6, QuietKept DEF QuietInv, flagVars, linkVars, engineVars
<1>11. /\ dbOpen' \in BOOLEAN /\ hasId' = hasId /\ c2s' \in Seq(RequestType)
       /\ chatPage' \in BOOLEAN /\ linkUp' \in BOOLEAN /\ resourceUp' \in BOOLEAN
       /\ jobs' \subseteq Messages /\ jobs' = jobs
  BY <1>1, <1>2 DEF dbVars, linkVars, engineVars, TypeOK, DbTypeOK, LinkTypeOK, EngineTypeOK
<1>. QED
  BY <1>3, <1>4, <1>5, <1>7, <1>8, <1>9, <1>10, <1>11, SlotKept

LEMMA SlotStartStep ==
  ASSUME IInv, SlotStart
  PROVE  IInv'
<1>1. /\ linkUp' = TRUE /\ chatPage' = TRUE /\ connected' = TRUE
      /\ dbReady' = dbReady /\ resourceReady' = resourceReady
      /\ restored' = restored /\ restoreWait' = restoreWait
      /\ UNCHANGED <<dbVars, results, s2c, resourceUp, finished, source,
                     serverVars, faults>>
  BY DEF SlotStart
<1>2. /\ TypeOK /\ CallsInv /\ QuietInv /\ FaultsOK /\ EntriesInv /\ ResultsInv /\ FlagsInv /\ JobsInv
  BY DEF IInv
<1>3. SameWorld /\ FaultsOK'
  BY <1>1, <1>2, FaultsSame DEF SameWorld, dbVars, serverVars
<1>4. Shrinks(s2c, s2c') /\ Shrinks(finished, finished') /\ Shrinks(results, results')
  BY <1>1 DEF Shrinks
<1>5. ResultsInv'
  BY <1>1, <1>2, <1>4, ResultsKept DEF dbVars
<1>6. /\ dbOpen' \in BOOLEAN /\ hasId' = hasId
      /\ chatPage' \in BOOLEAN /\ linkUp' \in BOOLEAN /\ resourceUp' \in BOOLEAN
  BY <1>1, <1>2 DEF dbVars, TypeOK, DbTypeOK, EngineTypeOK
<1>7. CASE ~restored /\ restoring' = (restoring \/ CanRestore) /\ calls' = WithLoad
           /\ UNCHANGED <<dispatchVars, entryVars, jobs, c2s>>
  <2>1. calls' \in Seq(CallType) /\ CallsInv' /\ Reads(calls, calls') /\ (PlainCalls(calls) => PlainCalls(calls'))
    BY <1>2, <1>7, WithLoadFacts DEF CallsInv, Named, EnqueuedOnce
  <2>2. registry' = registry /\ action' = action /\ stage' = stage /\ results' = results /\ jobs' = jobs /\ c2s' = c2s
    BY <1>1, <1>7 DEF dispatchVars, entryVars
  <2>3. \A m \in Messages : MessageInv(m, registry', action', stage', calls', results')
    BY <1>2, <2>1, <2>2, EntriesSame
  <2>4. EntriesTypeOK'
    BY <1>2, <1>7 DEF dispatchVars, entryVars, TypeOK, EntriesTypeOK
  <2>5. FlagsTypeOK' /\ FlagsInv'
    BY <1>1, <1>2, <1>7 DEF dbVars, TypeOK, FlagsTypeOK, FlagsInv, CanRestore
  <2>6. QuietInv'
    BY <1>1, <1>2, <1>3, <1>4, <2>1, <2>2, QuietKept DEF QuietInv
  <2>7. c2s' \in Seq(RequestType) /\ jobs' \subseteq Messages
    BY <1>2, <2>2 DEF TypeOK, LinkTypeOK, EngineTypeOK
  <2>. QED
    BY <1>3, <1>4, <1>5, <1>6, <2>1, <2>2, <2>3, <2>4, <2>5, <2>6, <2>7, SlotKept
<1>8. CASE /\ restored
           /\ StartUploads(ResumeStart)
           /\ resumePending' = resumePending \cup ResumeQuery
           /\ restoring' = restoring /\ stage' = stage /\ loaded' = loaded
           /\ \E list \in Ordered(ResumeQuery, Keys) :
                DispatchDueEntries(registry, action,
                  {m \in waiting : action[m] # "none"}, Get(calls, list), <<>>)
  <2>1. PICK list \in Ordered(ResumeQuery, Keys) :
          DispatchDueEntries(registry, action,
            {m \in waiting : action[m] # "none"}, Get(calls, list), <<>>)
    BY <1>8
  <2>. DEFINE q == Get(calls, list)
              wait == {m \in waiting : action[m] # "none"}
  <2>2. ResumeStart \in SUBSET Messages /\ ResumeQuery \in SUBSET Messages /\ \A m \in ResumeStart : Advanced(m)
    BY ResumeFacts
  <2>3. /\ registry \in SUBSET Messages /\ action \in [Messages -> Actions] /\ wait \in SUBSET Messages
        /\ c2s \in Seq(RequestType) /\ calls \in Seq(CallType) /\ Named(calls) /\ EnqueuedOnce(calls)
    BY <1>2 DEF TypeOK, EntriesTypeOK, LinkTypeOK, QueuesTypeOK, CallsInv
  <2>4. q \in Seq(CallType) /\ Named(q) /\ EnqueuedOnce(q) /\ Reads(calls, q)
    BY <2>2, <2>3, GetFacts DEF Reads
  <2>. HIDE DEF q, wait
  <2>5. DispatchDueEntries(registry, action, wait, q, <<>>)
    BY <2>1 DEF q, wait
  <2>6. /\ registry' = registry
        /\ action' \in [Messages -> Actions]
        /\ waiting' \subseteq Messages
        /\ calls' \in Seq(CallType)
        /\ c2s' \in Seq(RequestType)
        /\ Named(calls')
        /\ EnqueuedOnce(calls')
        /\ Extends(q, calls', registry, action')
        /\ \A m \in Messages : \/ action'[m] = action[m]
                               \/ m \in registry /\ Lost(m, action) /\ action'[m] = "fail"
    BY <2>3, <2>4, <2>5, DispatchFacts
  <2>7. \A m \in Messages : MessageInv(m, registry, action, stage', q, results)
    BY <1>2, <1>8, <2>4, EntriesSame
  <2>14. results' = results
    BY <1>1
  <2>8. \A m \in Messages : MessageInv(m, registry', action', stage', calls', results')
    <3>1. JobsInv /\ registry' = registry /\ Extends(q, calls', registry, action')
      BY <1>2, <2>6
    <3>2. \A m \in Messages : \/ action'[m] = action[m]
                              \/ m \in registry /\ Lost(m, action) /\ action'[m] = "fail"
      BY <2>6
    <3>3. Range(results') \subseteq Range(results)
      BY <2>14
    <3>. QED
      BY <2>7, <3>1, <3>2, <3>3, EntriesDispatched
  <2>9. known' \subseteq Messages /\ uploading' \subseteq Messages /\ jobs' \subseteq Messages /\ jobs' \subseteq jobs \cup ResumeStart
    BY <1>2, <1>8, <2>2, StartUploadsFacts
  <2>10. EntriesTypeOK'
    BY <1>2, <1>8, <2>2, <2>6, <2>9 DEF TypeOK, EntriesTypeOK
  <2>11. FlagsTypeOK' /\ FlagsInv'
    BY <1>1, <1>2, <1>8 DEF dbVars, TypeOK, FlagsTypeOK, FlagsInv
  <2>12. QuietInv' /\ CallsInv'
    BY <1>1, <1>8, <2>6 DEF QuietInv, CallsInv, Named, EnqueuedOnce
  <2>13. \A m \in jobs' : m \in jobs \/ Advanced(m)
    BY <2>2, <2>9
  <2>. QED
    BY <1>3, <1>4, <1>5, <1>6, <2>6, <2>8, <2>9, <2>10, <2>11, <2>12, <2>13, SlotKept
<1>. QED
  BY <1>7, <1>8 DEF SlotStart, WithLoad

LEMMA SlotScanTimeoutStep ==
  ASSUME IInv, SlotScanTimeout
  PROVE  IInv'
<1>1. /\ connected' = connected /\ dbReady' = dbReady /\ resourceReady' = resourceReady
      /\ restored' = restored /\ restoreWait' = restoreWait
      /\ restoring' = (restoring \/ CanRestore)
      /\ DispatchDueEntries(registry, action, waiting, WithLoad, <<>>)
      /\ UNCHANGED <<entryVars, chatPage, linkUp, dbVars, results, s2c, engineVars,
                     serverVars, faults>>
      /\ dbReady
  BY DEF SlotScanTimeout, WithLoad
<1>2. /\ TypeOK /\ CallsInv /\ QuietInv /\ FaultsOK /\ EntriesInv /\ ResultsInv /\ FlagsInv /\ JobsInv
  BY DEF IInv
<1>3. SameWorld /\ FaultsOK'
  BY <1>1, <1>2, FaultsSame DEF SameWorld, dbVars, serverVars, engineVars
<1>4. Shrinks(s2c, s2c') /\ Shrinks(finished, finished') /\ Shrinks(results, results')
  BY <1>1 DEF Shrinks, engineVars
<1>5. ResultsInv'
  BY <1>1, <1>2, <1>4, ResultsKept DEF dbVars
<1>6. /\ dbOpen' \in BOOLEAN /\ hasId' = hasId
      /\ chatPage' \in BOOLEAN /\ linkUp' \in BOOLEAN /\ resourceUp' \in BOOLEAN
      /\ jobs' \subseteq Messages /\ jobs' = jobs
  BY <1>1, <1>2 DEF dbVars, engineVars, TypeOK, DbTypeOK, LinkTypeOK, EngineTypeOK
<1>7. /\ registry \in SUBSET Messages /\ action \in [Messages -> Actions] /\ waiting \in SUBSET Messages
      /\ c2s \in Seq(RequestType)
  BY <1>2 DEF TypeOK, EntriesTypeOK, LinkTypeOK
<1>8. /\ WithLoad \in Seq(CallType) /\ Named(WithLoad) /\ EnqueuedOnce(WithLoad)
      /\ Reads(calls, WithLoad)
      /\ PlainCalls(calls) => PlainCalls(WithLoad)
  BY <1>2, WithLoadFacts
<1>9. /\ registry' = registry
      /\ action' \in [Messages -> Actions]
      /\ waiting' \subseteq Messages
      /\ calls' \in Seq(CallType)
      /\ c2s' \in Seq(RequestType)
      /\ Named(calls')
      /\ EnqueuedOnce(calls')
      /\ Extends(WithLoad, calls', registry, action')
      /\ \A m \in Messages : \/ action'[m] = action[m]
                             \/ m \in registry /\ Lost(m, action) /\ action'[m] = "fail"
      /\ ~restored' => /\ c2s' = c2s
                       /\ \A m \in Messages : action'[m] = action[m]
                       /\ Range(calls') \subseteq Range(WithLoad)
  BY <1>1, <1>7, <1>8, DispatchFacts
<1>10. stage' = stage /\ results' = results
  BY <1>1 DEF entryVars
<1>11. \A m \in Messages : MessageInv(m, registry, action, stage', WithLoad, results)
  BY <1>2, <1>8, <1>10, EntriesSame
<1>12. \A m \in Messages : MessageInv(m, registry', action', stage', calls', results')
  BY <1>2, <1>9, <1>10, <1>11, EntriesDispatched
<1>13. EntriesTypeOK'
  BY <1>1, <1>2, <1>9 DEF TypeOK, EntriesTypeOK, entryVars
<1>14. FlagsTypeOK' /\ FlagsInv'
  BY <1>1, <1>2 DEF dbVars, TypeOK, FlagsTypeOK, FlagsInv, CanRestore
<1>15. ~restored => c2s' = <<>> /\ jobs' = {} /\ NoAction(action') /\ PlainCalls(calls')
  BY <1>1, <1>2, <1>6, <1>8, <1>9 DEF QuietInv, NoAction, PlainCalls
<1>16. QuietInv'
  BY <1>1, <1>2, <1>3, <1>4, <1>15, QuietKept
<1>17. CallsInv'
  BY <1>9 DEF CallsInv, Named, EnqueuedOnce
<1>. QED
  BY <1>3, <1>4, <1>5, <1>6, <1>9, <1>12, <1>13, <1>14, <1>16, <1>17, SlotKept

\* A step that leaves calls, entries and results alone.
LEMMA EntriesUntouched ==
  ASSUME IInv, SameWorld, calls' = calls, results' = results,
         registry' = registry, action' = action, stage' = stage
  PROVE  /\ \A m \in Messages : MessageInv(m, registry', action', stage', calls', results')
         /\ calls' \in Seq(CallType) /\ CallsInv'
  BY DEF IInv, EntriesInv, TypeOK, QueuesTypeOK, CallsInv, Named, EnqueuedOnce

LEMMA RetryDueStep ==
  ASSUME IInv, NEW m \in Messages, RetryDue(m)
  PROVE  IInv'
<1>1. /\ waiting' = waiting \ {m}
      /\ UNCHANGED <<dbVars, calls, results, registry, action, entryVars,
                     flagVars, linkVars, engineVars, serverVars, faults>>
  BY DEF RetryDue
<1>2. /\ TypeOK /\ CallsInv /\ QuietInv /\ FaultsOK /\ EntriesInv /\ ResultsInv /\ FlagsInv
  BY DEF IInv
<1>3. SameWorld /\ FaultsOK'
  BY <1>1, <1>2, FaultsSame DEF SameWorld, dbVars, serverVars, engineVars
<1>4. Shrinks(s2c, s2c') /\ Shrinks(finished, finished') /\ Shrinks(results, results')
  BY <1>1 DEF Shrinks, engineVars, linkVars
<1>5. ResultsInv'
  BY <1>1, <1>2, <1>4, ResultsKept DEF dbVars, flagVars
<1>6. /\ dbOpen' \in BOOLEAN /\ hasId' = hasId /\ c2s' \in Seq(RequestType)
      /\ chatPage' \in BOOLEAN /\ linkUp' \in BOOLEAN /\ resourceUp' \in BOOLEAN
      /\ jobs' \subseteq Messages /\ jobs' = jobs /\ c2s' = c2s
  BY <1>1, <1>2 DEF dbVars, engineVars, linkVars, TypeOK, DbTypeOK, LinkTypeOK, EngineTypeOK
<1>7. registry' = registry /\ action' = action /\ stage' = stage
  BY <1>1 DEF entryVars
<1>8. /\ \A n \in Messages : MessageInv(n, registry', action', stage', calls', results')
      /\ calls' \in Seq(CallType) /\ CallsInv'
  BY <1>1, <1>3, <1>7, EntriesUntouched
<1>9. EntriesTypeOK' /\ FlagsTypeOK' /\ FlagsInv'
  BY <1>1, <1>2 DEF entryVars, flagVars, dbVars, TypeOK, EntriesTypeOK, FlagsTypeOK, FlagsInv
<1>10. QuietInv'
  BY <1>1, <1>2, <1>3, <1>4, <1>6, QuietKept DEF QuietInv, flagVars
<1>. QED
  BY <1>3, <1>4, <1>5, <1>6, <1>8, <1>9, <1>10, SlotKept

LEMMA RestoreDueStep ==
  ASSUME IInv, RestoreDue
  PROVE  IInv'
<1>1. /\ restoreWait' = FALSE
      /\ UNCHANGED <<dbVars, calls, results, dispatchVars, entryVars, connected,
                     dbReady, resourceReady, restored, restoring, linkVars,
                     engineVars, serverVars, faults>>
  BY DEF RestoreDue
<1>2. /\ TypeOK /\ CallsInv /\ QuietInv /\ FaultsOK /\ EntriesInv /\ ResultsInv /\ FlagsInv
  BY DEF IInv
<1>3. SameWorld /\ FaultsOK'
  BY <1>1, <1>2, FaultsSame DEF SameWorld, dbVars, serverVars, engineVars
<1>4. Shrinks(s2c, s2c') /\ Shrinks(finished, finished') /\ Shrinks(results, results')
  BY <1>1 DEF Shrinks, engineVars, linkVars
<1>5. ResultsInv'
  BY <1>1, <1>2, <1>4, ResultsKept DEF dbVars
<1>6. /\ dbOpen' \in BOOLEAN /\ hasId' = hasId /\ c2s' \in Seq(RequestType)
      /\ chatPage' \in BOOLEAN /\ linkUp' \in BOOLEAN /\ resourceUp' \in BOOLEAN
      /\ jobs' \subseteq Messages /\ jobs' = jobs /\ c2s' = c2s
  BY <1>1, <1>2 DEF dbVars, engineVars, linkVars, TypeOK, DbTypeOK, LinkTypeOK, EngineTypeOK
<1>7. registry' = registry /\ action' = action /\ stage' = stage
  BY <1>1 DEF entryVars, dispatchVars
<1>8. /\ \A n \in Messages : MessageInv(n, registry', action', stage', calls', results')
      /\ calls' \in Seq(CallType) /\ CallsInv'
  BY <1>1, <1>3, <1>7, EntriesUntouched
<1>9. EntriesTypeOK' /\ FlagsTypeOK' /\ FlagsInv'
  BY <1>1, <1>2 DEF entryVars, dispatchVars, dbVars, TypeOK, EntriesTypeOK, FlagsTypeOK, FlagsInv
<1>10. QuietInv'
  BY <1>1, <1>2, <1>3, <1>4, <1>6, <1>7, QuietKept DEF QuietInv
<1>. QED
  BY <1>3, <1>4, <1>5, <1>6, <1>8, <1>9, <1>10, SlotKept

\* The entries after a slot that began an action.
LEMMA EntriesBegun ==
  ASSUME IInv, NEW m \in Messages, NEW what \in Settling, Justified(m, what),
         m \in registry, action[m] = "none",
         Extends(calls, calls', registry, action'),
         action'[m] = what,
         \A n \in Messages \ {m} : action'[n] = action[n],
         Range(results') \subseteq Range(results)
  PROVE  \A n \in Messages : MessageInv(n, registry, action', stage, calls', results')
<1>. SUFFICES ASSUME NEW n \in Messages
              PROVE  MessageInv(n, registry, action', stage, calls', results')
  OBVIOUS
<1>1. MessageInv(n, registry, action, stage, calls, results)
  BY DEF IInv, EntriesInv
<1>2. \/ action'[n] = action[n]
      \/ n \in registry /\ action[n] = "none" /\ action'[n] \in Settling /\ Justified(n, action'[n])
  OBVIOUS
<1>. QED
  BY <1>1, <1>2, MessageKept

LEMMA RefusedGivenUp ==
  ASSUME TablesInv, NEW m \in refused
  PROVE  Justified(m, "fail")
  BY DEF TablesInv, Justified, GivenUp, Doomed

LEMMA MsgRspStep ==
  ASSUME IInv, MsgRsp
  PROVE  IInv'
<1>. DEFINE m == Head(s2c).message
            what == Outcome(m, Head(s2c).code)
            begun == m \in registry /\ action[m] = "none" /\ what # "none"
<1>1. /\ s2c # <<>> /\ s2c' = Tail(s2c)
      /\ IF begun
           THEN /\ known' = IF what = "fail" THEN known ELSE known \cup {m}
                /\ BeginAction(m, what)
           ELSE UNCHANGED <<known, action, waiting, calls>>
      /\ UNCHANGED <<dbVars, results, registry, stage, loaded, uploading,
                     resumePending, flagVars, chatPage, linkUp, c2s, engineVars,
                     serverVars, faults>>
  BY DEF MsgRsp
<1>2. /\ TypeOK /\ CallsInv /\ QuietInv /\ FaultsOK /\ EntriesInv /\ ResultsInv /\ FlagsInv
      /\ RepliesInv /\ TablesInv
  BY DEF IInv
<1>3. SameWorld /\ FaultsOK'
  BY <1>1, <1>2, FaultsSame DEF SameWorld, dbVars, serverVars, engineVars
<1>4. Shrinks(s2c, s2c') /\ Shrinks(finished, finished') /\ Shrinks(results, results')
  BY <1>1 DEF Shrinks, engineVars
<1>5. ResultsInv'
  BY <1>1, <1>2, <1>4, ResultsKept DEF dbVars, flagVars
<1>6. /\ dbOpen' \in BOOLEAN /\ hasId' = hasId /\ c2s' \in Seq(RequestType)
      /\ chatPage' \in BOOLEAN /\ linkUp' \in BOOLEAN /\ resourceUp' \in BOOLEAN
      /\ jobs' \subseteq Messages /\ jobs' = jobs /\ c2s' = c2s
  BY <1>1, <1>2 DEF dbVars, engineVars, TypeOK, DbTypeOK, LinkTypeOK, EngineTypeOK
<1>7. Head(s2c) \in ReplyType /\ Head(s2c) \in Range(s2c)
  BY <1>1, <1>2, QueueTail DEF TypeOK, LinkTypeOK
<1>8. m \in Messages /\ Head(s2c).code \in {"ok", "permanent", "transient"}
  BY <1>7 DEF ReplyType
<1>9. restored
  BY <1>1, <1>2 DEF QuietInv
<1>10. what # "none" => what \in Settling /\ Justified(m, what)
  <2>1. CASE Head(s2c).code = "permanent"
    <3>1. m \in refused /\ what = "fail"
      BY <1>2, <1>7, <2>1 DEF RepliesInv, Outcome
    <3>. QED
      BY <1>2, <3>1, RefusedGivenUp DEF Settling
  <2>2. CASE Head(s2c).code = "ok"
    <3>1. m \in stored /\ what = IF m \in Resources THEN "advance" ELSE "confirm"
      BY <1>2, <1>7, <2>2 DEF RepliesInv, Outcome
    <3>2. m \notin Resources => m \in published
      BY <1>2, <3>1 DEF TablesInv
    <3>. QED
      BY <3>1, <3>2 DEF Settling, Justified
  <2>3. CASE Head(s2c).code = "transient"
    BY <2>3 DEF Outcome
  <2>. QED
    BY <1>8, <2>1, <2>2, <2>3
<1>. HIDE DEF m, what
<1>11. /\ \A n \in Messages : MessageInv(n, registry', action', stage', calls', results')
       /\ calls' \in Seq(CallType) /\ CallsInv'
       /\ action' \in [Messages -> Actions] /\ waiting' \subseteq Messages
       /\ known' \subseteq Messages
  <2>1. CASE begun
    <3>1. /\ what \in Settling /\ Justified(m, what) /\ BeginAction(m, what)
          /\ known' \subseteq known \cup {m}
      BY <1>1, <1>10, <2>1
    <3>2. /\ action' \in [Messages -> Actions]
          /\ waiting' \subseteq Messages
          /\ calls' \in Seq(CallType)
          /\ Named(calls') /\ EnqueuedOnce(calls')
          /\ Extends(calls, calls', registry, action')
          /\ action'[m] = what
          /\ \A n \in Messages \ {m} : action'[n] = action[n]
      BY <1>2, <1>8, <2>1, <3>1, BeginActionFacts
    <3>3. registry' = registry /\ stage' = stage /\ results' = results
      BY <1>1
    <3>4. \A n \in Messages : MessageInv(n, registry, action', stage, calls', results')
      BY <1>8, <2>1, <3>1, <3>2, <3>3, EntriesBegun
    <3>5. CallsInv'
      BY <3>2 DEF CallsInv, Named, EnqueuedOnce
    <3>. QED
      BY <1>2, <1>8, <3>1, <3>2, <3>3, <3>4, <3>5 DEF TypeOK, EntriesTypeOK
  <2>2. CASE ~begun
    <3>1. /\ known' = known /\ action' = action /\ waiting' = waiting /\ calls' = calls
          /\ registry' = registry /\ stage' = stage /\ results' = results
      BY <1>1, <2>2
    <3>. QED
      BY <1>2, <1>3, <3>1, EntriesUntouched DEF TypeOK, EntriesTypeOK
  <2>. QED
    BY <2>1, <2>2
<1>12. EntriesTypeOK' /\ FlagsTypeOK' /\ FlagsInv'
  BY <1>1, <1>2, <1>11 DEF flagVars, dbVars, TypeOK, EntriesTypeOK, FlagsTypeOK, FlagsInv
<1>13. QuietInv'
  BY <1>1, <1>9 DEF QuietInv, flagVars
<1>. QED
  BY <1>3, <1>4, <1>5, <1>6, <1>11, <1>12, <1>13, SlotKept

LEMMA SlotTransferFinishedStep ==
  ASSUME IInv, SlotTransferFinished
  PROVE  IInv'
<1>. DEFINE m == Head(finished).message
            ok == Head(finished).ok
            heard == m \in uploading /\ m \in registry /\ action[m] = "none"
            what == IF ok THEN "confirm" ELSE "fail"
<1>1. /\ finished # <<>> /\ finished' = Tail(finished)
      /\ known' = IF heard /\ ok THEN known \cup {m} ELSE known
      /\ IF heard THEN BeginAction(m, what) ELSE UNCHANGED <<action, waiting, calls>>
      /\ uploading' = IF m \in registry THEN uploading ELSE uploading \ {m}
      /\ UNCHANGED <<dbVars, results, registry, stage, loaded, resumePending,
                     flagVars, linkVars, resourceUp, jobs, source, serverVars,
                     faults>>
  BY DEF SlotTransferFinished
<1>2. /\ TypeOK /\ CallsInv /\ QuietInv /\ FaultsOK /\ EntriesInv /\ ResultsInv /\ FlagsInv
      /\ EndsInv /\ TablesInv
  BY DEF IInv
<1>3. SameWorld /\ FaultsOK'
  BY <1>1, <1>2, FaultsSame DEF SameWorld, dbVars, serverVars
<1>4. Shrinks(s2c, s2c') /\ Shrinks(finished, finished') /\ Shrinks(results, results')
  BY <1>1 DEF Shrinks, linkVars
<1>5. ResultsInv'
  BY <1>1, <1>2, <1>4, ResultsKept DEF dbVars, flagVars
<1>6. /\ dbOpen' \in BOOLEAN /\ hasId' = hasId /\ c2s' \in Seq(RequestType)
      /\ chatPage' \in BOOLEAN /\ linkUp' \in BOOLEAN /\ resourceUp' \in BOOLEAN
      /\ jobs' \subseteq Messages /\ jobs' = jobs /\ c2s' = c2s
  BY <1>1, <1>2 DEF dbVars, linkVars, TypeOK, DbTypeOK, LinkTypeOK, EngineTypeOK
<1>7. Head(finished) \in EndType /\ Head(finished) \in Range(finished)
  BY <1>1, <1>2, QueueTail DEF TypeOK, EngineTypeOK
<1>8. m \in Messages /\ ok \in BOOLEAN
  BY <1>7 DEF EndType
<1>9. restored
  BY <1>1, <1>2 DEF QuietInv
<1>10. what \in Settling /\ Justified(m, what)
  BY <1>2, <1>7 DEF EndsInv, Justified, Settling
<1>. HIDE DEF m, what, ok
<1>11. /\ \A n \in Messages : MessageInv(n, registry', action', stage', calls', results')
       /\ calls' \in Seq(CallType) /\ CallsInv'
       /\ action' \in [Messages -> Actions] /\ waiting' \subseteq Messages
  <2>1. CASE heard
    <3>1. BeginAction(m, what) /\ m \in registry /\ action[m] = "none"
      BY <1>1, <2>1
    <3>2. /\ action' \in [Messages -> Actions]
          /\ waiting' \subseteq Messages
          /\ calls' \in Seq(CallType)
          /\ Named(calls') /\ EnqueuedOnce(calls')
          /\ Extends(calls, calls', registry, action')
          /\ action'[m] = what
          /\ \A n \in Messages \ {m} : action'[n] = action[n]
      BY <1>2, <1>8, <1>10, <3>1, BeginActionFacts
    <3>3. registry' = registry /\ stage' = stage /\ results' = results
      BY <1>1
    <3>4. \A n \in Messages : MessageInv(n, registry, action', stage, calls', results')
      BY <1>8, <1>10, <3>1, <3>2, <3>3, EntriesBegun
    <3>5. CallsInv'
      BY <3>2 DEF CallsInv, Named, EnqueuedOnce
    <3>. QED
      BY <3>2, <3>3, <3>4, <3>5
  <2>2. CASE ~heard
    <3>1. /\ action' = action /\ waiting' = waiting /\ calls' = calls
          /\ registry' = registry /\ stage' = stage /\ results' = results
      BY <1>1, <2>2
    <3>. QED
      BY <1>2, <1>3, <3>1, EntriesUntouched DEF TypeOK, EntriesTypeOK
  <2>. QED
    BY <2>1, <2>2
<1>12. known' \subseteq Messages /\ uploading' \subseteq Messages
  BY <1>1, <1>2, <1>8 DEF TypeOK, EntriesTypeOK
<1>13. EntriesTypeOK' /\ FlagsTypeOK' /\ FlagsInv'
  BY <1>1, <1>2, <1>11, <1>12 DEF flagVars, dbVars, TypeOK, EntriesTypeOK, FlagsTypeOK, FlagsInv
<1>14. QuietInv'
  BY <1>1, <1>9 DEF QuietInv, flagVars
<1>. QED
  BY <1>3, <1>4, <1>5, <1>6, <1>11, <1>13, <1>14, SlotKept

LEMMA SlotResourceLoginSuccessStep ==
  ASSUME IInv, SlotResourceLoginSuccess
  PROVE  IInv'
<1>1. /\ resourceUp' = TRUE /\ resourceReady' = TRUE
      /\ StartUploads(ResumeStart)
      /\ resumePending' = resumePending \cup ResumeQuery
      /\ \E list \in Ordered(ResumeQuery, Keys) : calls' = Get(calls, list)
      /\ UNCHANGED <<dbVars, results, dispatchVars, stage, loaded, connected,
                     dbReady, restored, restoring, restoreWait, linkVars, finished,
                     source, serverVars, faults>>
  BY DEF SlotResourceLoginSuccess
<1>2. /\ TypeOK /\ CallsInv /\ QuietInv /\ FaultsOK /\ EntriesInv /\ ResultsInv /\ FlagsInv
  BY DEF IInv
<1>3. SameWorld /\ FaultsOK'
  BY <1>1, <1>2, FaultsSame DEF SameWorld, dbVars, serverVars
<1>4. Shrinks(s2c, s2c') /\ Shrinks(finished, finished') /\ Shrinks(results, results')
  BY <1>1 DEF Shrinks, linkVars
<1>5. ResultsInv'
  BY <1>1, <1>2, <1>4, ResultsKept DEF dbVars
<1>6. /\ dbOpen' \in BOOLEAN /\ hasId' = hasId /\ c2s' \in Seq(RequestType)
      /\ chatPage' \in BOOLEAN /\ linkUp' \in BOOLEAN /\ resourceUp' \in BOOLEAN /\ c2s' = c2s
  BY <1>1, <1>2 DEF dbVars, linkVars, TypeOK, DbTypeOK, LinkTypeOK
<1>7. /\ ResumeStart \in SUBSET Messages /\ ResumeQuery \in SUBSET Messages
      /\ \A m \in ResumeStart : Advanced(m)
      /\ ~restored => ResumeStart = {} /\ ResumeQuery = {}
  BY ResumeFacts
<1>8. PICK list \in Ordered(ResumeQuery, Keys) : calls' = Get(calls, list)
  BY <1>1
<1>9. calls \in Seq(CallType) /\ Named(calls) /\ EnqueuedOnce(calls)
  BY <1>2 DEF TypeOK, QueuesTypeOK, CallsInv
<1>10. /\ calls' \in Seq(CallType)
       /\ \A c \in Range(calls') : c \in Range(calls) \/ (c.op = "get" /\ ResumeQuery # {})
       /\ Named(calls') /\ EnqueuedOnce(calls')
  BY <1>7, <1>8, <1>9, GetFacts
<1>11. Reads(calls, calls') /\ CallsInv' /\ (~restored /\ PlainCalls(calls) => PlainCalls(calls'))
  BY <1>7, <1>10 DEF Reads, CallsInv, Named, EnqueuedOnce, PlainCalls
<1>12. registry' = registry /\ action' = action /\ stage' = stage /\ results' = results /\ waiting' = waiting
  BY <1>1 DEF dispatchVars
<1>13. \A m \in Messages : MessageInv(m, registry', action', stage', calls', results')
  BY <1>2, <1>11, <1>12, EntriesSame
<1>14. /\ known' \subseteq Messages /\ uploading' \subseteq Messages
       /\ jobs' \subseteq Messages /\ jobs' \subseteq jobs \cup ResumeStart
  BY <1>1, <1>2, <1>7, StartUploadsFacts
<1>15. EntriesTypeOK'
  BY <1>1, <1>2, <1>7, <1>12, <1>14 DEF TypeOK, EntriesTypeOK
<1>16. FlagsTypeOK' /\ FlagsInv'
  BY <1>1, <1>2 DEF dbVars, TypeOK, FlagsTypeOK, FlagsInv
<1>17. ~restored => c2s' = <<>> /\ jobs' = {} /\ NoAction(action') /\ PlainCalls(calls')
  BY <1>2, <1>6, <1>7, <1>11, <1>12, <1>14 DEF QuietInv
<1>18. QuietInv'
  BY <1>1, <1>2, <1>3, <1>4, <1>17, QuietKept
<1>19. \A m \in jobs' : m \in jobs \/ Advanced(m)
  BY <1>7, <1>14
<1>. QED
  BY <1>3, <1>4, <1>5, <1>6, <1>10, <1>11, <1>13, <1>14, <1>15, <1>16, <1>18, <1>19, SlotKept

LEMMA SlotResourceLoginFailedStep ==
  ASSUME IInv, SlotResourceLoginFailed
  PROVE  IInv'
<1>1. /\ Fault("resourceLogin")
      /\ resourceReady' = FALSE
      /\ UNCHANGED <<dbVars, calls, results, dispatchVars, entryVars, connected,
                     dbReady, restored, restoring, restoreWait, linkVars,
                     engineVars, serverVars>>
  BY DEF SlotResourceLoginFailed
<1>2. /\ TypeOK /\ CallsInv /\ QuietInv /\ FaultsOK /\ EntriesInv /\ ResultsInv /\ FlagsInv
  BY DEF IInv
<1>3. SameWorld /\ FaultsOK'
  BY <1>1, <1>2, FaultFacts DEF SameWorld, dbVars, serverVars, engineVars
<1>4. Shrinks(s2c, s2c') /\ Shrinks(finished, finished') /\ Shrinks(results, results')
  BY <1>1 DEF Shrinks, engineVars, linkVars
<1>5. ResultsInv'
  BY <1>1, <1>2, <1>4, ResultsKept DEF dbVars
<1>6. /\ dbOpen' \in BOOLEAN /\ hasId' = hasId /\ c2s' \in Seq(RequestType)
      /\ chatPage' \in BOOLEAN /\ linkUp' \in BOOLEAN /\ resourceUp' \in BOOLEAN
      /\ jobs' \subseteq Messages /\ jobs' = jobs /\ c2s' = c2s
  BY <1>1, <1>2 DEF dbVars, engineVars, linkVars, TypeOK, DbTypeOK, LinkTypeOK, EngineTypeOK
<1>7. registry' = registry /\ action' = action /\ stage' = stage
  BY <1>1 DEF entryVars, dispatchVars
<1>8. /\ \A n \in Messages : MessageInv(n, registry', action', stage', calls', results')
      /\ calls' \in Seq(CallType) /\ CallsInv'
  BY <1>1, <1>3, <1>7, EntriesUntouched
<1>9. EntriesTypeOK' /\ FlagsTypeOK' /\ FlagsInv'
  BY <1>1, <1>2 DEF entryVars, dispatchVars, dbVars, TypeOK, EntriesTypeOK, FlagsTypeOK, FlagsInv
<1>10. QuietInv'
  BY <1>1, <1>2, <1>3, <1>4, <1>6, <1>7, QuietKept DEF QuietInv
<1>. QED
  BY <1>3, <1>4, <1>5, <1>6, <1>8, <1>9, <1>10, SlotKept

\* The registry starts empty.
LEMMA EntriesForgotten ==
  ASSUME EntriesInv, TypeOK, ForgetEntries, NEW q, Reads(calls, q), NEW res,
         Range(res) \subseteq Range(results)
  PROVE  /\ EntriesTypeOK'
         /\ \A m \in Messages : MessageInv(m, registry', action', stage', q, res)
         /\ NoAction(action')
<1>1. /\ registry' = {} /\ action' = [m \in Messages |-> "none"] /\ stage' = FirstStage
      /\ waiting' = {} /\ known' = {} /\ loaded' = {} /\ uploading' = {} /\ resumePending' = {}
  BY DEF ForgetEntries
<1>2. EntriesTypeOK'
  BY <1>1 DEF EntriesTypeOK, FirstStage, Stages, Actions
<1>3. NoAction(action')
  BY <1>1 DEF NoAction
<1>4. ASSUME NEW m \in Messages
      PROVE  MessageInv(m, registry', action', stage', q, res)
  <2>1. MessageInv(m, registry, action, stage, calls, results)
    BY DEF EntriesInv
  <2>2. m \notin registry' /\ action'[m] = "none" /\ stage'[m] = FirstStage[m]
    BY <1>1
  <2>3. Extends(calls, q, registry', action')
    BY ReadsExtends
  <2>. QED
    BY <2>1, <2>2, <2>3, MessageForgotten
<1>. QED
  BY <1>2, <1>3, <1>4

LEMMA SlotDbOpenedStep ==
  ASSUME IInv, SlotDbOpened
  PROVE  IInv'
<1>1. /\ Result("open")
      /\ connected' = connected /\ resourceReady' = resourceReady
      /\ dbReady' = Head(results).ok
      /\ \/ /\ dbReady
            /\ UNCHANGED <<dispatchVars, entryVars, restored, restoreWait>>
         \/ /\ ~dbReady
            /\ restored' = FALSE
            /\ restoreWait' = FALSE
            /\ ForgetEntries
      /\ restoring' = ((dbReady /\ restoring) \/ CanRestore)
      /\ calls' = WithLoad
      /\ UNCHANGED <<dbVars, linkVars, engineVars, serverVars, faults>>
  BY DEF SlotDbOpened, WithLoad
<1>2. /\ TypeOK /\ CallsInv /\ QuietInv /\ FaultsOK /\ EntriesInv /\ ResultsInv /\ FlagsInv
  BY DEF IInv
<1>3. SameWorld /\ FaultsOK'
  BY <1>1, <1>2, FaultsSame DEF SameWorld, dbVars, serverVars, engineVars
<1>4. /\ results # <<>> /\ results' = Tail(results) /\ Head(results).op = "open"
      /\ Head(results) \in ResultType /\ Head(results) \in Range(results)
      /\ Range(results') \subseteq Range(results)
      /\ Shrinks(results, results')
  BY <1>1, <1>2, ResultTaken
<1>5. Shrinks(s2c, s2c') /\ Shrinks(finished, finished')
  BY <1>1 DEF Shrinks, engineVars, linkVars
<1>6. /\ dbOpen' \in BOOLEAN /\ hasId' = hasId /\ c2s' \in Seq(RequestType)
      /\ chatPage' \in BOOLEAN /\ linkUp' \in BOOLEAN /\ resourceUp' \in BOOLEAN
      /\ jobs' \subseteq Messages /\ jobs' = jobs /\ c2s' = c2s /\ dbOpen' = dbOpen
  BY <1>1, <1>2 DEF dbVars, engineVars, linkVars, TypeOK, DbTypeOK, LinkTypeOK, EngineTypeOK
<1>7. Head(results).ok \in BOOLEAN
  BY <1>4 DEF ResultType
<1>8. (Head(results).ok => dbOpen) /\ (~Head(results).ok => ~dbReady)
  BY <1>2, <1>4 DEF ResultsInv
<1>9. AllInOrder(results') /\ \A r \in Range(results') : InOrder(Head(results), r)
  BY <1>2, <1>4, OrderTail DEF ResultsInv, TypeOK, QueuesTypeOK
<1>10. \A r \in Range(results') : r.op = "open" => IF r.ok THEN dbOpen' ELSE ~dbReady'
  <2>. TAKE r \in Range(results')
  <2>1. r.op = "open" /\ r.ok => dbOpen
    BY <1>2, <1>4 DEF ResultsInv
  <2>2. r.op = "open" /\ Head(results).ok => r.ok
    BY <1>4, <1>9 DEF InOrder
  <2>. QED
    BY <1>1, <1>6, <2>1, <2>2
<1>11. ResultsInv'
  BY <1>2, <1>4, <1>9, <1>10 DEF ResultsInv, NamedResults, AllInOrder
<1>12. /\ calls' \in Seq(CallType) /\ CallsInv' /\ Reads(calls, calls')
       /\ PlainCalls(calls) => PlainCalls(calls')
  BY <1>1, <1>2, WithLoadFacts DEF CallsInv, Named, EnqueuedOnce
<1>13. CASE dbReady /\ UNCHANGED <<dispatchVars, entryVars, restored, restoreWait>>
  <2>1. Head(results).ok /\ dbReady' = TRUE
    BY <1>1, <1>7, <1>8, <1>13
  <2>2. registry' = registry /\ action' = action /\ stage' = stage /\ restored' = restored
    BY <1>13 DEF dispatchVars, entryVars
  <2>3. \A m \in Messages : MessageInv(m, registry', action', stage', calls', results')
    BY <1>2, <1>4, <1>12, <2>2, EntriesSame
  <2>4. EntriesTypeOK'
    BY <1>2, <1>13 DEF dispatchVars, entryVars, TypeOK, EntriesTypeOK
  <2>5. FlagsTypeOK' /\ FlagsInv'
    BY <1>1, <1>2, <1>6, <1>8, <1>13, <2>1 DEF TypeOK, FlagsTypeOK, FlagsInv, CanRestore
  <2>6. QuietInv'
    BY <1>2, <1>3, <1>4, <1>5, <1>6, <1>12, <2>2, QuietKept DEF QuietInv
  <2>. QED
    BY <1>3, <1>4, <1>5, <1>6, <1>11, <1>12, <2>3, <2>4, <2>5, <2>6, SlotKept
<1>14. CASE ~dbReady /\ restored' = FALSE /\ restoreWait' = FALSE /\ ForgetEntries
  <2>1. ~restored /\ ~restoring
    BY <1>2, <1>14 DEF FlagsInv
  <2>2. /\ EntriesTypeOK' /\ NoAction(action')
        /\ \A m \in Messages : MessageInv(m, registry', action', stage', calls', results')
    BY <1>2, <1>4, <1>12, <1>14, EntriesForgotten
  <2>3. FlagsTypeOK' /\ FlagsInv'
    BY <1>1, <1>2, <1>6, <1>7, <1>8, <1>14, <2>1 DEF TypeOK, FlagsTypeOK, FlagsInv, CanRestore
  <2>4. restored \in BOOLEAN
    BY <1>2 DEF TypeOK, FlagsTypeOK
  <2>5. restored' = restored
    BY <1>14, <2>1, <2>4
  <2>6. QuietInv'
    BY <1>2, <1>3, <1>4, <1>5, <1>6, <1>12, <2>1, <2>2, <2>5, QuietKept DEF QuietInv
  <2>. QED
    BY <1>3, <1>4, <1>5, <1>6, <1>11, <1>12, <2>2, <2>3, <2>6, SlotKept
<1>. QED
  BY <1>1, <1>13, <1>14

LEMMA SlotSendEnqueuedStep ==
  ASSUME IInv, SlotSendEnqueued
  PROVE  IInv'
<1>. DEFINE m == Head(results).message
<1>1. /\ Result("enqueue")
      /\ UNCHANGED <<flagVars, stage, known, uploading, resumePending, chatPage,
                     linkUp>>
      /\ \/ /\ ~IsNew(Head(results))
            /\ UNCHANGED <<dispatchVars, loaded, calls, c2s>>
         \/ /\ IsNew(Head(results))
            /\ loaded' = loaded \cup ({m} \cap Resources)
            /\ DispatchDueEntries(registry \cup {m}, action, waiting, calls, <<>>)
      /\ UNCHANGED <<dbVars, s2c, engineVars, serverVars, faults>>
  BY DEF SlotSendEnqueued
<1>2. /\ TypeOK /\ CallsInv /\ QuietInv /\ FaultsOK /\ EntriesInv /\ ResultsInv /\ FlagsInv
      /\ JobsInv /\ RowsInv
  BY DEF IInv
<1>3. SameWorld /\ FaultsOK'
  BY <1>1, <1>2, FaultsSame DEF SameWorld, dbVars, serverVars, engineVars
<1>4. /\ results # <<>> /\ results' = Tail(results) /\ Head(results).op = "enqueue"
      /\ Head(results) \in ResultType /\ Head(results) \in Range(results)
      /\ Range(results') \subseteq Range(results)
      /\ Shrinks(results, results')
  BY <1>1, <1>2, ResultTaken
<1>5. Shrinks(s2c, s2c') /\ Shrinks(finished, finished')
  BY <1>1 DEF Shrinks, engineVars
<1>6. ResultsInv'
  BY <1>1, <1>2, <1>4, ResultsKept DEF dbVars, flagVars
<1>7. /\ dbOpen' \in BOOLEAN /\ hasId' = hasId
      /\ chatPage' \in BOOLEAN /\ linkUp' \in BOOLEAN /\ resourceUp' \in BOOLEAN
      /\ jobs' \subseteq Messages /\ jobs' = jobs
      /\ stage' = stage /\ restored' = restored
  BY <1>1, <1>2 DEF dbVars, engineVars, flagVars, TypeOK, DbTypeOK, LinkTypeOK, EngineTypeOK
<1>8. FlagsTypeOK' /\ FlagsInv'
  BY <1>1, <1>2 DEF dbVars, flagVars, TypeOK, FlagsTypeOK, FlagsInv
<1>9. CASE ~IsNew(Head(results)) /\ UNCHANGED <<dispatchVars, loaded, calls, c2s>>
  <2>1. /\ registry' = registry /\ action' = action /\ calls' = calls /\ c2s' = c2s
        /\ waiting' = waiting /\ loaded' = loaded
    BY <1>9 DEF dispatchVars
  <2>2. \A n \in Messages : MessageInv(n, registry', action', stage', calls', results')
    BY <1>2, <1>4, <1>7, <2>1, EntriesSame, ReadsNothing
  <2>3. EntriesTypeOK'
    BY <1>1, <1>2, <2>1 DEF TypeOK, EntriesTypeOK
  <2>4. QuietInv'
    BY <1>2, <1>3, <1>4, <1>5, <1>7, <2>1, QuietKept DEF QuietInv
  <2>5. calls' \in Seq(CallType) /\ c2s' \in Seq(RequestType) /\ CallsInv'
    BY <1>2, <2>1 DEF TypeOK, QueuesTypeOK, LinkTypeOK, CallsInv, Named, EnqueuedOnce
  <2>. QED
    BY <1>3, <1>4, <1>5, <1>6, <1>7, <1>8, <2>2, <2>3, <2>4, <2>5, SlotKept
<1>10. CASE /\ IsNew(Head(results))
            /\ loaded' = loaded \cup ({m} \cap Resources)
            /\ DispatchDueEntries(registry \cup {m}, action, waiting, calls, <<>>)
  <2>. DEFINE reg == registry \cup {m}
  <2>1. m \in Messages /\ m \notin registry /\ Told(results, "enqueue", m) /\ IsEnqueued(Head(results))
    BY <1>2, <1>4, <1>10 DEF IsNew, ResultsInv, NamedResults, Told, IsEnqueued
  <2>2. MessageInv(m, registry, action, stage, calls, results)
    BY <1>2, <2>1 DEF EntriesInv
  <2>3. Row(m, stage[m]) /\ \A op \in Settling : ~Asked(calls, op, m)
    BY <2>1, <2>2 DEF MessageInv, QueuedInv, EntryInv
  <2>4. ~Told(results', "enqueue", m)
    <3>1. \A r \in Range(results') : InOrder(Head(results), r)
      BY <1>2, <1>4, OrderTail DEF ResultsInv, TypeOK, QueuesTypeOK
    <3>. QED
      BY <2>1, <3>1 DEF InOrder, Told, IsEnqueued
  <2>5. /\ reg \in SUBSET Messages /\ action \in [Messages -> Actions] /\ waiting \in SUBSET Messages
        /\ c2s \in Seq(RequestType) /\ calls \in Seq(CallType) /\ Named(calls) /\ EnqueuedOnce(calls)
    BY <1>2, <2>1 DEF TypeOK, EntriesTypeOK, LinkTypeOK, QueuesTypeOK, CallsInv
  <2>6. DispatchDueEntries(reg, action, waiting, calls, <<>>)
    BY <1>10
  <2>7. m \in reg /\ \A n \in Messages \ {m} : n \in reg <=> n \in registry
    OBVIOUS
  <2>. HIDE DEF m, reg
  <2>8. \A n \in Messages : MessageInv(n, reg, action, stage', calls, results')
    <3>. SUFFICES ASSUME NEW n \in Messages
                  PROVE  MessageInv(n, reg, action, stage', calls, results')
      OBVIOUS
    <3>1. MessageInv(n, registry, action, stage, calls, results)
      BY <1>2 DEF EntriesInv
    <3>2. Extends(calls, calls, {}, action) /\ Extends(calls, calls, reg, action)
      BY DEF Extends
    <3>3. CASE n = m
      <4>1. Row(n, stage'[n])
        BY <1>7, <2>3, <3>3
      <4>2. /\ n \notin registry /\ n \in reg /\ ~Told(results', "enqueue", n)
            /\ \A op \in Settling : ~Asked(calls, op, n)
        BY <2>1, <2>3, <2>4, <2>7, <3>3
      <4>. QED
        BY <1>2, <1>4, <3>1, <3>2, <4>1, <4>2, MessageRegistered
    <3>4. CASE n # m
      <4>1. (n \in reg <=> n \in registry) /\ stage'[n] = stage[n]
        BY <1>7, <2>7, <3>4
      <4>. QED
        BY <1>4, <3>1, <3>2, <4>1, MessageKept
    <3>. QED
      BY <3>3, <3>4
  <2>9. /\ registry' = reg
        /\ action' \in [Messages -> Actions]
        /\ waiting' \subseteq Messages
        /\ calls' \in Seq(CallType)
        /\ c2s' \in Seq(RequestType)
        /\ Named(calls') /\ EnqueuedOnce(calls')
        /\ Extends(calls, calls', reg, action')
    BY <2>5, <2>6, DispatchFacts
  <2>10. \A n \in Messages : \/ action'[n] = action[n]
                             \/ n \in reg /\ Lost(n, action) /\ action'[n] = "fail"
    BY <2>5, <2>6, DispatchFacts
  <2>11. ~restored' => /\ c2s' = c2s
                       /\ \A n \in Messages : action'[n] = action[n]
                       /\ Range(calls') \subseteq Range(calls)
    BY <2>5, <2>6, DispatchFacts
  <2>12. \A n \in Messages : MessageInv(n, registry', action', stage', calls', results')
    <3>1. JobsInv /\ registry' = reg /\ Extends(calls, calls', reg, action')
      BY <1>2, <2>9
    <3>. QED
      BY <2>8, <2>10, <3>1, EntriesDispatched
  <2>13. loaded' \subseteq Messages
    BY <1>2, <1>10, <2>1 DEF TypeOK, EntriesTypeOK
  <2>14. EntriesTypeOK'
    BY <1>1, <1>2, <2>5, <2>9, <2>13 DEF TypeOK, EntriesTypeOK
  <2>15. ~restored => c2s' = <<>> /\ jobs' = {} /\ NoAction(action') /\ PlainCalls(calls')
    BY <1>2, <1>7, <2>11 DEF QuietInv, NoAction, PlainCalls
  <2>16. QuietInv'
    BY <1>2, <1>3, <1>4, <1>5, <1>7, <2>15, QuietKept
  <2>17. CallsInv'
    BY <2>9 DEF CallsInv, Named, EnqueuedOnce
  <2>. QED
    BY <1>3, <1>4, <1>5, <1>6, <1>7, <1>8, <2>9, <2>12, <2>14, <2>16, <2>17, SlotKept
<1>. QED
  BY <1>1, <1>9, <1>10

\* The row of a restored message, as slot_outbox_loaded reads it.
LEMMA LoadedRow ==
  ASSUME NEW rows \in Seq(Rows), NEW m \in Range([i \in DOMAIN rows |-> rows[i].message]),
         Range(rows) \subseteq Range(outbox)
  PROVE  /\ m \in Messages
         /\ StageOf(rows, m) \in Stages
         /\ Row(m, StageOf(rows, m))
         /\ Listed(rows, m)
<1>1. \E i \in DOMAIN rows : rows[i].message = m
  BY DEF Range
<1>. DEFINE i == CHOOSE j \in DOMAIN rows : rows[j].message = m
<1>2. i \in DOMAIN rows /\ rows[i].message = m
  BY <1>1
<1>3. StageOf(rows, m) = rows[i].stage
  BY DEF StageOf
<1>. HIDE DEF i
<1>4. rows[i] \in Rows /\ rows[i] \in Range(rows)
  BY <1>2 DEF Range
<1>. QED
  BY <1>2, <1>3, <1>4 DEF Rows, Row, Listed

LEMMA SlotOutboxLoadedStep ==
  ASSUME IInv, SlotOutboxLoaded
  PROVE  IInv'
<1>. DEFINE rows == Head(results).rows
            order == [i \in DOMAIN rows |-> rows[i].message]
            entries == Range(order)
            new == entries \ registry
            query == (entries \cap Resources) \ resumePending
<1>1. /\ Result("load")
      /\ UNCHANGED <<connected, dbReady, resourceReady, known, loaded, uploading,
                     chatPage, linkUp>>
      /\ \/ /\ ~restoring
            /\ UNCHANGED <<restored, restoring, restoreWait, dispatchVars, stage,
                           resumePending, calls, c2s>>
         \/ /\ restoring
            /\ ~Head(results).ok
            /\ restoring' = FALSE
            /\ restoreWait' = TRUE
            /\ UNCHANGED <<restored, dispatchVars, stage, resumePending, calls,
                           c2s>>
         \/ /\ restoring
            /\ Head(results).ok
            /\ restoring' = FALSE
            /\ restoreWait' = FALSE
            /\ restored' = TRUE
            /\ stage' = [m \in Messages |-> IF m \in new
                           THEN StageOf(rows, m) ELSE stage[m]]
            /\ resumePending' = resumePending \cup query
            /\ \E list \in Ordered(query, Keys) :
                 DispatchDueEntries(registry \cup new, action, waiting,
                   Get(calls, list), order)
      /\ UNCHANGED <<dbVars, s2c, engineVars, serverVars, faults>>
  BY DEF SlotOutboxLoaded
<1>2. /\ TypeOK /\ CallsInv /\ QuietInv /\ FaultsOK /\ EntriesInv /\ ResultsInv /\ FlagsInv
      /\ JobsInv /\ RowsInv
  BY DEF IInv
<1>3. SameWorld /\ FaultsOK'
  BY <1>1, <1>2, FaultsSame DEF SameWorld, dbVars, serverVars, engineVars
<1>4. /\ results # <<>> /\ results' = Tail(results) /\ Head(results).op = "load"
      /\ Head(results) \in ResultType /\ Head(results) \in Range(results)
      /\ Range(results') \subseteq Range(results)
      /\ Shrinks(results, results')
  BY <1>1, <1>2, ResultTaken
<1>5. Shrinks(s2c, s2c') /\ Shrinks(finished, finished')
  BY <1>1 DEF Shrinks, engineVars
<1>6. ResultsInv'
  BY <1>1, <1>2, <1>4, ResultsKept DEF dbVars
<1>7. /\ dbOpen' \in BOOLEAN /\ dbOpen' = dbOpen /\ hasId' = hasId
      /\ chatPage' \in BOOLEAN /\ linkUp' \in BOOLEAN /\ resourceUp' \in BOOLEAN
      /\ jobs' \subseteq Messages /\ jobs' = jobs
  BY <1>1, <1>2 DEF dbVars, engineVars, TypeOK, DbTypeOK, LinkTypeOK, EngineTypeOK
<1>8. CASE /\ UNCHANGED <<restored, dispatchVars, stage, resumePending, calls, c2s>>
           /\ \/ UNCHANGED <<restoring, restoreWait>>
              \/ restoring' = FALSE /\ restoreWait' = TRUE
  <2>1. /\ registry' = registry /\ action' = action /\ calls' = calls /\ c2s' = c2s
        /\ waiting' = waiting /\ stage' = stage /\ restored' = restored
        /\ resumePending' = resumePending
    BY <1>8 DEF dispatchVars
  <2>2. \A n \in Messages : MessageInv(n, registry', action', stage', calls', results')
    BY <1>2, <1>4, <2>1, EntriesSame, ReadsNothing
  <2>3. EntriesTypeOK'
    BY <1>1, <1>2, <2>1 DEF TypeOK, EntriesTypeOK
  <2>4. QuietInv'
    BY <1>2, <1>3, <1>4, <1>5, <1>7, <2>1, QuietKept DEF QuietInv
  <2>5. calls' \in Seq(CallType) /\ c2s' \in Seq(RequestType) /\ CallsInv'
    BY <1>2, <2>1 DEF TypeOK, QueuesTypeOK, LinkTypeOK, CallsInv, Named, EnqueuedOnce
  <2>6. FlagsTypeOK' /\ FlagsInv'
    <3>1. /\ connected' = connected /\ dbReady' = dbReady
          /\ resourceReady' = resourceReady /\ restored' = restored
      BY <1>1, <2>1
    <3>2. FlagsTypeOK /\ FlagsInv
      BY <1>2 DEF TypeOK
    <3>3. CASE UNCHANGED <<restoring, restoreWait>>
      BY <1>7, <3>1, <3>2, <3>3 DEF FlagsTypeOK, FlagsInv
    <3>4. CASE restoring' = FALSE /\ restoreWait' = TRUE
      BY <1>7, <3>1, <3>2, <3>4 DEF FlagsTypeOK, FlagsInv
    <3>. QED
      BY <1>8, <3>3, <3>4
  <2>. QED
    BY <1>3, <1>4, <1>5, <1>6, <1>7, <2>2, <2>3, <2>4, <2>5, <2>6, SlotKept
<1>9. CASE /\ restoring
           /\ Head(results).ok
           /\ restoring' = FALSE
           /\ restoreWait' = FALSE
           /\ restored' = TRUE
           /\ stage' = [m \in Messages |-> IF m \in new
                          THEN StageOf(rows, m) ELSE stage[m]]
           /\ resumePending' = resumePending \cup query
           /\ \E list \in Ordered(query, Keys) :
                DispatchDueEntries(registry \cup new, action, waiting,
                  Get(calls, list), order)
  <2>1. ~restored /\ dbReady
    BY <1>2, <1>9 DEF FlagsInv
  <2>2. PlainCalls(calls) /\ PlainResults(results)
    BY <1>2, <2>1 DEF QuietInv
  <2>3. rows \in Seq(Rows) /\ Range(rows) \subseteq Range(outbox)
    BY <1>4, <2>2 DEF PlainResults, ResultType
  <2>4. \A m \in entries : /\ m \in Messages
                           /\ StageOf(rows, m) \in Stages
                           /\ Row(m, StageOf(rows, m))
                           /\ Listed(rows, m)
    BY <2>3, LoadedRow
  <2>5. \A r \in Range(results') : InOrder(Head(results), r)
    BY <1>2, <1>4, OrderTail DEF ResultsInv, TypeOK, QueuesTypeOK
  <2>6. \A m \in entries : ~Told(results', "enqueue", m)
    BY <2>4, <2>5 DEF InOrder, Told, IsEnqueued
  <2>7. \A m \in Messages : \A op \in Settling : ~Asked(calls, op, m)
    BY <2>2 DEF PlainCalls, Asked, Settling, Plain
  <2>8. \A m \in Messages : stage'[m] = IF m \in new THEN StageOf(rows, m) ELSE stage[m]
    BY <1>9
  <2>9. stage' \in [Messages -> Stages]
    BY <1>2, <1>9, <2>4 DEF TypeOK, EntriesTypeOK
  <2>. DEFINE reg == registry \cup new
  <2>10. PICK list \in Ordered(query, Keys) :
           DispatchDueEntries(registry \cup new, action, waiting, Get(calls, list), order)
    BY <1>9
  <2>. DEFINE queue == Get(calls, list)
  <2>11. /\ reg \in SUBSET Messages /\ action \in [Messages -> Actions] /\ waiting \in SUBSET Messages
         /\ c2s \in Seq(RequestType) /\ calls \in Seq(CallType) /\ Named(calls) /\ EnqueuedOnce(calls)
         /\ query \in SUBSET Messages
    BY <1>2, <2>4 DEF TypeOK, EntriesTypeOK, LinkTypeOK, QueuesTypeOK, CallsInv
  <2>12. /\ new \subseteq entries /\ \A m \in new : m \notin registry /\ m \in reg
         /\ \A m \in Messages \ new : m \in reg <=> m \in registry
    OBVIOUS
  <2>13. resumePending' \subseteq Messages
    BY <1>2, <1>9, <2>11 DEF TypeOK, EntriesTypeOK
  <2>. HIDE DEF rows, order, entries, new, query
  <2>14. queue \in Seq(CallType) /\ Named(queue) /\ EnqueuedOnce(queue) /\ Reads(calls, queue)
    BY <2>10, <2>11, GetFacts DEF Reads
  <2>15. DispatchDueEntries(reg, action, waiting, queue, order)
    BY <2>10
  <2>. HIDE DEF reg, queue
  <2>16. \A m \in Messages : MessageInv(m, reg, action, stage', queue, results')
    <3>. SUFFICES ASSUME NEW m \in Messages
                  PROVE  MessageInv(m, reg, action, stage', queue, results')
      OBVIOUS
    <3>1. MessageInv(m, registry, action, stage, calls, results)
      BY <1>2 DEF EntriesInv
    <3>2. Extends(calls, queue, {}, action) /\ Extends(calls, queue, reg, action)
      BY <2>14, ReadsExtends
    <3>3. CASE m \in new
      <4>1. Row(m, stage'[m])
        BY <2>4, <2>8, <2>12, <3>3
      <4>2. /\ m \notin registry /\ m \in reg /\ ~Told(results', "enqueue", m)
            /\ \A op \in Settling : ~Asked(calls, op, m)
        BY <2>6, <2>7, <2>12, <3>3
      <4>. QED
        BY <1>2, <1>4, <3>1, <3>2, <4>1, <4>2, MessageRegistered
    <3>4. CASE m \notin new
      <4>1. (m \in reg <=> m \in registry) /\ stage'[m] = stage[m]
        BY <2>8, <2>12, <3>4
      <4>. QED
        BY <1>4, <3>1, <3>2, <4>1, MessageKept
    <3>. QED
      BY <3>3, <3>4
  <2>17. /\ registry' = reg
         /\ action' \in [Messages -> Actions]
         /\ waiting' \subseteq Messages
         /\ calls' \in Seq(CallType)
         /\ c2s' \in Seq(RequestType)
         /\ Named(calls') /\ EnqueuedOnce(calls')
         /\ Extends(queue, calls', reg, action')
    BY <2>11, <2>14, <2>15, DispatchFacts
  <2>18. \A m \in Messages : \/ action'[m] = action[m]
                             \/ m \in reg /\ Lost(m, action) /\ action'[m] = "fail"
    BY <2>11, <2>14, <2>15, DispatchFacts
  <2>19. \A m \in Messages : MessageInv(m, registry', action', stage', calls', results')
    <3>1. JobsInv /\ registry' = reg /\ Extends(queue, calls', reg, action')
      BY <1>2, <2>17
    <3>. QED
      BY <2>16, <2>18, <3>1, EntriesDispatched
  <2>20. EntriesTypeOK'
    BY <1>1, <1>2, <2>9, <2>11, <2>13, <2>17 DEF TypeOK, EntriesTypeOK
  <2>21. FlagsTypeOK' /\ FlagsInv'
    BY <1>1, <1>2, <1>7, <1>9, <2>1 DEF TypeOK, FlagsTypeOK, FlagsInv
  <2>22. QuietInv' /\ CallsInv'
    BY <1>9, <2>17 DEF QuietInv, CallsInv, Named, EnqueuedOnce
  <2>. QED
    BY <1>3, <1>4, <1>5, <1>6, <1>7, <2>17, <2>19, <2>20, <2>21, <2>22, SlotKept
<1>. QED
  BY <1>1, <1>8, <1>9

LEMMA SlotMessageLoadedStep ==
  ASSUME IInv, SlotMessageLoaded
  PROVE  IInv'
<1>. DEFINE m == Head(results).message
            asked == Head(results).ok /\ m \in resumePending
<1>1. /\ Result("get")
      /\ UNCHANGED <<flagVars, stage, chatPage, linkUp>>
      /\ resumePending' = IF asked THEN resumePending \ {m} ELSE resumePending
      /\ \/ /\ ~asked \/ m \notin registry
            /\ UNCHANGED <<dispatchVars, known, loaded, uploading, calls, c2s, jobs>>
         \/ /\ asked
            /\ m \in registry
            /\ stage[m] = "uploading"
            /\ loaded' = loaded \cup {m}
            /\ StartUploads({m})
            /\ UNCHANGED <<dispatchVars, calls, c2s>>
         \/ /\ asked
            /\ m \in registry
            /\ stage[m] # "uploading"
            /\ loaded' = loaded \cup {m}
            /\ known' = IF Head(results).id THEN known \cup {m} ELSE known \ {m}
            /\ DispatchDueEntries(registry, action, waiting, calls, <<>>)
            /\ UNCHANGED <<uploading, jobs>>
      /\ UNCHANGED <<dbVars, s2c, resourceUp, finished, source, serverVars,
                     faults>>
  BY DEF SlotMessageLoaded
<1>2. /\ TypeOK /\ CallsInv /\ QuietInv /\ FaultsOK /\ EntriesInv /\ ResultsInv /\ FlagsInv
      /\ JobsInv
  BY DEF IInv
<1>3. SameWorld /\ FaultsOK'
  BY <1>1, <1>2, FaultsSame DEF SameWorld, dbVars, serverVars
<1>4. /\ results # <<>> /\ results' = Tail(results) /\ Head(results).op = "get"
      /\ Head(results) \in ResultType /\ Head(results) \in Range(results)
      /\ Range(results') \subseteq Range(results)
      /\ Shrinks(results, results')
  BY <1>1, <1>2, ResultTaken
<1>5. Shrinks(s2c, s2c') /\ Shrinks(finished, finished')
  BY <1>1 DEF Shrinks
<1>6. ResultsInv'
  BY <1>1, <1>2, <1>4, ResultsKept DEF dbVars, flagVars
<1>7. /\ dbOpen' \in BOOLEAN /\ hasId' = hasId
      /\ chatPage' \in BOOLEAN /\ linkUp' \in BOOLEAN /\ resourceUp' \in BOOLEAN
      /\ stage' = stage
  BY <1>1, <1>2 DEF dbVars, TypeOK, DbTypeOK, LinkTypeOK, EngineTypeOK
<1>8. FlagsTypeOK' /\ FlagsInv'
  BY <1>1, <1>2 DEF dbVars, flagVars, TypeOK, FlagsTypeOK, FlagsInv
<1>9. restored /\ restored' = restored
  BY <1>1, <1>2, <1>4 DEF QuietInv, PlainResults, Plain, flagVars
<1>10. QuietInv'
  BY <1>9 DEF QuietInv
<1>11. resumePending' \subseteq Messages /\ registry \subseteq Messages
  BY <1>1, <1>2 DEF TypeOK, EntriesTypeOK
<1>12. /\ stage' \in [Messages -> Stages] /\ registry \in SUBSET Messages
       /\ action \in [Messages -> Actions] /\ waiting \in SUBSET Messages
       /\ c2s \in Seq(RequestType) /\ calls \in Seq(CallType) /\ Named(calls) /\ EnqueuedOnce(calls)
       /\ known \subseteq Messages /\ loaded \subseteq Messages /\ uploading \subseteq Messages
       /\ jobs \subseteq Messages
  BY <1>2, <1>7 DEF TypeOK, EntriesTypeOK, LinkTypeOK, QueuesTypeOK, EngineTypeOK, CallsInv
<1>13. \A n \in Messages : MessageInv(n, registry, action, stage', calls, results')
  BY <1>2, <1>4, <1>7, EntriesSame, ReadsNothing
<1>. HIDE DEF asked
<1>14. CASE UNCHANGED <<dispatchVars, known, loaded, uploading, calls, c2s, jobs>>
  <2>1. /\ registry' = registry /\ action' = action /\ calls' = calls /\ c2s' = c2s
        /\ waiting' = waiting /\ loaded' = loaded /\ known' = known
        /\ uploading' = uploading /\ jobs' = jobs
    BY <1>14 DEF dispatchVars
  <2>2. \A n \in Messages : MessageInv(n, registry', action', stage', calls', results')
    BY <1>13, <2>1
  <2>3. EntriesTypeOK'
    BY <1>11, <1>12, <2>1 DEF EntriesTypeOK
  <2>4. calls' \in Seq(CallType) /\ c2s' \in Seq(RequestType) /\ CallsInv' /\ jobs' \subseteq Messages
    BY <1>2, <1>12, <2>1 DEF CallsInv, Named, EnqueuedOnce
  <2>. QED
    BY <1>3, <1>4, <1>5, <1>6, <1>7, <1>8, <1>10, <2>1, <2>2, <2>3, <2>4, SlotKept
<1>15. CASE /\ m \in registry
            /\ stage[m] = "uploading"
            /\ loaded' = loaded \cup {m}
            /\ StartUploads({m})
            /\ UNCHANGED <<dispatchVars, calls, c2s>>
  <2>1. /\ registry' = registry /\ action' = action /\ calls' = calls /\ c2s' = c2s
        /\ waiting' = waiting
    BY <1>15 DEF dispatchVars
  <2>2. \A n \in Messages : MessageInv(n, registry', action', stage', calls', results')
    BY <1>13, <2>1
  <2>3. m \in Messages /\ {m} \in SUBSET Messages
    BY <1>11, <1>15
  <2>4. /\ known' \subseteq Messages /\ uploading' \subseteq Messages
        /\ jobs' \subseteq Messages /\ jobs' \subseteq jobs \cup {m}
    BY <1>2, <1>15, <2>3, StartUploadsFacts
  <2>5. loaded' \subseteq Messages
    BY <1>12, <1>15, <2>3
  <2>6. EntriesTypeOK'
    BY <1>11, <1>12, <2>1, <2>4, <2>5 DEF EntriesTypeOK
  <2>7. calls' \in Seq(CallType) /\ c2s' \in Seq(RequestType) /\ CallsInv'
    BY <1>2, <1>12, <2>1 DEF CallsInv, Named, EnqueuedOnce
  <2>8. Advanced(m)
    BY <1>2, <1>15, <2>3 DEF EntriesInv, MessageInv, EntryInv
  <2>9. \A n \in jobs' : n \in jobs \/ Advanced(n)
    BY <2>4, <2>8
  <2>. QED
    BY <1>3, <1>4, <1>5, <1>6, <1>7, <1>8, <1>10, <2>2, <2>4, <2>6, <2>7, <2>9, SlotKept
<1>16. CASE /\ m \in registry
            /\ loaded' = loaded \cup {m}
            /\ known' = IF Head(results).id THEN known \cup {m} ELSE known \ {m}
            /\ DispatchDueEntries(registry, action, waiting, calls, <<>>)
            /\ UNCHANGED <<uploading, jobs>>
  <2>1. /\ registry' = registry
        /\ action' \in [Messages -> Actions]
        /\ waiting' \subseteq Messages
        /\ calls' \in Seq(CallType)
        /\ c2s' \in Seq(RequestType)
        /\ Named(calls') /\ EnqueuedOnce(calls')
        /\ Extends(calls, calls', registry, action')
    BY <1>12, <1>16, DispatchFacts
  <2>2. \A n \in Messages : \/ action'[n] = action[n]
                            \/ n \in registry /\ Lost(n, action) /\ action'[n] = "fail"
    BY <1>12, <1>16, DispatchFacts
  <2>3. \A n \in Messages : MessageInv(n, registry', action', stage', calls', results')
    <3>1. JobsInv /\ registry' = registry /\ Extends(calls, calls', registry, action')
      BY <1>2, <2>1
    <3>. QED
      BY <1>13, <2>2, <3>1, EntriesDispatched
  <2>4. /\ known' \subseteq Messages /\ loaded' \subseteq Messages
        /\ uploading' \subseteq Messages /\ jobs' = jobs
    BY <1>11, <1>12, <1>16
  <2>5. EntriesTypeOK'
    BY <1>11, <1>12, <2>1, <2>4 DEF EntriesTypeOK
  <2>6. CallsInv'
    BY <2>1 DEF CallsInv, Named, EnqueuedOnce
  <2>. QED
    BY <1>3, <1>4, <1>5, <1>6, <1>7, <1>8, <1>10, <1>12, <2>1, <2>3, <2>4, <2>5, <2>6, SlotKept
<1>. QED
  BY <1>1, <1>14, <1>15, <1>16

LEMMA SlotSettledStep ==
  ASSUME IInv, NEW op \in {"confirm", "fail"}, SlotSettled(op)
  PROVE  IInv'
<1>. DEFINE m == Head(results).message
<1>1. /\ Result(op)
      /\ IF IsAwaited(Head(results))
           THEN /\ registry' = registry \ {m}
                /\ uploading' = uploading \ {m}
                /\ action' = [action EXCEPT ![m] = "none"]
                /\ waiting' = waiting \ {m}
                /\ stage' = [stage EXCEPT ![m] = FirstStage[m]]
                /\ known' = known \ {m}
                /\ loaded' = loaded \ {m}
           ELSE UNCHANGED <<registry, uploading, action, waiting, stage, known,
                            loaded>>
      /\ UNCHANGED <<dbVars, calls, resumePending, flagVars, linkVars, engineVars,
                     serverVars, faults>>
  BY DEF SlotSettled
<1>2. /\ TypeOK /\ CallsInv /\ QuietInv /\ FaultsOK /\ EntriesInv /\ ResultsInv /\ FlagsInv
  BY DEF IInv
<1>3. SameWorld /\ FaultsOK'
  BY <1>1, <1>2, FaultsSame DEF SameWorld, dbVars, serverVars, engineVars
<1>4. /\ results # <<>> /\ results' = Tail(results) /\ Head(results).op = op
      /\ Head(results) \in ResultType /\ Head(results) \in Range(results)
      /\ Range(results') \subseteq Range(results)
      /\ Shrinks(results, results')
  BY <1>1, <1>2, ResultTaken
<1>5. Shrinks(s2c, s2c') /\ Shrinks(finished, finished')
  BY <1>1 DEF Shrinks, engineVars, linkVars
<1>6. ResultsInv'
  BY <1>1, <1>2, <1>4, ResultsKept DEF dbVars, flagVars
<1>7. /\ dbOpen' \in BOOLEAN /\ hasId' = hasId /\ c2s' \in Seq(RequestType)
      /\ chatPage' \in BOOLEAN /\ linkUp' \in BOOLEAN /\ resourceUp' \in BOOLEAN
      /\ jobs' \subseteq Messages /\ jobs' = jobs /\ calls' = calls
      /\ resumePending' = resumePending
  BY <1>1, <1>2 DEF dbVars, engineVars, linkVars, TypeOK, DbTypeOK, LinkTypeOK, EngineTypeOK
<1>8. FlagsTypeOK' /\ FlagsInv'
  BY <1>1, <1>2 DEF dbVars, flagVars, TypeOK, FlagsTypeOK, FlagsInv
<1>9. restored /\ restored' = restored
  BY <1>1, <1>2, <1>4 DEF QuietInv, PlainResults, Plain, flagVars
<1>10. QuietInv'
  BY <1>9 DEF QuietInv
<1>11. calls' \in Seq(CallType) /\ CallsInv'
  BY <1>2, <1>7 DEF TypeOK, QueuesTypeOK, CallsInv, Named, EnqueuedOnce
<1>12. EntriesTypeOK
  BY <1>2 DEF TypeOK
<1>13. (\A n \in Messages : MessageInv(n, registry', action', stage', calls', results')) /\ EntriesTypeOK'
  <2>1. CASE IsAwaited(Head(results))
    <3>1. m \in registry /\ m \in Messages
      BY <1>12, <2>1 DEF IsAwaited, EntriesTypeOK
    <3>2. /\ registry' = registry \ {m} /\ uploading' = uploading \ {m}
          /\ action' = [action EXCEPT ![m] = "none"] /\ waiting' = waiting \ {m}
          /\ stage' = [stage EXCEPT ![m] = FirstStage[m]]
          /\ known' = known \ {m} /\ loaded' = loaded \ {m}
      BY <1>1, <2>1
    <3>3. /\ action' \in [Messages -> Actions] /\ action'[m] = "none"
          /\ \A n \in Messages \ {m} : action'[n] = action[n]
      BY <1>12, <3>1, <3>2 DEF EntriesTypeOK, Actions
    <3>4. FirstStage[m] \in Stages
      BY <3>1 DEF FirstStage, Stages
    <3>5. /\ stage' \in [Messages -> Stages] /\ stage'[m] = FirstStage[m]
          /\ \A n \in Messages \ {m} : stage'[n] = stage[n]
      BY <1>12, <3>1, <3>2, <3>4 DEF EntriesTypeOK
    <3>6. EntriesTypeOK'
      BY <1>7, <1>12, <3>2, <3>3, <3>5 DEF EntriesTypeOK
    <3>7. m \notin registry' /\ \A n \in Messages \ {m} : n \in registry' <=> n \in registry
      BY <3>2
    <3>. HIDE DEF m
    <3>8. ASSUME NEW n \in Messages
          PROVE  MessageInv(n, registry', action', stage', calls', results')
      <4>1. MessageInv(n, registry, action, stage, calls, results)
        BY <1>2 DEF EntriesInv
      <4>2. Extends(calls, calls', registry', action')
        BY <1>7 DEF Extends
      <4>3. CASE n = m
        <5>1. n \notin registry' /\ action'[n] = "none" /\ stage'[n] = FirstStage[n]
          BY <3>3, <3>5, <3>7, <4>3
        <5>. QED
          BY <1>4, <4>1, <4>2, <5>1, MessageForgotten
      <4>4. CASE n # m
        <5>1. (n \in registry' <=> n \in registry) /\ action'[n] = action[n] /\ stage'[n] = stage[n]
          BY <3>3, <3>5, <3>7, <4>4
        <5>. QED
          BY <1>4, <4>1, <4>2, <5>1, MessageKept
      <4>. QED
        BY <4>3, <4>4
    <3>. QED
      BY <3>6, <3>8
  <2>2. CASE ~IsAwaited(Head(results))
    <3>1. /\ registry' = registry /\ action' = action /\ stage' = stage
          /\ uploading' = uploading /\ waiting' = waiting /\ known' = known /\ loaded' = loaded
      BY <1>1, <2>2
    <3>2. \A n \in Messages : MessageInv(n, registry', action', stage', calls', results')
      BY <1>2, <1>4, <1>7, <3>1, EntriesSame, ReadsNothing
    <3>. QED
      BY <1>7, <1>12, <3>1, <3>2 DEF EntriesTypeOK
  <2>. QED
    BY <2>1, <2>2
<1>. QED
  BY <1>3, <1>4, <1>5, <1>6, <1>7, <1>8, <1>10, <1>11, <1>13, SlotKept

LEMMA SlotStageUpdatedStep ==
  ASSUME IInv, SlotStageUpdated
  PROVE  IInv'
<1>. DEFINE m == Head(results).message
<1>1. /\ Result("advance")
      /\ UNCHANGED flagVars
      /\ IF IsAwaited(Head(results))
           THEN /\ action' = [action EXCEPT ![m] = "none"]
                /\ stage' = [stage EXCEPT ![m] = "uploading"]
                /\ waiting' = waiting \ {m}
                /\ StartUploads({m})
           ELSE UNCHANGED <<action, stage, waiting, known, uploading, jobs>>
      /\ UNCHANGED <<dbVars, calls, registry, loaded, resumePending, linkVars,
                     resourceUp, finished, source, serverVars, faults>>
  BY DEF SlotStageUpdated
<1>2. /\ TypeOK /\ CallsInv /\ QuietInv /\ FaultsOK /\ EntriesInv /\ ResultsInv /\ FlagsInv
  BY DEF IInv
<1>3. SameWorld /\ FaultsOK'
  BY <1>1, <1>2, FaultsSame DEF SameWorld, dbVars, serverVars
<1>4. /\ results # <<>> /\ results' = Tail(results) /\ Head(results).op = "advance"
      /\ Head(results) \in ResultType /\ Head(results) \in Range(results)
      /\ Range(results') \subseteq Range(results)
      /\ Shrinks(results, results')
  BY <1>1, <1>2, ResultTaken
<1>5. Shrinks(s2c, s2c') /\ Shrinks(finished, finished')
  BY <1>1 DEF Shrinks, linkVars
<1>6. ResultsInv'
  BY <1>1, <1>2, <1>4, ResultsKept DEF dbVars, flagVars
<1>7. /\ dbOpen' \in BOOLEAN /\ hasId' = hasId /\ c2s' \in Seq(RequestType)
      /\ chatPage' \in BOOLEAN /\ linkUp' \in BOOLEAN /\ resourceUp' \in BOOLEAN
      /\ calls' = calls /\ registry' = registry
      /\ loaded' = loaded /\ resumePending' = resumePending
  BY <1>1, <1>2 DEF dbVars, linkVars, TypeOK, DbTypeOK, LinkTypeOK, EngineTypeOK
<1>8. FlagsTypeOK' /\ FlagsInv'
  BY <1>1, <1>2 DEF dbVars, flagVars, TypeOK, FlagsTypeOK, FlagsInv
<1>9. restored /\ restored' = restored
  BY <1>1, <1>2, <1>4 DEF QuietInv, PlainResults, Plain, flagVars
<1>10. QuietInv'
  BY <1>9 DEF QuietInv
<1>11. calls' \in Seq(CallType) /\ CallsInv'
  BY <1>2, <1>7 DEF TypeOK, QueuesTypeOK, CallsInv, Named, EnqueuedOnce
<1>12. EntriesTypeOK /\ jobs \subseteq Messages
  BY <1>2 DEF TypeOK, EngineTypeOK
<1>13. CASE IsAwaited(Head(results))
  <2>1. m \in registry /\ m \in Messages /\ action[m] = "advance" /\ Head(results).ok
    BY <1>4, <1>12, <1>13 DEF IsAwaited, EntriesTypeOK
  <2>2. Told(results, "advance", m)
    BY <1>4, <2>1 DEF Told
  <2>3. Advanced(m)
    BY <1>2, <2>1, <2>2 DEF EntriesInv, MessageInv, QueuedInv
  <2>4. /\ action' \in [Messages -> Actions] /\ action'[m] = "none"
        /\ \A n \in Messages \ {m} : action'[n] = action[n]
    BY <1>1, <1>12, <1>13, <2>1 DEF EntriesTypeOK, Actions
  <2>5. /\ stage' \in [Messages -> Stages] /\ stage'[m] = "uploading"
        /\ \A n \in Messages \ {m} : stage'[n] = stage[n]
    BY <1>1, <1>12, <1>13, <2>1 DEF EntriesTypeOK, Stages
  <2>6. StartUploads({m}) /\ waiting' = waiting \ {m}
    BY <1>1, <1>13
  <2>7. /\ known' \subseteq Messages /\ uploading' \subseteq Messages
        /\ jobs' \subseteq Messages /\ jobs' \subseteq jobs \cup {m}
    <3>1. {m} \in SUBSET Messages
      BY <2>1
    <3>. QED
      BY <1>2, <2>6, <3>1, StartUploadsFacts
  <2>8. EntriesTypeOK'
    BY <1>7, <1>12, <2>4, <2>5, <2>6, <2>7 DEF EntriesTypeOK
  <2>9. \A n \in jobs' : n \in jobs \/ Advanced(n)
    BY <2>3, <2>7
  <2>. HIDE DEF m
  <2>10. \A n \in Messages : MessageInv(n, registry', action', stage', calls', results')
    <3>. SUFFICES ASSUME NEW n \in Messages
                  PROVE  MessageInv(n, registry', action', stage', calls', results')
      OBVIOUS
    <3>1. MessageInv(n, registry, action, stage, calls, results)
      BY <1>2 DEF EntriesInv
    <3>2. CASE n = m
      <4>1. MessageInv(n, registry, action', stage', calls, results')
        <5>1. /\ n \in registry /\ action[n] = "advance" /\ action'[n] = "none"
              /\ stage'[n] = "uploading" /\ Advanced(n)
          BY <2>1, <2>3, <2>4, <2>5, <3>2
        <5>. QED
          BY <1>4, <3>1, <5>1, MessageStaged
      <4>. QED
        BY <1>7, <4>1
    <3>3. CASE n # m
      <4>1. (n \in registry' <=> n \in registry) /\ action'[n] = action[n] /\ stage'[n] = stage[n]
        BY <1>7, <2>4, <2>5, <3>3
      <4>2. Extends(calls, calls', registry', action')
        BY <1>7 DEF Extends
      <4>. QED
        BY <1>4, <3>1, <4>1, <4>2, MessageKept
    <3>. QED
      BY <3>2, <3>3
  <2>. QED
    BY <1>3, <1>4, <1>5, <1>6, <1>7, <1>8, <1>10, <1>11, <2>7, <2>8, <2>9, <2>10, SlotKept
<1>14. CASE ~IsAwaited(Head(results))
  <2>1. /\ action' = action /\ stage' = stage /\ waiting' = waiting
        /\ known' = known /\ uploading' = uploading /\ jobs' = jobs
    BY <1>1, <1>14
  <2>2. \A n \in Messages : MessageInv(n, registry', action', stage', calls', results')
    BY <1>2, <1>4, <1>7, <2>1, EntriesSame, ReadsNothing
  <2>3. EntriesTypeOK' /\ jobs' \subseteq Messages
    BY <1>7, <1>12, <2>1 DEF EntriesTypeOK
  <2>. QED
    BY <1>3, <1>4, <1>5, <1>6, <1>7, <1>8, <1>10, <1>11, <2>1, <2>2, <2>3, SlotKept
<1>. QED
  BY <1>13, <1>14

LEMMA SendStep ==
  ASSUME IInv, NEW m \in Messages, Send(m)
  PROVE  IInv'
<1>. DEFINE c == Call("enqueue", m, FALSE)
<1>1. /\ status[m] = "none"
      /\ \A i \in DOMAIN calls : calls[i].message # m
      /\ calls' = Append(calls, c)
      /\ UNCHANGED <<dbVars, results, dispatchVars, entryVars, flagVars, linkVars,
                     engineVars, serverVars, faults>>
  BY DEF Send
<1>2. /\ TypeOK /\ CallsInv /\ QuietInv /\ FaultsOK /\ EntriesInv /\ ResultsInv /\ FlagsInv
  BY DEF IInv
<1>3. SameWorld /\ FaultsOK'
  BY <1>1, <1>2, FaultsSame DEF SameWorld, dbVars, serverVars, engineVars
<1>4. Shrinks(s2c, s2c') /\ Shrinks(finished, finished') /\ Shrinks(results, results')
  BY <1>1 DEF Shrinks, linkVars, engineVars
<1>5. c \in CallType /\ c.op = "enqueue" /\ c.message = m
  BY CallTyped DEF Ops
<1>. HIDE DEF c
<1>6. calls \in Seq(CallType)
  BY <1>2 DEF TypeOK, QueuesTypeOK
<1>7. calls' \in Seq(CallType) /\ Range(calls') = Range(calls) \cup {c}
  BY <1>1, <1>5, <1>6, QueueAppend
<1>8. \A op : ~Asked(calls, op, m)
  BY <1>1 DEF Asked, Range
<1>9. EnqueuedOnce(calls')
  BY <1>1, <1>2, <1>5, <1>6, <1>8, OnceAppend DEF CallsInv
<1>10. CallsInv' /\ (PlainCalls(calls) => PlainCalls(calls'))
  BY <1>2, <1>5, <1>7, <1>9 DEF CallsInv, Named, EnqueuedOnce, PlainCalls, Plain
<1>11. registry' = registry /\ action' = action /\ stage' = stage /\ results' = results
  BY <1>1 DEF dispatchVars, entryVars
<1>12. \A n \in Messages : MessageInv(n, registry', action', stage', calls', results')
  <2>. SUFFICES ASSUME NEW n \in Messages
                PROVE  MessageInv(n, registry, action, stage, calls', results)
    BY <1>11
  <2>1. MessageInv(n, registry, action, stage, calls, results)
    BY <1>2 DEF EntriesInv
  <2>2. \A op \in Settling : Asked(calls', op, n) => Asked(calls, op, n)
    BY <1>5, <1>7 DEF Asked, Settling
  <2>3. Asked(calls', "enqueue", n) => Asked(calls, "enqueue", n) \/ n = m
    BY <1>5, <1>7 DEF Asked
  <2>4. QueuedInv(n, registry, action, stage, calls', results)
    BY <1>1, <2>1, <2>2, <2>3 DEF MessageInv, QueuedInv
  <2>5. TruthInv(n, action, calls')
    BY <2>1, <2>2 DEF MessageInv, TruthInv
  <2>. QED
    BY <2>1, <2>4, <2>5 DEF MessageInv
<1>13. EntriesTypeOK' /\ FlagsTypeOK' /\ FlagsInv'
  BY <1>1, <1>2 DEF dispatchVars, entryVars, flagVars, dbVars, TypeOK, EntriesTypeOK, FlagsTypeOK, FlagsInv
<1>14. ResultsInv'
  BY <1>1, <1>2, <1>4, ResultsKept DEF dbVars, flagVars
<1>15. QuietInv'
  BY <1>1, <1>2, <1>3, <1>4, <1>10, <1>11, QuietKept DEF QuietInv, flagVars, linkVars, engineVars
<1>16. /\ dbOpen' \in BOOLEAN /\ hasId' = hasId /\ c2s' \in Seq(RequestType)
       /\ chatPage' \in BOOLEAN /\ linkUp' \in BOOLEAN /\ resourceUp' \in BOOLEAN
       /\ jobs' \subseteq Messages /\ jobs' = jobs
  BY <1>1, <1>2 DEF dbVars, linkVars, engineVars, TypeOK, DbTypeOK, LinkTypeOK, EngineTypeOK
<1>. QED
  BY <1>3, <1>4, <1>7, <1>10, <1>12, <1>13, <1>14, <1>15, <1>16, SlotKept

-----------------------------------------------------------------------------
(* The steps of the store thread.                                          *)

\* What a step of the store thread leaves alone.
Elsewhere ==
  /\ UNCHANGED <<dispatchVars, entryVars, flagVars, linkVars, engineVars, serverVars>>
  /\ faults'.kinds = faults.kinds

LEMMA ElsewhereFacts ==
  ASSUME Elsewhere
  PROVE  /\ \A m : (GivenUp(m))' <=> GivenUp(m)
         /\ \A m, what : (Justified(m, what))' <=> Justified(m, what)
         /\ registry' = registry /\ action' = action /\ stage' = stage
         /\ stored' = stored /\ published' = published /\ restored' = restored
<1>1. /\ stored' = stored /\ source' = source /\ published' = published /\ refused' = refused
      /\ faults'.kinds = faults.kinds
  BY DEF Elsewhere, engineVars, serverVars
<1>2. registry' = registry /\ action' = action /\ stage' = stage /\ restored' = restored
  BY DEF Elsewhere, dispatchVars, entryVars, flagVars
<1>. QED
  BY <1>1, <1>2 DEF GivenUp, Doomed, Justified

\* The head of the calls is taken and answered.
LEMMA AnswerFacts ==
  ASSUME TypeOK, CallsInv, calls # <<>>, NEW ok \in BOOLEAN,
         NEW m \in Messages \cup {None}, NEW rows \in Seq(Rows), Answer(ok, m, rows)
  PROVE  \E e \in ResultType :
           /\ e.op = Head(calls).op /\ e.ok = ok /\ e.message = m /\ e.rows = rows
           /\ results' = Append(results, e)
           /\ calls' = Tail(calls)
<1>. DEFINE e == [op |-> Head(calls).op, ok |-> ok, message |-> m, rows |-> rows,
                  id |-> Head(calls).op = "get" /\ m \in hasId]
<1>1. Head(calls) \in CallType
  BY QueueTail DEF TypeOK, QueuesTypeOK
<1>2. Head(calls).op \in Ops
  BY <1>1 DEF CallType
<1>3. (Head(calls).op = "get" /\ m \in hasId) \in BOOLEAN
  OBVIOUS
<1>4. e \in ResultType
  BY <1>2, <1>3 DEF ResultType
<1>5. results' = Append(results, e) /\ calls' = Tail(calls)
  BY DEF Answer
<1>6. e.op = Head(calls).op /\ e.ok = ok /\ e.message = m /\ e.rows = rows
  OBVIOUS
<1>. HIDE DEF e
<1>. QED
  BY <1>4, <1>5, <1>6

\* The queues after an answer.
Answered(e) ==
  /\ calls # <<>>
  /\ e \in ResultType
  /\ e.op = Head(calls).op
  /\ calls' = Tail(calls)
  /\ results' = Append(results, e)

LEMMA AnsweredFacts ==
  ASSUME TypeOK, CallsInv, NEW e, Answered(e)
  PROVE  /\ calls' \in Seq(CallType) /\ results' \in Seq(ResultType)
         /\ Head(calls) \in CallType /\ Head(calls) \in Range(calls)
         /\ Range(calls') \subseteq Range(calls)
         /\ Range(results') = Range(results) \cup {e}
         /\ CallsInv'
         /\ \A op, m : Asked(calls', op, m) => Asked(calls, op, m)
         /\ \A op, m : Told(results', op, m)
              => Told(results, op, m) \/ (e.op = op /\ e.ok /\ e.message = m)
<1>1. calls \in Seq(CallType) /\ results \in Seq(ResultType)
  BY DEF TypeOK, QueuesTypeOK
<1>2. /\ calls' \in Seq(CallType) /\ Head(calls) \in CallType /\ Head(calls) \in Range(calls)
      /\ Range(calls') \subseteq Range(calls)
  BY <1>1, QueueTail DEF Answered
<1>3. results' \in Seq(ResultType) /\ Range(results') = Range(results) \cup {e}
  BY <1>1, QueueAppend DEF Answered
<1>4. EnqueuedOnce(calls')
  BY <1>1, OnceTail DEF Answered, CallsInv
<1>5. CallsInv'
  BY <1>2, <1>4 DEF CallsInv, Named, EnqueuedOnce
<1>6. \A op, m : Asked(calls', op, m) => Asked(calls, op, m)
  BY <1>2 DEF Asked
<1>7. \A op, m : Told(results', op, m)
        => Told(results, op, m) \/ (e.op = op /\ e.ok /\ e.message = m)
  BY <1>3 DEF Told
<1>. QED
  BY <1>2, <1>3, <1>5, <1>6, <1>7

\* What a step of the store thread has to keep.
LEMMA WorkerKept ==
  ASSUME IInv, Elsewhere, FaultsOK', NEW e, Answered(e), DbTypeOK',
         dbOpen => dbOpen',
         e.ok /\ e.op \notin {"open", "load"} => e.message \in Messages,
         \A r \in Range(results) : InOrder(r, e),
         e.op = "open" => IF e.ok THEN dbOpen' ELSE ~dbReady,
         ~restored => /\ Range(outbox) \subseteq Range(outbox')
                      /\ Range(e.rows) \subseteq Range(outbox'),
         RowsInv', StatusInv', JobsInv', EntriesInv'
  PROVE  IInv'
<1>1. /\ TypeOK /\ CallsInv /\ QuietInv /\ ResultsInv /\ FlagsInv /\ RepliesInv /\ EndsInv /\ TablesInv
  BY DEF IInv
<1>2. /\ calls' \in Seq(CallType) /\ results' \in Seq(ResultType)
      /\ Head(calls) \in CallType /\ Head(calls) \in Range(calls)
      /\ Range(calls') \subseteq Range(calls)
      /\ Range(results') = Range(results) \cup {e}
      /\ CallsInv'
  BY <1>1, AnsweredFacts
<1>3. /\ dispatchVars' = dispatchVars /\ entryVars' = entryVars /\ flagVars' = flagVars
      /\ linkVars' = linkVars /\ engineVars' = engineVars /\ serverVars' = serverVars
  BY DEF Elsewhere
<1>4. EntriesTypeOK' /\ FlagsTypeOK'
  BY <1>1, <1>3 DEF TypeOK, EntriesTypeOK, FlagsTypeOK, dispatchVars, entryVars, flagVars
<1>5. LinkTypeOK' /\ EngineTypeOK' /\ ServerTypeOK'
  BY <1>1, <1>3 DEF TypeOK, LinkTypeOK, EngineTypeOK, ServerTypeOK, linkVars, engineVars, serverVars
<1>6. TypeOK'
  BY <1>2, <1>4, <1>5 DEF TypeOK, QueuesTypeOK, FaultsOK
<1>7. FlagsInv'
  BY <1>1, <1>3 DEF FlagsInv, flagVars
<1>8. AllInOrder(results')
  BY <1>1, OrderAppend DEF Answered, ResultsInv, TypeOK, QueuesTypeOK
<1>9. dbReady' = dbReady
  BY <1>3 DEF flagVars
<1>10. ResultsInv'
  <2>1. NamedResults(results')
    BY <1>1, <1>2 DEF NamedResults, ResultsInv
  <2>2. \A r \in Range(results') : r.op = "open" => IF r.ok THEN dbOpen' ELSE ~dbReady'
    BY <1>1, <1>2, <1>9 DEF ResultsInv
  <2>. QED
    BY <1>8, <2>1, <2>2 DEF ResultsInv, NamedResults, AllInOrder
<1>11. QuietInv'
  <2>. SUFFICES ASSUME ~restored
                PROVE  /\ c2s' = <<>> /\ s2c' = <<>> /\ finished' = <<>> /\ jobs' = {}
                       /\ NoAction(action') /\ PlainCalls(calls') /\ (PlainResults(results))'
    BY <1>3 DEF QuietInv, NoAction, PlainCalls, flagVars
  <2>1. /\ c2s = <<>> /\ s2c = <<>> /\ finished = <<>> /\ jobs = {}
        /\ NoAction(action) /\ PlainCalls(calls) /\ PlainResults(results)
    BY <1>1 DEF QuietInv
  <2>2. c2s' = <<>> /\ s2c' = <<>> /\ finished' = <<>> /\ jobs' = {} /\ action' = action
    BY <1>3, <2>1 DEF linkVars, engineVars, dispatchVars
  <2>3. e.op \in Plain
    BY <1>2, <2>1 DEF PlainCalls, Answered
  <2>4. PlainCalls(calls')
    BY <1>2, <2>1 DEF PlainCalls
  <2>5. (PlainResults(results))'
    BY <1>2, <2>1, <2>3 DEF PlainResults
  <2>. QED
    BY <2>1, <2>2, <2>4, <2>5
<1>12. RepliesInv'
  BY <1>1, <1>3 DEF RepliesInv, linkVars, serverVars
<1>13. EndsInv'
  <2>1. finished' = finished /\ published' = published
    BY <1>3 DEF engineVars, serverVars
  <2>. QED
    BY <1>1, <2>1, ElsewhereFacts DEF EndsInv
<1>14. TablesInv'
  <2>1. /\ stored' = stored /\ source' = source /\ published' = published /\ refused' = refused
        /\ events' = events
    BY <1>3 DEF engineVars, serverVars
  <2>. QED
    BY <1>1, <2>1 DEF TablesInv, IsInjective
<1>. QED
  BY <1>2, <1>6, <1>7, <1>10, <1>11, <1>12, <1>13, <1>14 DEF IInv

\* A message that the answered call is not about.
LEMMA MessageOther ==
  ASSUME NEW m \in Messages, Elsewhere,
         MessageInv(m, registry, action, stage, calls, results),
         status'[m] = status[m],
         \A s : (Row(m, s))' <=> Row(m, s),
         Advanced(m) => (Advanced(m))',
         \A op : Asked(calls', op, m) => Asked(calls, op, m),
         \A op \in {"enqueue", "advance"} : Told(results', op, m) => Told(results, op, m)
  PROVE  (MessageInv(m, registry, action, stage, calls, results))'
<1>1. /\ \A what : (Justified(m, what))' <=> Justified(m, what)
      /\ registry' = registry /\ action' = action /\ stage' = stage
  BY ElsewhereFacts
<1>2. (QueuedInv(m, registry, action, stage, calls, results))'
  BY <1>1 DEF MessageInv, QueuedInv, Asked, Told
<1>3. (EntryInv(m, registry, action, stage))'
  BY <1>1 DEF MessageInv, EntryInv
<1>4. (TruthInv(m, action, calls))'
  BY <1>1 DEF MessageInv, TruthInv, Asked
<1>. QED
  BY <1>2, <1>3, <1>4 DEF MessageInv

\* The message that a transaction has just settled or advanced.
LEMMA MessageSettled ==
  ASSUME NEW m \in Messages, NEW what \in Settling, Elsewhere,
         MessageInv(m, registry, action, stage, calls, results),
         Asked(calls, what, m),
         status'[m] # "none",
         Advanced(m) \/ what = "advance" => (Advanced(m))',
         \A op : Asked(calls', op, m) => Asked(calls, op, m),
         Told(results', "enqueue", m) => Told(results, "enqueue", m),
         Told(results', "advance", m) => Told(results, "advance", m) \/ what = "advance"
  PROVE  (MessageInv(m, registry, action, stage, calls, results))'
<1>1. /\ \A op : (Justified(m, op))' <=> Justified(m, op)
      /\ registry' = registry /\ action' = action /\ stage' = stage
  BY ElsewhereFacts
<1>2. ~Told(results', "enqueue", m)
  BY DEF MessageInv, QueuedInv
<1>3. Told(results', "advance", m) => (Advanced(m))'
  BY DEF MessageInv, QueuedInv
<1>4. m \in registry => action[m] # "none" \/ stage[m] = "uploading"
  BY DEF MessageInv, QueuedInv, Settling
<1>5. (EntryInv(m, registry, action, stage))'
  BY <1>1, <1>4 DEF MessageInv, EntryInv
<1>6. (TruthInv(m, action, calls))'
  BY <1>1 DEF MessageInv, TruthInv, Asked
<1>7. (QueuedInv(m, registry, action, stage, calls, results))'
  BY <1>1, <1>2, <1>3 DEF MessageInv, QueuedInv, Asked, Told
<1>. QED
  BY <1>5, <1>6, <1>7 DEF MessageInv

\* An answer that leaves the tables alone and settles nothing.
LEMMA TablesUntouched ==
  ASSUME IInv, Elsewhere, FaultsOK', NEW e, Answered(e),
         status' = status, hasId' = hasId, outbox' = outbox,
         dbOpen' \in BOOLEAN, dbOpen => dbOpen',
         e.ok => e.op \in {"open", "load", "get"},
         e.ok /\ e.op = "get" => e.message \in Messages,
         e.op = "open" => IF e.ok THEN dbOpen' ELSE ~dbOpen,
         e.rows = <<>> \/ e.rows = outbox
  PROVE  IInv'
<1>1. /\ TypeOK /\ CallsInv /\ QuietInv /\ ResultsInv /\ FlagsInv /\ RowsInv /\ StatusInv
      /\ JobsInv /\ EntriesInv
  BY DEF IInv
<1>2. /\ Range(results') = Range(results) \cup {e}
      /\ \A op, m : Asked(calls', op, m) => Asked(calls, op, m)
      /\ \A op, m : Told(results', op, m)
           => Told(results, op, m) \/ (e.op = op /\ e.ok /\ e.message = m)
  BY <1>1, AnsweredFacts
<1>3. /\ \A m : (GivenUp(m))' <=> GivenUp(m)
      /\ stored' = stored /\ published' = published
  BY ElsewhereFacts
<1>4. /\ \A m : (Advanced(m))' <=> Advanced(m)
      /\ \A m, s : (Row(m, s))' <=> Row(m, s)
  BY <1>3 DEF Advanced, Row
<1>5. \A x \in Range(e.rows) : x \in Range(outbox)
  BY RangeEmpty
<1>6. RowsInv'
  BY <1>1, <1>2, <1>3, <1>5 DEF RowsInv
<1>7. StatusInv'
  BY <1>1, <1>3 DEF StatusInv
<1>8. jobs' = jobs
  BY DEF Elsewhere, engineVars
<1>9. JobsInv'
  BY <1>1, <1>3, <1>4, <1>8 DEF JobsInv
<1>10. EntriesInv'
  <2>. SUFFICES ASSUME NEW m \in Messages
                PROVE  (MessageInv(m, registry, action, stage, calls, results))'
    BY DEF EntriesInv
  <2>1. MessageInv(m, registry, action, stage, calls, results)
    BY <1>1 DEF EntriesInv
  <2>2. \A op \in {"enqueue", "advance"} : Told(results', op, m) => Told(results, op, m)
    BY <1>2
  <2>3. status'[m] = status[m] /\ (\A s : (Row(m, s))' <=> Row(m, s)) /\ (Advanced(m) => (Advanced(m))')
    BY <1>4
  <2>. QED
    BY <1>2, <2>1, <2>2, <2>3, MessageOther
<1>11. \A r \in Range(results) : InOrder(r, e)
  BY <1>1 DEF InOrder, IsEnqueued, ResultsInv
<1>12. DbTypeOK'
  BY <1>1 DEF TypeOK, DbTypeOK
<1>13. e.op = "open" => IF e.ok THEN dbOpen' ELSE ~dbReady
  BY <1>1 DEF FlagsInv
<1>14. Range(outbox) \subseteq Range(outbox') /\ Range(e.rows) \subseteq Range(outbox')
  BY <1>5
<1>15. e.ok /\ e.op \notin {"open", "load"} => e.message \in Messages
  OBVIOUS
<1>. QED
  BY <1>6, <1>7, <1>9, <1>10, <1>11, <1>12, <1>13, <1>14, <1>15, WorkerKept

LEMMA RefuseFacts ==
  ASSUME IInv, calls # <<>>, Refuse
  PROVE  \E e : Answered(e) /\ ~e.ok /\ e.rows = <<>>
<1>. DEFINE m == IF Head(calls).op = "enqueue" THEN Head(calls).message ELSE None
<1>1. TypeOK /\ CallsInv
  BY DEF IInv
<1>2. Head(calls) \in CallType
  BY <1>1, QueueTail DEF TypeOK, QueuesTypeOK
<1>3. m \in Messages \cup {None}
  BY <1>2 DEF CallType
<1>4. Answer(FALSE, m, <<>>)
  BY DEF Refuse
<1>. HIDE DEF m
<1>5. <<>> \in Seq(Rows)
  BY QueueEmpty
<1>6. \E e \in ResultType :
        /\ e.op = Head(calls).op /\ e.ok = FALSE /\ e.message = m /\ e.rows = <<>>
        /\ results' = Append(results, e)
        /\ calls' = Tail(calls)
  BY <1>1, <1>3, <1>4, <1>5, AnswerFacts
<1>. QED
  BY <1>6 DEF Answered

LEMMA RefuseStep ==
  ASSUME IInv, Elsewhere, FaultsOK', calls # <<>>, Refuse, UNCHANGED dbVars,
         Head(calls).op = "open" => ~dbOpen
  PROVE  IInv'
<1>1. PICK e : Answered(e) /\ ~e.ok /\ e.rows = <<>>
  BY RefuseFacts
<1>2. status' = status /\ hasId' = hasId /\ outbox' = outbox /\ dbOpen' = dbOpen
  BY DEF dbVars
<1>3. dbOpen' \in BOOLEAN
  BY <1>2 DEF IInv, TypeOK, DbTypeOK
<1>4. e.op = "open" => ~dbOpen
  BY <1>1 DEF Answered
<1>. QED
  BY <1>1, <1>2, <1>3, <1>4, TablesUntouched

\* What StoreWorker says of the rest of the system.
LEMMA WorkerElsewhere ==
  ASSUME IInv, UNCHANGED <<dispatchVars, entryVars, flagVars, linkVars, engineVars,
                           serverVars, faults>>
  PROVE  Elsewhere /\ FaultsOK'
  BY FaultsSame DEF IInv, Elsewhere

LEMMA HeadCall ==
  ASSUME IInv, calls # <<>>
  PROVE  /\ Head(calls) \in CallType /\ Head(calls) \in Range(calls)
         /\ Head(calls).op \notin {"open", "load"} => Head(calls).message \in Messages
         /\ Head(calls).op \notin Plain => restored
         /\ Asked(calls, Head(calls).op, Head(calls).message)
<1>1. TypeOK /\ CallsInv /\ QuietInv
  BY DEF IInv
<1>2. Head(calls) \in CallType /\ Head(calls) \in Range(calls)
  BY <1>1, QueueTail DEF TypeOK, QueuesTypeOK
<1>. QED
  BY <1>1, <1>2 DEF CallsInv, Named, QuietInv, PlainCalls, Asked

\* An answer of which the message and rows are known.
LEMMA AnswerGiven ==
  ASSUME IInv, calls # <<>>, NEW m \in Messages \cup {None}, NEW rows \in Seq(Rows),
         Answer(TRUE, m, rows)
  PROVE  \E e : Answered(e) /\ e.ok /\ e.message = m /\ e.rows = rows
<1>1. TypeOK /\ CallsInv
  BY DEF IInv
<1>2. \E e \in ResultType :
        /\ e.op = Head(calls).op /\ e.ok = TRUE /\ e.message = m /\ e.rows = rows
        /\ results' = Append(results, e)
        /\ calls' = Tail(calls)
  BY <1>1, AnswerFacts
<1>. QED
  BY <1>2 DEF Answered

LEMMA OpenDbStep ==
  ASSUME IInv, Elsewhere, FaultsOK', OpenDb
  PROVE  IInv'
<1>1. /\ calls # <<>> /\ Head(calls).op = "open" /\ dbOpen' = TRUE /\ Answer(TRUE, None, <<>>)
      /\ status' = status /\ hasId' = hasId /\ outbox' = outbox
  BY DEF OpenDb, Took
<1>2. <<>> \in Seq(Rows)
  BY QueueEmpty
<1>3. PICK e : Answered(e) /\ e.ok /\ e.message = None /\ e.rows = <<>>
  <2>1. calls # <<>> /\ None \in Messages \cup {None} /\ <<>> \in Seq(Rows)
    BY <1>1, <1>2
  <2>2. Answer(TRUE, None, <<>>)
    BY <1>1
  <2>. QED
    BY <2>1, <2>2, AnswerGiven
<1>4. e.op = "open"
  BY <1>1, <1>3 DEF Answered
<1>. QED
  BY <1>1, <1>3, <1>4, TablesUntouched

LEMMA GetMessageStep ==
  ASSUME IInv, Elsewhere, FaultsOK', GetMessageByClientId
  PROVE  IInv'
<1>. DEFINE m == Head(calls).message
<1>1. /\ calls # <<>> /\ Head(calls).op = "get" /\ Answer(TRUE, m, <<>>)
      /\ status' = status /\ hasId' = hasId /\ outbox' = outbox /\ dbOpen' = dbOpen
  BY DEF GetMessageByClientId, Took, dbVars
<1>2. <<>> \in Seq(Rows)
  BY QueueEmpty
<1>3. m \in Messages
  BY <1>1, HeadCall
<1>. HIDE DEF m
<1>4. PICK e : Answered(e) /\ e.ok /\ e.message = m /\ e.rows = <<>>
  <2>1. calls # <<>> /\ m \in Messages \cup {None} /\ <<>> \in Seq(Rows)
    BY <1>1, <1>2, <1>3
  <2>2. Answer(TRUE, m, <<>>)
    BY <1>1
  <2>. QED
    BY <2>1, <2>2, AnswerGiven
<1>5. e.op = "get"
  BY <1>1, <1>4 DEF Answered
<1>6. dbOpen' \in BOOLEAN
  BY <1>1 DEF IInv, TypeOK, DbTypeOK
<1>. QED
  BY <1>1, <1>3, <1>4, <1>5, <1>6, TablesUntouched

LEMMA LoadOutboxStep ==
  ASSUME IInv, Elsewhere, FaultsOK', LoadOutbox
  PROVE  IInv'
<1>1. /\ calls # <<>> /\ Head(calls).op = "load" /\ Answer(TRUE, None, outbox)
      /\ status' = status /\ hasId' = hasId /\ outbox' = outbox /\ dbOpen' = dbOpen
  BY DEF LoadOutbox, Took, dbVars
<1>2. outbox \in Seq(Rows) /\ dbOpen' \in BOOLEAN
  BY <1>1 DEF IInv, TypeOK, DbTypeOK
<1>3. PICK e : Answered(e) /\ e.ok /\ e.message = None /\ e.rows = outbox
  <2>1. calls # <<>> /\ None \in Messages \cup {None} /\ outbox \in Seq(Rows)
    BY <1>1, <1>2
  <2>2. Answer(TRUE, None, outbox)
    BY <1>1
  <2>. QED
    BY <2>1, <2>2, AnswerGiven
<1>4. e.op = "load"
  BY <1>1, <1>3 DEF Answered
<1>. QED
  BY <1>1, <1>2, <1>3, <1>4, TablesUntouched

LEMMA StoreFailsStep ==
  ASSUME IInv, StoreFails
  PROVE  IInv'
<1>1. /\ calls # <<>> /\ Refuse
      /\ UNCHANGED <<dbVars, dispatchVars, entryVars, flagVars, linkVars,
                     engineVars, serverVars>>
      /\ Head(calls).op = "open" => ~dbOpen
  BY DEF StoreFails, Took
<1>2. faults' = faults \/ \E kind : Fault(kind)
  BY DEF StoreFails
<1>3. FaultsOK
  BY DEF IInv
<1>4. FaultsOK' /\ faults'.kinds = faults.kinds
  BY <1>2, <1>3, FaultFacts, FaultsSame
<1>5. Elsewhere
  BY <1>1, <1>4 DEF Elsewhere
<1>. QED
  BY <1>1, <1>4, <1>5, RefuseStep

LEMMA EnqueueSendStep ==
  ASSUME IInv, Elsewhere, FaultsOK', EnqueueSend
  PROVE  IInv'
<1>. DEFINE m == Head(calls).message
            row == [message |-> m, stage |-> FirstStage[m]]
<1>1. /\ calls # <<>> /\ Head(calls).op = "enqueue"
      /\ status' = [status EXCEPT ![m] = "sending"]
      /\ outbox' = Append(outbox, row)
      /\ Answer(TRUE, m, <<>>)
      /\ dbOpen' = dbOpen /\ hasId' = hasId
  BY DEF EnqueueSend, Took
<1>2. /\ TypeOK /\ CallsInv /\ QuietInv /\ ResultsInv /\ RowsInv /\ StatusInv /\ JobsInv /\ EntriesInv
  BY DEF IInv
<1>3. m \in Messages /\ Asked(calls, "enqueue", m)
  BY <1>1, HeadCall
<1>4. MessageInv(m, registry, action, stage, calls, results)
  BY <1>2, <1>3 DEF EntriesInv
<1>5. status[m] = "none"
  BY <1>3, <1>4 DEF MessageInv, QueuedInv
<1>6. m \notin registry /\ (\A op \in Settling : ~Asked(calls, op, m))
  BY <1>4, <1>5 DEF MessageInv, QueuedInv, EntryInv
<1>7. \A x \in Range(outbox) : x.message # m
  BY <1>2, <1>5 DEF RowsInv
<1>8. ~Told(results, "enqueue", m) /\ ~Told(results, "advance", m) /\ ~Advanced(m)
  BY <1>4, <1>5, <1>7 DEF MessageInv, QueuedInv, Row, Advanced
<1>9. \A r \in Range(results) : ~Listed(r.rows, m)
  BY <1>2, <1>5 DEF RowsInv, Listed
<1>10. FirstStage[m] \in Stages /\ FirstStage[m] # "uploading" /\ (FirstStage[m] = "metadata" => m \in Resources)
  BY <1>3 DEF FirstStage, Stages
<1>11. row \in Rows /\ row.message = m /\ row.stage = FirstStage[m]
  BY <1>3, <1>10 DEF Rows
<1>12. ~Asked(Tail(calls), "enqueue", m)
  BY <1>1, <1>2, OnceTail DEF CallsInv, TypeOK, QueuesTypeOK
<1>. HIDE DEF m, row
<1>13. PICK e : Answered(e) /\ e.ok /\ e.message = m /\ e.rows = <<>>
  <2>1. calls # <<>> /\ m \in Messages \cup {None} /\ <<>> \in Seq(Rows)
    BY <1>1, <1>3, QueueEmpty
  <2>2. Answer(TRUE, m, <<>>)
    BY <1>1
  <2>. QED
    BY <2>1, <2>2, AnswerGiven
<1>14. e.op = "enqueue" /\ calls' = Tail(calls)
  BY <1>1, <1>13 DEF Answered
<1>15. /\ Range(results') = Range(results) \cup {e}
       /\ \A op, n : Asked(calls', op, n) => Asked(calls, op, n)
       /\ \A op, n : Told(results', op, n)
            => Told(results, op, n) \/ (e.op = op /\ e.ok /\ e.message = n)
  BY <1>2, <1>13, AnsweredFacts
<1>16. outbox \in Seq(Rows) /\ status \in [Messages -> {"none", "sending", "sent", "failed"}]
       /\ hasId \subseteq Messages /\ dbOpen \in BOOLEAN
  BY <1>2 DEF TypeOK, DbTypeOK
<1>17. outbox' \in Seq(Rows) /\ Range(outbox') = Range(outbox) \cup {row}
  BY <1>1, <1>11, <1>16, QueueAppend
<1>18. /\ status' \in [Messages -> {"none", "sending", "sent", "failed"}]
       /\ status'[m] = "sending" /\ \A n \in Messages \ {m} : status'[n] = status[n]
  BY <1>1, <1>3, <1>16
<1>19. DbTypeOK'
  BY <1>1, <1>16, <1>17, <1>18 DEF DbTypeOK
<1>20. stored' = stored /\ published' = published /\ jobs' = jobs /\ (\A n : (GivenUp(n))' <=> GivenUp(n))
       /\ registry' = registry /\ action' = action /\ stage' = stage
       /\ \A n, what : (Justified(n, what))' <=> Justified(n, what)
  BY ElsewhereFacts DEF Elsewhere, engineVars
<1>21. \A n \in Messages \ {m} : /\ \A s : (Row(n, s))' <=> Row(n, s)
                                 /\ (Advanced(n))' <=> Advanced(n)
  BY <1>11, <1>17, <1>18, <1>20 DEF Row, Advanced
<1>22. \A n \in Messages : status[n] # "none" => status'[n] # "none"
  BY <1>18
<1>23. RowsInv'
  <2>1. \A x, y \in Range(outbox') : x.message = y.message => x = y
    BY <1>2, <1>7, <1>11, <1>17 DEF RowsInv
  <2>2. \A x \in Range(outbox') : /\ status'[x.message] # "none"
                                  /\ x.stage = "metadata" => x.message \in Resources
                                  /\ x.stage = "uploading" => x.message \in stored'
    <3>. SUFFICES ASSUME NEW x \in Range(outbox')
                  PROVE  /\ status'[x.message] # "none"
                         /\ x.stage = "metadata" => x.message \in Resources
                         /\ x.stage = "uploading" => x.message \in stored'
      OBVIOUS
    <3>1. CASE x = row
      BY <1>10, <1>11, <1>18, <3>1
    <3>2. CASE x \in Range(outbox)
      <4>1. x \in Rows
        BY <1>16, <3>2 DEF Range
      <4>2. x.message \in Messages
        BY <4>1 DEF Rows
      <4>. QED
        BY <1>2, <1>20, <1>22, <3>2, <4>2 DEF RowsInv
    <3>. QED
      BY <1>17, <3>1, <3>2
  <2>3. \A r \in Range(results') : \A x \in Range(r.rows) : status'[x.message] # "none"
    <3>. SUFFICES ASSUME NEW r \in Range(results'), NEW x \in Range(r.rows)
                  PROVE  status'[x.message] # "none"
      OBVIOUS
    <3>1. r \in Range(results)
      BY <1>13, <1>15, RangeEmpty
    <3>2. r \in ResultType
      BY <1>2, <3>1 DEF TypeOK, QueuesTypeOK, Range
    <3>3. r.rows \in Seq(Rows)
      BY <3>2 DEF ResultType
    <3>4. x \in Rows
      BY <3>3 DEF Range
    <3>5. x.message \in Messages
      BY <3>4 DEF Rows
    <3>. QED
      BY <1>2, <1>22, <3>1, <3>5 DEF RowsInv
  <2>. QED
    BY <2>1, <2>2, <2>3 DEF RowsInv
<1>24. StatusInv'
  BY <1>2, <1>18, <1>20 DEF StatusInv
<1>25. JobsInv'
  <2>1. \A n \in jobs \cup (published \cap Resources) : n \in Messages
    BY <1>2 DEF TypeOK, EngineTypeOK, ServerTypeOK
  <2>. QED
    BY <1>2, <1>8, <1>20, <1>21, <2>1 DEF JobsInv
<1>26. EntriesInv'
  <2>. SUFFICES ASSUME NEW n \in Messages
                PROVE  (MessageInv(n, registry, action, stage, calls, results))'
    BY DEF EntriesInv
  <2>1. CASE n = m
    <3>1. /\ ~Asked(calls', "enqueue", n) /\ (\A op \in Settling : ~Asked(calls', op, n))
          /\ ~Told(results', "advance", n)
      BY <1>6, <1>8, <1>12, <1>14, <1>15, <2>1
    <3>2. (Row(n, FirstStage[n]))'
      BY <1>11, <1>17, <2>1 DEF Row, FirstStage
    <3>3. n \notin registry' /\ status'[n] # "none"
      BY <1>6, <1>18, <1>20, <2>1
    <3>4. (QueuedInv(n, registry, action, stage, calls, results))'
      BY <3>1, <3>2, <3>3 DEF QueuedInv, Asked, Told, FirstStage
    <3>5. action'[n] = "none" /\ stage'[n] = FirstStage[n]
      BY <1>4, <1>6, <1>20, <2>1 DEF MessageInv, EntryInv
    <3>6. (EntryInv(n, registry, action, stage))'
      BY <1>10, <2>1, <3>3, <3>5 DEF EntryInv, FirstStage
    <3>7. (TruthInv(n, action, calls))'
      BY <3>1, <3>5 DEF TruthInv, Justified, Asked
    <3>. QED
      BY <3>4, <3>6, <3>7 DEF MessageInv
  <2>2. CASE n # m
    <3>1. MessageInv(n, registry, action, stage, calls, results)
      BY <1>2 DEF EntriesInv
    <3>2. \A op \in {"enqueue", "advance"} : Told(results', op, n) => Told(results, op, n)
      BY <1>13, <1>15, <2>2
    <3>3. status'[n] = status[n] /\ (\A s : (Row(n, s))' <=> Row(n, s)) /\ (Advanced(n) => (Advanced(n))')
      BY <1>18, <1>21, <2>2
    <3>. QED
      BY <1>15, <3>1, <3>2, <3>3, MessageOther
  <2>. QED
    BY <2>1, <2>2
<1>27. \A r \in Range(results) : InOrder(r, e)
  BY <1>8, <1>9, <1>13, <1>14 DEF InOrder, IsEnqueued, Told
<1>28. e.ok /\ e.op \notin {"open", "load"} => e.message \in Messages
  BY <1>3, <1>13
<1>29. Range(outbox) \subseteq Range(outbox') /\ Range(e.rows) \subseteq Range(outbox')
  BY <1>13, <1>17, RangeEmpty
<1>. QED
  BY <1>1, <1>13, <1>14, <1>19, <1>23, <1>24, <1>25, <1>26, <1>27, <1>28, <1>29, WorkerKept

\* A transaction that settles a message or records that it was announced.
LEMMA SettledKept ==
  ASSUME IInv, Elsewhere, FaultsOK', NEW e, Answered(e), DbTypeOK', dbOpen' = dbOpen,
         NEW m \in Messages, NEW what \in Settling,
         Head(calls).op = what, Head(calls).message = m,
         e.ok, e.message = m, e.rows = <<>>,
         status'[m] # "none",
         \A n \in Messages \ {m} : status'[n] = status[n],
         status'[m] = "sent" => what = "confirm" \/ status[m] = "sent",
         status'[m] = "failed" => what = "fail" \/ status[m] = "failed",
         \A x \in Range(outbox) : x.message # m => x \in Range(outbox'),
         \A x \in Range(outbox') : \/ x \in Range(outbox) /\ what # "advance"
                                   \/ x \in Range(outbox) /\ x.message # m
                                   \/ what = "advance" /\ x = [message |-> m, stage |-> "uploading"]
  PROVE  IInv'
<1>1. /\ TypeOK /\ CallsInv /\ QuietInv /\ ResultsInv /\ RowsInv /\ StatusInv /\ JobsInv /\ EntriesInv
  BY DEF IInv
<1>2. calls # <<>> /\ e.op = what
  BY DEF Answered
<1>3. Asked(calls, what, m) /\ restored
  BY <1>2, HeadCall DEF Settling, Plain
<1>4. MessageInv(m, registry, action, stage, calls, results)
  BY <1>1 DEF EntriesInv
<1>5. Justified(m, what)
  BY <1>3, <1>4 DEF MessageInv, TruthInv
<1>6. /\ Range(results') = Range(results) \cup {e}
      /\ \A op, n : Asked(calls', op, n) => Asked(calls, op, n)
      /\ \A op, n : Told(results', op, n)
           => Told(results, op, n) \/ (e.op = op /\ e.ok /\ e.message = n)
  BY <1>1, AnsweredFacts
<1>7. /\ stored' = stored /\ published' = published /\ jobs' = jobs
      /\ \A n : (GivenUp(n))' <=> GivenUp(n)
  BY ElsewhereFacts DEF Elsewhere, engineVars
<1>8. \A n \in Messages : status[n] # "none" => status'[n] # "none"
  OBVIOUS
<1>9. what = "advance" => m \in stored
  BY <1>5 DEF Justified
<1>10. \A x \in Range(outbox') : x.message = m =>
         \/ x \in Range(outbox) /\ what # "advance"
         \/ what = "advance" /\ x.stage = "uploading"
  OBVIOUS
<1>11. \A x \in Range(outbox') : x.message # m => x \in Range(outbox)
  OBVIOUS
<1>12. Advanced(m) \/ what = "advance" => (Advanced(m))'
  BY <1>7, <1>9, <1>10 DEF Advanced
<1>13. \A n \in Messages \ {m} : /\ \A s : (Row(n, s))' <=> Row(n, s)
                                 /\ (Advanced(n))' <=> Advanced(n)
  BY <1>7, <1>11 DEF Row, Advanced
<1>14. RowsInv'
  <2>1. \A x, y \in Range(outbox') : x.message = y.message => x = y
    <3>. SUFFICES ASSUME NEW x \in Range(outbox'), NEW y \in Range(outbox'), x.message = y.message
                  PROVE  x = y
      OBVIOUS
    <3>1. CASE x \in Range(outbox) /\ y \in Range(outbox)
      BY <1>1, <3>1 DEF RowsInv
    <3>2. CASE x \notin Range(outbox) \/ y \notin Range(outbox)
      <4>1. x.message = m /\ y.message = m /\ what = "advance"
        BY <1>11, <3>2
      <4>. QED
        BY <4>1
    <3>. QED
      BY <3>1, <3>2
  <2>2. \A x \in Range(outbox') : /\ status'[x.message] # "none"
                                  /\ x.stage = "metadata" => x.message \in Resources
                                  /\ x.stage = "uploading" => x.message \in stored'
    <3>. SUFFICES ASSUME NEW x \in Range(outbox')
                  PROVE  /\ status'[x.message] # "none"
                         /\ x.stage = "metadata" => x.message \in Resources
                         /\ x.stage = "uploading" => x.message \in stored'
      OBVIOUS
    <3>1. CASE what = "advance" /\ x = [message |-> m, stage |-> "uploading"]
      BY <1>7, <1>9, <3>1
    <3>2. CASE x \in Range(outbox)
      <4>1. x \in Rows
        BY <1>1, <3>2 DEF Range, TypeOK, DbTypeOK
      <4>2. x.message \in Messages
        BY <4>1 DEF Rows
      <4>. QED
        BY <1>1, <1>7, <1>8, <3>2, <4>2 DEF RowsInv
    <3>. QED
      BY <3>1, <3>2
  <2>3. \A r \in Range(results') : \A x \in Range(r.rows) : status'[x.message] # "none"
    <3>. SUFFICES ASSUME NEW r \in Range(results'), NEW x \in Range(r.rows)
                  PROVE  status'[x.message] # "none"
      OBVIOUS
    <3>1. r \in Range(results)
      BY <1>6, RangeEmpty
    <3>2. r \in ResultType
      BY <1>1, <3>1 DEF TypeOK, QueuesTypeOK, Range
    <3>3. r.rows \in Seq(Rows)
      BY <3>2 DEF ResultType
    <3>4. x \in Rows
      BY <3>3 DEF Range
    <3>5. x.message \in Messages
      BY <3>4 DEF Rows
    <3>. QED
      BY <1>1, <1>8, <3>1, <3>5 DEF RowsInv
  <2>. QED
    BY <2>1, <2>2, <2>3 DEF RowsInv
<1>15. StatusInv'
  BY <1>1, <1>5, <1>7 DEF StatusInv, Justified
<1>16. JobsInv'
  <2>1. \A n \in jobs \cup (published \cap Resources) : n \in Messages
    BY <1>1 DEF TypeOK, EngineTypeOK, ServerTypeOK
  <2>. QED
    BY <1>1, <1>7, <1>12, <1>13, <2>1 DEF JobsInv
<1>17. EntriesInv'
  <2>. SUFFICES ASSUME NEW n \in Messages
                PROVE  (MessageInv(n, registry, action, stage, calls, results))'
    BY DEF EntriesInv
  <2>1. CASE n = m
    <3>1. Told(results', "enqueue", m) => Told(results, "enqueue", m)
      BY <1>2, <1>6 DEF Settling
    <3>2. Told(results', "advance", m) => Told(results, "advance", m) \/ what = "advance"
      BY <1>2, <1>6
    <3>3. (MessageInv(m, registry, action, stage, calls, results))'
      BY <1>3, <1>4, <1>6, <1>12, <3>1, <3>2, MessageSettled
    <3>. QED
      BY <2>1, <3>3
  <2>2. CASE n # m
    <3>1. MessageInv(n, registry, action, stage, calls, results)
      BY <1>1 DEF EntriesInv
    <3>2. \A op \in {"enqueue", "advance"} : Told(results', op, n) => Told(results, op, n)
      BY <1>6, <2>2
    <3>3. status'[n] = status[n] /\ (\A s : (Row(n, s))' <=> Row(n, s)) /\ (Advanced(n) => (Advanced(n))')
      BY <1>13, <2>2
    <3>. QED
      BY <1>6, <3>1, <3>2, <3>3, MessageOther
  <2>. QED
    BY <2>1, <2>2
<1>18. \A r \in Range(results) : InOrder(r, e)
  BY <1>2 DEF InOrder, IsEnqueued, Settling
<1>19. e.op # "open"
  BY <1>2 DEF Settling
<1>. QED
  BY <1>3, <1>14, <1>15, <1>16, <1>17, <1>18, <1>19, WorkerKept

LEMMA WithoutRows ==
  ASSUME NEW rows \in Seq(Rows), NEW m
  PROVE  /\ Without(rows, m) \in Seq(Rows)
         /\ Range(Without(rows, m)) \subseteq Range(rows)
         /\ \A x \in Range(rows) : x.message # m => x \in Range(Without(rows, m))
<1>. DEFINE at == {i \in DOMAIN rows : rows[i].message = m}
            i == CHOOSE j \in at : TRUE
            a == SubSeq(rows, 1, i - 1)
            b == SubSeq(rows, i + 1, Len(rows))
<1>1. CASE at = {}
  BY <1>1 DEF Without
<1>2. CASE at # {}
  <2>1. Without(rows, m) = a \o b
    BY <1>2 DEF Without
  <2>2. i \in DOMAIN rows /\ rows[i].message = m
    BY <1>2
  <2>3. Len(rows) \in Nat /\ DOMAIN rows = 1 .. Len(rows) /\ \A j \in DOMAIN rows : rows[j] \in Rows
    OBVIOUS
  <2>. HIDE DEF i
  <2>4. i \in 1 .. Len(rows)
    BY <2>2, <2>3
  <2>5. a \in Seq(Rows) /\ DOMAIN a = 1 .. i - 1 /\ \A j \in 1 .. i - 1 : a[j] = rows[j]
    BY <2>3, <2>4, SMT
  <2>6. /\ b \in Seq(Rows) /\ DOMAIN b = 1 .. Len(rows) - i
        /\ \A j \in 1 .. Len(rows) - i : b[j] = rows[j + i]
    BY <2>3, <2>4, SMT
  <2>. HIDE DEF a, b
  <2>7. a \o b \in Seq(Rows) /\ Range(a \o b) = Range(a) \cup Range(b)
    BY <2>5, <2>6, QueueConcat
  <2>8. Range(a) \subseteq Range(rows) /\ Range(b) \subseteq Range(rows)
    <3>1. \A j \in DOMAIN a : j \in DOMAIN rows /\ a[j] = rows[j]
      BY <2>3, <2>4, <2>5, SMT
    <3>2. \A j \in DOMAIN b : j + i \in DOMAIN rows /\ b[j] = rows[j + i]
      BY <2>3, <2>4, <2>6, SMT
    <3>. QED
      BY <3>1, <3>2 DEF Range
  <2>9. \A k \in DOMAIN rows : k # i => rows[k] \in Range(a) \cup Range(b)
    <3>. SUFFICES ASSUME NEW k \in DOMAIN rows, k # i
                  PROVE  rows[k] \in Range(a) \cup Range(b)
      OBVIOUS
    <3>1. k \in 1 .. i - 1 \/ (k - i \in 1 .. Len(rows) - i /\ (k - i) + i = k)
      BY <2>3, <2>4, SMT
    <3>2. CASE k \in 1 .. i - 1
      BY <3>2, <2>5 DEF Range
    <3>3. CASE k - i \in 1 .. Len(rows) - i /\ (k - i) + i = k
      <4>1. b[k - i] = rows[(k - i) + i]
        BY <3>3, <2>6
      <4>2. b[k - i] = rows[k]
        BY <3>3, <4>1
      <4>. QED
        BY <3>3, <4>2, <2>6 DEF Range
    <3>. QED
      BY <3>1, <3>2, <3>3
  <2>10. \A x \in Range(rows) : x.message # m => x \in Range(a) \cup Range(b)
    BY <2>2, <2>9 DEF Range
  <2>. QED
    BY <2>1, <2>7, <2>8, <2>10
<1>. QED
  BY <1>1, <1>2

\* Confirmed, or given up: the row goes.
LEMMA RemovedStep ==
  ASSUME IInv, Elsewhere, FaultsOK', NEW m \in Messages, NEW what \in {"confirm", "fail"},
         calls # <<>>, Head(calls).op = what, Head(calls).message = m,
         status' = [status EXCEPT ![m] = IF what = "confirm" THEN "sent" ELSE "failed"],
         outbox' = Without(outbox, m), hasId' \subseteq Messages, dbOpen' = dbOpen,
         Answer(TRUE, m, <<>>)
  PROVE  IInv'
<1>1. PICK e : Answered(e) /\ e.ok /\ e.message = m /\ e.rows = <<>>
  <2>1. m \in Messages \cup {None} /\ <<>> \in Seq(Rows)
    BY QueueEmpty
  <2>. QED
    BY <2>1, AnswerGiven
<1>2. /\ outbox \in Seq(Rows) /\ status \in [Messages -> {"none", "sending", "sent", "failed"}]
      /\ dbOpen \in BOOLEAN
  BY DEF IInv, TypeOK, DbTypeOK
<1>3. /\ outbox' \in Seq(Rows)
      /\ Range(outbox') \subseteq Range(outbox)
      /\ \A x \in Range(outbox) : x.message # m => x \in Range(outbox')
  BY <1>2, WithoutRows
<1>4. /\ status' \in [Messages -> {"none", "sending", "sent", "failed"}]
      /\ status'[m] = (IF what = "confirm" THEN "sent" ELSE "failed")
      /\ \A n \in Messages \ {m} : status'[n] = status[n]
  BY <1>2
<1>5. DbTypeOK'
  BY <1>2, <1>3, <1>4 DEF DbTypeOK
<1>6. /\ status'[m] # "none" /\ what # "advance" /\ what \in Settling
      /\ status'[m] = "sent" => what = "confirm"
      /\ status'[m] = "failed" => what = "fail"
  BY <1>4 DEF Settling
<1>. QED
  BY <1>1, <1>3, <1>4, <1>5, <1>6, SettledKept

LEMMA ConfirmSentStep ==
  ASSUME IInv, Elsewhere, FaultsOK', ConfirmSent
  PROVE  IInv'
<1>. DEFINE m == Head(calls).message
            given == IF m \in Resources THEN m \in hasId ELSE Head(calls).id
<1>1. /\ calls # <<>> /\ Head(calls).op = "confirm"
      /\ IF given
           THEN /\ status' = [status EXCEPT ![m] = "sent"]
                /\ outbox' = Without(outbox, m)
                /\ hasId' = hasId \cup {m}
                /\ Answer(TRUE, m, <<>>)
                /\ UNCHANGED dbOpen
           ELSE Refuse /\ UNCHANGED dbVars
  BY DEF ConfirmSent, Took
<1>2. m \in Messages
  BY <1>1, HeadCall
<1>3. CASE given
  <2>1. hasId' \subseteq Messages
    BY <1>1, <1>2, <1>3 DEF IInv, TypeOK, DbTypeOK
  <2>. QED
    BY <1>1, <1>2, <1>3, <2>1, RemovedStep
<1>4. CASE ~given
  <2>1. Refuse /\ UNCHANGED dbVars
    BY <1>1, <1>4
  <2>. QED
    BY <1>1, <2>1, RefuseStep
<1>. QED
  BY <1>3, <1>4

LEMMA MarkSendFailedStep ==
  ASSUME IInv, Elsewhere, FaultsOK', MarkSendFailed
  PROVE  IInv'
<1>. DEFINE m == Head(calls).message
<1>1. /\ calls # <<>> /\ Head(calls).op = "fail"
      /\ status' = [status EXCEPT ![m] = "failed"]
      /\ outbox' = Without(outbox, m)
      /\ Answer(TRUE, m, <<>>)
      /\ dbOpen' = dbOpen /\ hasId' = hasId
  BY DEF MarkSendFailed, Took
<1>2. m \in Messages
  BY <1>1, HeadCall
<1>3. hasId' \subseteq Messages
  BY <1>1 DEF IInv, TypeOK, DbTypeOK
<1>. QED
  BY <1>1, <1>2, <1>3, RemovedStep

LEMMA UpdateResourceStageStep ==
  ASSUME IInv, Elsewhere, FaultsOK', UpdateResourceStage
  PROVE  IInv'
<1>. DEFINE m == Head(calls).message
            given == Head(calls).id /\ \E i \in DOMAIN outbox : outbox[i].message = m
            row == [message |-> m, stage |-> "uploading"]
<1>1. /\ calls # <<>> /\ Head(calls).op = "advance"
      /\ IF given
           THEN /\ hasId' = hasId \cup {m}
                /\ outbox' = [i \in DOMAIN outbox |-> IF outbox[i].message = m
                                                        THEN row ELSE outbox[i]]
                /\ Answer(TRUE, m, <<>>)
                /\ UNCHANGED <<dbOpen, status>>
           ELSE Refuse /\ UNCHANGED dbVars
  BY DEF UpdateResourceStage, Took
<1>2. m \in Messages /\ Asked(calls, "advance", m)
  BY <1>1, HeadCall
<1>3. CASE given
  <2>1. PICK e : Answered(e) /\ e.ok /\ e.message = m /\ e.rows = <<>>
    <3>1. calls # <<>> /\ m \in Messages \cup {None} /\ <<>> \in Seq(Rows)
      BY <1>1, <1>2, QueueEmpty
    <3>2. Answer(TRUE, m, <<>>)
      BY <1>1, <1>3
    <3>. QED
      BY <3>1, <3>2, AnswerGiven
  <2>2. /\ outbox \in Seq(Rows) /\ status \in [Messages -> {"none", "sending", "sent", "failed"}]
        /\ dbOpen \in BOOLEAN /\ hasId \subseteq Messages
    BY DEF IInv, TypeOK, DbTypeOK
  <2>3. row \in Rows /\ row.message = m
    BY <1>2 DEF Rows, Stages
  <2>4. outbox' = [i \in DOMAIN outbox |-> IF outbox[i].message = m THEN row ELSE outbox[i]]
    BY <1>1, <1>3
  <2>5. status' = status /\ dbOpen' = dbOpen /\ hasId' = hasId \cup {m}
    BY <1>1, <1>3
  <2>6. row = [message |-> m, stage |-> "uploading"]
    OBVIOUS
  <2>7. Head(calls).message = m
    OBVIOUS
  <2>. HIDE DEF m, row
  <2>8. DOMAIN outbox = 1 .. Len(outbox) /\ Len(outbox) \in Nat /\ \A i \in DOMAIN outbox : outbox[i] \in Rows
    BY <2>2
  <2>9. outbox' \in [1 .. Len(outbox) -> Rows]
    BY <2>3, <2>4, <2>8
  <2>10. outbox' \in Seq(Rows)
    BY <2>8, <2>9
  <2>11. DOMAIN outbox' = DOMAIN outbox
         /\ \A i \in DOMAIN outbox : outbox'[i] = IF outbox[i].message = m THEN row ELSE outbox[i]
    BY <2>4
  <2>12. \A x \in Range(outbox) : x.message # m => x \in Range(outbox')
    BY <2>11 DEF Range
  <2>13. \A x \in Range(outbox') : (x \in Range(outbox) /\ x.message # m) \/ x = row
    BY <2>11 DEF Range
  <2>14. DbTypeOK'
    BY <1>2, <2>2, <2>5, <2>10 DEF DbTypeOK
  <2>15. status[m] # "none"
    BY <1>2 DEF IInv, EntriesInv, MessageInv, QueuedInv, Settling
  <2>16. "advance" \in Settling
    BY DEF Settling
  <2>. QED
    BY <1>1, <1>2, <2>1, <2>5, <2>6, <2>7, <2>12, <2>13, <2>14, <2>15, <2>16, SettledKept
<1>4. CASE ~given
  <2>1. Refuse /\ UNCHANGED dbVars
    BY <1>1, <1>4
  <2>. QED
    BY <1>1, <2>1, RefuseStep
<1>. QED
  BY <1>3, <1>4

LEMMA StoreWorkerStep ==
  ASSUME IInv, StoreWorker
  PROVE  IInv'
<1>1. Elsewhere /\ FaultsOK'
  BY WorkerElsewhere DEF StoreWorker
<1>. QED
  BY <1>1, OpenDbStep, EnqueueSendStep, ConfirmSentStep, MarkSendFailedStep,
     UpdateResourceStageStep, GetMessageStep, LoadOutboxStep DEF StoreWorker

-----------------------------------------------------------------------------
(* The steps of the server and the engine.                                 *)

\* What a step of the server or the engine leaves alone.
ClientSame ==
  UNCHANGED <<dbVars, calls, results, dispatchVars, entryVars, flagVars>>

LEMMA ServerKept ==
  ASSUME IInv, ClientSame, FaultsOK', faults'.kinds = faults.kinds,
         stored \subseteq stored', published \subseteq published',
         \A m \in Messages : GivenUp(m) => (GivenUp(m))',
         LinkTypeOK', EngineTypeOK', ServerTypeOK', TablesInv', RepliesInv', EndsInv',
         restored \/ (c2s' = <<>> /\ s2c' = <<>> /\ finished' = <<>> /\ jobs' = {}),
         \A m \in jobs' \cup (published' \cap Resources) : Advanced(m)
  PROVE  IInv'
<1>1. /\ TypeOK /\ CallsInv /\ QuietInv /\ ResultsInv /\ FlagsInv /\ RowsInv /\ StatusInv /\ EntriesInv
  BY DEF IInv
<1>2. /\ dbVars' = dbVars /\ calls' = calls /\ results' = results /\ dispatchVars' = dispatchVars
      /\ entryVars' = entryVars /\ flagVars' = flagVars
  BY DEF ClientSame
<1>3. dbOpen' = dbOpen /\ status' = status /\ hasId' = hasId /\ outbox' = outbox
  BY <1>2 DEF dbVars
<1>4. DbTypeOK' /\ QueuesTypeOK'
  BY <1>1, <1>2, <1>3 DEF TypeOK, DbTypeOK, QueuesTypeOK
<1>5. EntriesTypeOK' /\ FlagsTypeOK'
  BY <1>1, <1>2 DEF TypeOK, EntriesTypeOK, FlagsTypeOK, dispatchVars, entryVars, flagVars
<1>6. TypeOK'
  BY <1>4, <1>5 DEF TypeOK, FaultsOK
<1>7. dbReady' = dbReady /\ restored' = restored /\ restoring' = restoring
  BY <1>2 DEF flagVars
<1>8. FlagsInv'
  BY <1>1, <1>3, <1>7 DEF FlagsInv
<1>9. registry' = registry /\ action' = action /\ stage' = stage
  BY <1>2 DEF dispatchVars, entryVars
<1>10. QuietInv'
  BY <1>1, <1>2, <1>3, <1>7, <1>9 DEF QuietInv, NoAction, PlainCalls, PlainResults
<1>11. CallsInv'
  BY <1>1, <1>2 DEF CallsInv, Named, EnqueuedOnce
<1>12. ResultsInv'
  BY <1>1, <1>2, <1>3, <1>7 DEF ResultsInv, NamedResults, AllInOrder
<1>13. RowsInv'
  BY <1>1, <1>2, <1>3 DEF RowsInv
<1>14. /\ \A m, s : (Row(m, s))' <=> Row(m, s)
       /\ \A m : Advanced(m) => (Advanced(m))'
       /\ \A m \in Messages : \A what : Justified(m, what) => (Justified(m, what))'
  <2>1. \A m, s : (Row(m, s))' <=> Row(m, s)
    BY <1>3 DEF Row
  <2>2. \A m : Advanced(m) => (Advanced(m))'
    BY <1>3 DEF Advanced
  <2>3. \A m \in Messages : \A what : Justified(m, what) => (Justified(m, what))'
    BY DEF Justified
  <2>. QED
    BY <2>1, <2>2, <2>3
<1>15. EntriesInv'
  <2>. SUFFICES ASSUME NEW m \in Messages
                PROVE  (MessageInv(m, registry, action, stage, calls, results))'
    BY DEF EntriesInv
  <2>1. MessageInv(m, registry, action, stage, calls, results)
    BY <1>1 DEF EntriesInv
  <2>2. (QueuedInv(m, registry, action, stage, calls, results))'
    BY <1>2, <1>3, <1>9, <1>14, <2>1 DEF MessageInv, QueuedInv, Asked, Told
  <2>3. (EntryInv(m, registry, action, stage))'
    BY <1>3, <1>9, <1>14, <2>1 DEF MessageInv, EntryInv
  <2>4. (TruthInv(m, action, calls))'
    BY <1>2, <1>9, <1>14, <2>1 DEF MessageInv, TruthInv, Asked
  <2>. QED
    BY <2>2, <2>3, <2>4 DEF MessageInv
<1>16. StatusInv'
  BY <1>1, <1>3 DEF StatusInv
<1>17. JobsInv'
  BY <1>14 DEF JobsInv
<1>. QED
  BY <1>6, <1>8, <1>10, <1>11, <1>12, <1>13, <1>15, <1>16, <1>17 DEF IInv

LEMMA EventAppended ==
  ASSUME NEW S, NEW q \in Seq(S), NEW e \in S, e \notin Range(q), IsInjective(q)
  PROVE  IsInjective(Append(q, e))
<1>1. \A i \in DOMAIN Append(q, e) : \/ i \in DOMAIN q /\ Append(q, e)[i] = q[i]
                                     \/ i = Len(q) + 1 /\ Append(q, e)[i] = e
  BY QueueAppend, SMT
<1>2. \A i \in DOMAIN q : q[i] # e
  BY DEF Range
<1>. QED
  BY <1>1, <1>2 DEF IsInjective

LEMMA StoreMessageFacts ==
  ASSUME IInv, NEW m \in Messages, m \notin refused, StoreMessage(m), source' = source
  PROVE  /\ stored' = stored \cup {m} /\ published' = published \cup ({m} \ Resources)
         /\ refused' = refused
         /\ ServerTypeOK' /\ TablesInv'
<1>1. TablesInv /\ ServerTypeOK
  BY DEF IInv, TypeOK
<1>2. /\ stored' = stored \cup {m} /\ published' = published \cup ({m} \ Resources)
      /\ refused' = refused
      /\ events' = IF m \in Resources \cup stored THEN events ELSE Append(events, m)
  BY DEF StoreMessage
<1>3. events \in Seq(Messages) /\ Range(events) = published /\ IsInjective(events)
  BY <1>1 DEF TablesInv, ServerTypeOK
<1>4. events' \in Seq(Messages) /\ Range(events') = published' /\ IsInjective(events')
  <2>1. CASE m \in Resources \cup stored
    <3>1. events' = events /\ published' = published
      BY <1>1, <1>2, <2>1 DEF TablesInv
    <3>. QED
      BY <1>3, <3>1
  <2>2. CASE m \notin Resources \cup stored
    <3>1. m \notin Range(events) /\ published' = published \cup {m} /\ events' = Append(events, m)
      BY <1>1, <1>2, <1>3, <2>2 DEF TablesInv
    <3>2. Append(events, m) \in Seq(Messages) /\ Range(Append(events, m)) = Range(events) \cup {m}
      BY <1>3, QueueAppend
    <3>3. IsInjective(Append(events, m))
      BY <1>3, <3>1, EventAppended
    <3>. QED
      BY <1>3, <3>1, <3>2, <3>3
  <2>. QED
    BY <2>1, <2>2
<1>5. ServerTypeOK'
  BY <1>1, <1>2, <1>4 DEF ServerTypeOK
<1>6. /\ source' \subseteq Resources
      /\ stored' \cap refused' = {}
      /\ published' \subseteq stored'
      /\ stored' \ Resources \subseteq published'
  BY <1>1, <1>2 DEF TablesInv
<1>. QED
  BY <1>2, <1>4, <1>5, <1>6 DEF TablesInv, IsInjective

LEMMA EndsNamed ==
  ASSUME TypeOK, NEW x \in Range(finished)
  PROVE  x.message \in Messages
<1>1. finished \in Seq(EndType)
  BY DEF TypeOK, EngineTypeOK
<1>2. x \in EndType
  BY <1>1 DEF Range
<1>. QED
  BY <1>2 DEF EndType

LEMMA DealMessageStep ==
  ASSUME IInv, DealMessage
  PROVE  IInv'
<1>. DEFINE m == Head(c2s).message
<1>1. /\ c2s # <<>> /\ c2s' = Tail(c2s)
      /\ \/ /\ m \in refused
            /\ Reply(m, "permanent")
            /\ UNCHANGED <<serverVars, faults>>
         \/ /\ m \notin refused
            /\ StoreMessage(m)
            /\ Reply(m, "ok")
            /\ UNCHANGED faults
         \/ /\ m \notin refused
            /\ Fault("server")
            /\ StoreMessage(m) \/ UNCHANGED serverVars
            /\ Reply(m, "transient")
      /\ UNCHANGED <<dbVars, calls, results, dispatchVars, entryVars, flagVars,
                     chatPage, linkUp, engineVars>>
  BY DEF DealMessage
<1>2. /\ TypeOK /\ QuietInv /\ FaultsOK /\ JobsInv /\ RepliesInv /\ EndsInv /\ TablesInv
  BY DEF IInv
<1>3. /\ c2s \in Seq(RequestType) /\ s2c \in Seq(ReplyType)
      /\ chatPage \in BOOLEAN /\ linkUp \in BOOLEAN
  BY <1>2 DEF TypeOK, LinkTypeOK
<1>4. c2s' \in Seq(RequestType) /\ Head(c2s) \in RequestType
  BY <1>1, <1>3, QueueTail
<1>5. m \in Messages
  BY <1>4 DEF RequestType
<1>6. FaultsOK' /\ faults'.kinds = faults.kinds
  BY <1>1, <1>2, FaultFacts, FaultsSame
<1>7. ClientSame /\ EngineTypeOK' /\ source' = source /\ jobs' = jobs /\ finished' = finished
  BY <1>1, <1>2 DEF ClientSame, TypeOK, EngineTypeOK, engineVars
<1>8. restored
  BY <1>1, <1>2 DEF QuietInv
<1>. HIDE DEF m
<1>9. \/ m \notin refused /\ StoreMessage(m)
      \/ UNCHANGED serverVars
  BY <1>1
<1>10. /\ stored \subseteq stored' /\ published \subseteq published' /\ refused' = refused
       /\ published' \subseteq published \cup (Messages \ (Resources \cup refused))
       /\ ServerTypeOK' /\ TablesInv'
  <2>1. CASE m \notin refused /\ StoreMessage(m)
    <3>1. /\ stored' = stored \cup {m} /\ published' = published \cup ({m} \ Resources)
          /\ refused' = refused /\ ServerTypeOK' /\ TablesInv'
      BY <1>5, <1>7, <2>1, StoreMessageFacts
    <3>. QED
      BY <1>5, <2>1, <3>1
  <2>2. CASE UNCHANGED serverVars
    <3>1. stored' = stored /\ published' = published /\ refused' = refused /\ events' = events
      BY <2>2 DEF serverVars
    <3>. QED
      BY <1>2, <1>7, <3>1 DEF TypeOK, ServerTypeOK, TablesInv, IsInjective
  <2>. QED
    BY <1>9, <2>1, <2>2
<1>11. \E code \in {"ok", "permanent", "transient"} :
         /\ Reply(m, code)
         /\ code = "ok" => m \in stored'
         /\ code = "permanent" => m \in refused'
  <2>1. CASE m \in refused /\ Reply(m, "permanent")
    BY <1>10, <2>1
  <2>2. CASE StoreMessage(m) /\ Reply(m, "ok")
    <3>1. m \in stored'
      BY <2>2 DEF StoreMessage
    <3>. QED
      BY <2>2, <3>1
  <2>3. CASE Reply(m, "transient")
    BY <2>3
  <2>. QED
    BY <1>1, <2>1, <2>2, <2>3
<1>12. PICK code \in {"ok", "permanent", "transient"} :
         /\ Reply(m, code)
         /\ code = "ok" => m \in stored'
         /\ code = "permanent" => m \in refused'
  BY <1>11
<1>. DEFINE r == [message |-> m, code |-> code]
<1>13. r \in ReplyType /\ r.message = m /\ r.code = code
  BY <1>5 DEF ReplyType
<1>14. s2c' = Append(s2c, r)
  BY <1>12 DEF Reply
<1>. HIDE DEF r
<1>15. s2c' \in Seq(ReplyType) /\ Range(s2c') = Range(s2c) \cup {r}
  BY <1>3, <1>13, <1>14, QueueAppend
<1>16. RepliesInv'
  BY <1>2, <1>10, <1>12, <1>13, <1>15 DEF RepliesInv
<1>17. LinkTypeOK'
  BY <1>1, <1>3, <1>4, <1>15 DEF LinkTypeOK
<1>18. \A n \in Messages : GivenUp(n) => (GivenUp(n))'
  BY <1>6, <1>7, <1>10 DEF GivenUp, Doomed
<1>19. EndsInv'
  <2>1. \A x \in Range(finished) : x.message \in Messages
    BY <1>2, EndsNamed
  <2>. QED
    BY <1>2, <1>7, <1>10, <1>18, <2>1 DEF EndsInv
<1>20. \A n \in jobs' \cup (published' \cap Resources) : Advanced(n)
  BY <1>2, <1>7, <1>10 DEF JobsInv
<1>. QED
  BY <1>6, <1>7, <1>8, <1>10, <1>16, <1>17, <1>18, <1>19, <1>20, ServerKept

LEMMA PublishStep ==
  ASSUME IInv, NEW m \in Messages, Publish(m)
  PROVE  IInv'
<1>1. /\ m \in jobs /\ m \in source /\ m \notin published
      /\ published' = published \cup {m}
      /\ events' = Append(events, m)
      /\ UNCHANGED <<dbVars, calls, results, dispatchVars, entryVars, flagVars,
                     linkVars, engineVars, copies, refused, stored, faults>>
  BY DEF Publish
<1>2. /\ TypeOK /\ QuietInv /\ FaultsOK /\ JobsInv /\ RepliesInv /\ EndsInv /\ TablesInv
  BY DEF IInv
<1>3. FaultsOK' /\ faults'.kinds = faults.kinds
  BY <1>1, <1>2, FaultsSame
<1>4. /\ ClientSame /\ LinkTypeOK' /\ EngineTypeOK'
      /\ stored' = stored /\ refused' = refused /\ source' = source
      /\ jobs' = jobs /\ finished' = finished /\ s2c' = s2c
  BY <1>1, <1>2 DEF ClientSame, TypeOK, EngineTypeOK, LinkTypeOK, engineVars, linkVars
<1>5. restored
  BY <1>1, <1>2 DEF QuietInv
<1>6. Advanced(m) /\ m \in stored /\ m \notin refused /\ m \in Resources
  BY <1>1, <1>2 DEF JobsInv, Advanced, TablesInv
<1>7. events \in Seq(Messages) /\ Range(events) = published /\ IsInjective(events)
  BY <1>2 DEF TablesInv, TypeOK, ServerTypeOK
<1>8. events' \in Seq(Messages) /\ Range(events') = published' /\ IsInjective(events')
  BY <1>1, <1>7, QueueAppend, EventAppended
<1>9. ServerTypeOK'
  BY <1>1, <1>2, <1>4, <1>8 DEF TypeOK, ServerTypeOK
<1>10. /\ source' \subseteq Resources
       /\ stored' \cap refused' = {}
       /\ published' \subseteq stored'
       /\ stored' \ Resources \subseteq published'
  BY <1>1, <1>2, <1>4, <1>6 DEF TablesInv
<1>11. TablesInv'
  BY <1>8, <1>10 DEF TablesInv, IsInjective
<1>12. \A n \in Messages : GivenUp(n) => (GivenUp(n))'
  BY <1>1, <1>3, <1>4, <1>6 DEF GivenUp, Doomed
<1>13. RepliesInv'
  BY <1>2, <1>4 DEF RepliesInv
<1>14. EndsInv'
  <2>1. \A x \in Range(finished) : x.message \in Messages
    BY <1>2, EndsNamed
  <2>. QED
    BY <1>1, <1>2, <1>4, <1>12, <2>1 DEF EndsInv
<1>15. \A n \in jobs' \cup (published' \cap Resources) : Advanced(n)
  BY <1>1, <1>2, <1>4, <1>6 DEF JobsInv
<1>16. stored \subseteq stored' /\ published \subseteq published'
  BY <1>1, <1>4
<1>. QED
  BY <1>3, <1>4, <1>5, <1>9, <1>11, <1>12, <1>13, <1>14, <1>15, <1>16, ServerKept

LEMMA UploadFinishesStep ==
  ASSUME IInv, NEW m \in Messages, UploadFinishes(m)
  PROVE  IInv'
<1>1. /\ m \in jobs
      /\ jobs' = jobs \ {m}
      /\ \/ /\ \E ok \in UploadOutcomes(m) :
                 finished' = Append(finished, [message |-> m, ok |-> ok])
            /\ UNCHANGED faults
         \/ /\ Fault("upload")
            /\ finished' = Append(finished, [message |-> m, ok |-> FALSE])
      /\ UNCHANGED <<dbVars, calls, results, dispatchVars, entryVars, flagVars,
                     linkVars, resourceUp, source, serverVars>>
  BY DEF UploadFinishes
<1>2. /\ TypeOK /\ QuietInv /\ FaultsOK /\ JobsInv /\ RepliesInv /\ EndsInv /\ TablesInv
  BY DEF IInv
<1>3. FaultsOK' /\ faults'.kinds = faults.kinds
  BY <1>1, <1>2, FaultFacts, FaultsSame
<1>4. /\ ClientSame /\ LinkTypeOK'
      /\ stored' = stored /\ refused' = refused /\ source' = source
      /\ published' = published /\ events' = events /\ s2c' = s2c /\ resourceUp' = resourceUp
  BY <1>1, <1>2 DEF ClientSame, TypeOK, LinkTypeOK, linkVars, serverVars
<1>5. restored
  BY <1>1, <1>2 DEF QuietInv
<1>6. m \in stored /\ (m \notin published => m \in Resources)
  BY <1>1, <1>2 DEF JobsInv, Advanced, TablesInv
<1>7. PICK ok \in BOOLEAN : /\ finished' = Append(finished, [message |-> m, ok |-> ok])
                            /\ IF ok THEN m \in published ELSE GivenUp(m)
  <2>1. CASE \E ok \in UploadOutcomes(m) : finished' = Append(finished, [message |-> m, ok |-> ok])
    BY <1>6, <2>1 DEF UploadOutcomes, GivenUp, Doomed
  <2>2. CASE Fault("upload") /\ finished' = Append(finished, [message |-> m, ok |-> FALSE])
    BY <2>2 DEF Fault, GivenUp
  <2>. QED
    BY <1>1, <2>1, <2>2
<1>. DEFINE r == [message |-> m, ok |-> ok]
<1>8. r \in EndType /\ r.message = m /\ r.ok = ok
  BY DEF EndType
<1>9. finished' = Append(finished, r)
  BY <1>7
<1>. HIDE DEF r
<1>10. finished' \in Seq(EndType) /\ Range(finished') = Range(finished) \cup {r}
  BY <1>2, <1>8, <1>9, QueueAppend DEF TypeOK, EngineTypeOK
<1>11. EngineTypeOK'
  BY <1>1, <1>2, <1>4, <1>10 DEF TypeOK, EngineTypeOK
<1>12. ServerTypeOK' /\ TablesInv'
  BY <1>2, <1>4 DEF TypeOK, ServerTypeOK, TablesInv, IsInjective
<1>13. \A n : (GivenUp(n))' <=> GivenUp(n)
  BY <1>3, <1>4 DEF GivenUp, Doomed
<1>14. RepliesInv'
  BY <1>2, <1>4 DEF RepliesInv
<1>15. EndsInv'
  BY <1>2, <1>4, <1>7, <1>8, <1>10, <1>13 DEF EndsInv
<1>16. \A n \in jobs' \cup (published' \cap Resources) : Advanced(n)
  BY <1>1, <1>2, <1>4 DEF JobsInv
<1>17. stored \subseteq stored' /\ published \subseteq published'
  BY <1>4
<1>. QED
  BY <1>3, <1>4, <1>5, <1>11, <1>12, <1>13, <1>14, <1>15, <1>16, <1>17, ServerKept

LEMMA LoseSourceStep ==
  ASSUME IInv, NEW m \in Messages, LoseSource(m)
  PROVE  IInv'
<1>1. /\ Fault("source")
      /\ source' = source \ {m}
      /\ UNCHANGED <<dbVars, calls, results, dispatchVars, entryVars, flagVars,
                     linkVars, resourceUp, jobs, finished, serverVars>>
  BY DEF LoseSource
<1>2. /\ TypeOK /\ QuietInv /\ FaultsOK /\ JobsInv /\ RepliesInv /\ EndsInv /\ TablesInv
  BY DEF IInv
<1>3. FaultsOK' /\ faults'.kinds = faults.kinds
  BY <1>1, <1>2, FaultFacts
<1>4. /\ ClientSame /\ LinkTypeOK'
      /\ stored' = stored /\ refused' = refused /\ published' = published /\ events' = events
      /\ s2c' = s2c /\ c2s' = c2s /\ finished' = finished /\ jobs' = jobs /\ resourceUp' = resourceUp
  BY <1>1, <1>2 DEF ClientSame, TypeOK, LinkTypeOK, linkVars, serverVars
<1>5. EngineTypeOK' /\ ServerTypeOK'
  BY <1>1, <1>2, <1>4 DEF TypeOK, EngineTypeOK, ServerTypeOK
<1>6. TablesInv'
  BY <1>1, <1>2, <1>4 DEF TablesInv, IsInjective
<1>7. \A n : GivenUp(n) => (GivenUp(n))'
  BY <1>1, <1>3, <1>4 DEF GivenUp, Doomed
<1>8. RepliesInv'
  BY <1>2, <1>4 DEF RepliesInv
<1>9. EndsInv'
  BY <1>2, <1>4, <1>7 DEF EndsInv
<1>10. \A n \in jobs' \cup (published' \cap Resources) : Advanced(n)
  BY <1>2, <1>4 DEF JobsInv
<1>11. stored \subseteq stored' /\ published \subseteq published'
  BY <1>4
<1>12. restored \/ (c2s' = <<>> /\ s2c' = <<>> /\ finished' = <<>> /\ jobs' = {})
  BY <1>2, <1>4 DEF QuietInv
<1>. QED
  BY <1>3, <1>4, <1>5, <1>6, <1>7, <1>8, <1>9, <1>10, <1>11, <1>12, ServerKept

-----------------------------------------------------------------------------
(* Connections that break, a new login, a crash.                           *)

LEMMA SlotConnectionClosedStep ==
  ASSUME IInv, SlotConnectionClosed
  PROVE  IInv'
<1>1. /\ Fault("cut")
      /\ linkUp' = FALSE /\ connected' = FALSE /\ c2s' = <<>> /\ s2c' = <<>>
      /\ UNCHANGED <<dbVars, calls, results, dispatchVars, entryVars, dbReady,
                     resourceReady, restored, restoring, restoreWait, chatPage,
                     engineVars, serverVars>>
  BY DEF SlotConnectionClosed
<1>2. /\ TypeOK /\ CallsInv /\ QuietInv /\ FaultsOK /\ EntriesInv /\ ResultsInv /\ FlagsInv
  BY DEF IInv
<1>3. SameWorld /\ FaultsOK'
  BY <1>1, <1>2, FaultFacts DEF SameWorld, dbVars, serverVars, engineVars
<1>4. Shrinks(s2c, s2c') /\ Shrinks(finished, finished') /\ Shrinks(results, results')
  BY <1>1 DEF Shrinks, engineVars
<1>5. ResultsInv'
  BY <1>1, <1>2, <1>4, ResultsKept DEF dbVars
<1>6. /\ dbOpen' \in BOOLEAN /\ hasId' = hasId
      /\ chatPage' \in BOOLEAN /\ linkUp' \in BOOLEAN /\ resourceUp' \in BOOLEAN
      /\ jobs' \subseteq Messages /\ jobs' = jobs
  BY <1>1, <1>2 DEF dbVars, engineVars, TypeOK, DbTypeOK, LinkTypeOK, EngineTypeOK
<1>7. c2s' \in Seq(RequestType)
  BY <1>1, QueueEmpty
<1>8. registry' = registry /\ action' = action /\ stage' = stage
  BY <1>1 DEF entryVars, dispatchVars
<1>9. /\ \A n \in Messages : MessageInv(n, registry', action', stage', calls', results')
      /\ calls' \in Seq(CallType) /\ CallsInv'
  BY <1>1, <1>3, <1>8, EntriesUntouched
<1>10. EntriesTypeOK' /\ FlagsTypeOK' /\ FlagsInv'
  BY <1>1, <1>2 DEF entryVars, dispatchVars, dbVars, TypeOK, EntriesTypeOK, FlagsTypeOK, FlagsInv
<1>11. QuietInv'
  BY <1>1, <1>2, <1>3, <1>4, <1>6, <1>8, QuietKept DEF QuietInv
<1>. QED
  BY <1>3, <1>4, <1>5, <1>6, <1>7, <1>9, <1>10, <1>11, SlotKept

LEMMA ResourceCutStep ==
  ASSUME IInv, ResourceCut
  PROVE  IInv'
<1>1. /\ Fault("resourceCut")
      /\ resourceUp' = FALSE
      /\ UNCHANGED <<dbVars, calls, results, dispatchVars, entryVars, flagVars,
                     linkVars, jobs, finished, source, serverVars>>
  BY DEF ResourceCut
<1>2. /\ TypeOK /\ CallsInv /\ QuietInv /\ FaultsOK /\ EntriesInv /\ ResultsInv /\ FlagsInv
  BY DEF IInv
<1>3. SameWorld /\ FaultsOK'
  BY <1>1, <1>2, FaultFacts DEF SameWorld, dbVars, serverVars
<1>4. Shrinks(s2c, s2c') /\ Shrinks(finished, finished') /\ Shrinks(results, results')
  BY <1>1 DEF Shrinks, linkVars
<1>5. ResultsInv'
  BY <1>1, <1>2, <1>4, ResultsKept DEF dbVars, flagVars
<1>6. /\ dbOpen' \in BOOLEAN /\ hasId' = hasId /\ c2s' \in Seq(RequestType)
      /\ chatPage' \in BOOLEAN /\ linkUp' \in BOOLEAN /\ resourceUp' \in BOOLEAN
      /\ jobs' \subseteq Messages /\ jobs' = jobs /\ c2s' = c2s
  BY <1>1, <1>2 DEF dbVars, linkVars, TypeOK, DbTypeOK, LinkTypeOK, EngineTypeOK
<1>7. registry' = registry /\ action' = action /\ stage' = stage
  BY <1>1 DEF entryVars, dispatchVars
<1>8. /\ \A n \in Messages : MessageInv(n, registry', action', stage', calls', results')
      /\ calls' \in Seq(CallType) /\ CallsInv'
  BY <1>1, <1>3, <1>7, EntriesUntouched
<1>9. EntriesTypeOK' /\ FlagsTypeOK' /\ FlagsInv'
  BY <1>1, <1>2 DEF entryVars, dispatchVars, flagVars, dbVars, TypeOK, EntriesTypeOK, FlagsTypeOK, FlagsInv
<1>10. QuietInv'
  BY <1>1, <1>2, <1>3, <1>4, <1>6, <1>7, QuietKept DEF QuietInv, flagVars
<1>. QED
  BY <1>3, <1>4, <1>5, <1>6, <1>8, <1>9, <1>10, SlotKept

LEMMA ReloginStep ==
  ASSUME IInv, Relogin
  PROVE  IInv'
<1>1. /\ Fault("relogin")
      /\ chatPage' = FALSE /\ linkUp' = FALSE /\ c2s' = <<>> /\ s2c' = <<>>
      /\ resourceUp' = FALSE /\ jobs' = {} /\ finished' = <<>>
      /\ calls' = Append(calls, OpenCall)
      /\ UNCHANGED <<dbVars, results, dispatchVars, entryVars, flagVars, source,
                     serverVars>>
  BY DEF Relogin
<1>2. /\ TypeOK /\ CallsInv /\ QuietInv /\ FaultsOK /\ EntriesInv /\ ResultsInv /\ FlagsInv
  BY DEF IInv
<1>3. SameWorld /\ FaultsOK'
  BY <1>1, <1>2, FaultFacts DEF SameWorld, dbVars, serverVars
<1>4. Shrinks(s2c, s2c') /\ Shrinks(finished, finished') /\ Shrinks(results, results')
  BY <1>1 DEF Shrinks
<1>5. calls' \in Seq(CallType) /\ CallsInv' /\ Reads(calls, calls') /\ (PlainCalls(calls) => PlainCalls(calls'))
  BY <1>1, <1>2, AppendPlain, PlainCallsTyped DEF CallsInv, Named, EnqueuedOnce
<1>6. registry' = registry /\ action' = action /\ stage' = stage /\ results' = results
  BY <1>1 DEF dispatchVars, entryVars
<1>7. \A m \in Messages : MessageInv(m, registry', action', stage', calls', results')
  BY <1>2, <1>5, <1>6, EntriesSame
<1>8. EntriesTypeOK' /\ FlagsTypeOK' /\ FlagsInv'
  BY <1>1, <1>2 DEF dispatchVars, entryVars, flagVars, dbVars, TypeOK, EntriesTypeOK, FlagsTypeOK, FlagsInv
<1>9. ResultsInv'
  BY <1>1, <1>2, <1>4, ResultsKept DEF dbVars, flagVars
<1>10. QuietInv'
  BY <1>1, <1>2, <1>3, <1>4, <1>5, <1>6, QuietKept DEF QuietInv, flagVars
<1>11. /\ dbOpen' \in BOOLEAN /\ hasId' = hasId /\ c2s' \in Seq(RequestType)
       /\ chatPage' \in BOOLEAN /\ linkUp' \in BOOLEAN /\ resourceUp' \in BOOLEAN
       /\ jobs' \subseteq Messages /\ jobs' \subseteq jobs
  BY <1>1, <1>2, QueueEmpty DEF dbVars, TypeOK, DbTypeOK
<1>. QED
  BY <1>3, <1>4, <1>5, <1>7, <1>8, <1>9, <1>10, <1>11, SlotKept

LEMMA CrashStep ==
  ASSUME IInv, Crash
  PROVE  IInv'
<1>1. /\ Fault("crash") /\ calls' = <<>> /\ results' = <<>> /\ ForgetEntries
      /\ chatPage' = FALSE /\ linkUp' = FALSE /\ c2s' = <<>> /\ s2c' = <<>>
      /\ resourceUp' = FALSE /\ jobs' = {} /\ finished' = <<>> /\ dbOpen' = FALSE
      /\ UNCHANGED <<status, hasId, outbox, source, serverVars>>
  BY DEF Crash
<1>2. /\ connected' = FALSE /\ dbReady' = FALSE /\ resourceReady' = FALSE
      /\ restored' = FALSE /\ restoring' = FALSE /\ restoreWait' = FALSE
  BY DEF Crash
<1>3. TypeOK /\ FaultsOK /\ EntriesInv
  BY DEF IInv
<1>4. SameWorld /\ FaultsOK'
  BY <1>1, <1>3, FaultFacts DEF SameWorld, serverVars
<1>5. Shrinks(s2c, s2c') /\ Shrinks(finished, finished') /\ Shrinks(results, results')
  BY <1>1 DEF Shrinks
<1>6. Reads(calls, calls') /\ Range(results') \subseteq Range(results)
  BY <1>1, RangeEmpty DEF Reads
<1>7. /\ EntriesTypeOK' /\ NoAction(action')
      /\ \A m \in Messages : MessageInv(m, registry', action', stage', calls', results')
  BY <1>1, <1>3, <1>6, EntriesForgotten
<1>8. FlagsTypeOK' /\ FlagsInv'
  BY <1>2 DEF FlagsTypeOK, FlagsInv
<1>9. CallsInv' /\ ResultsInv'
  BY <1>1, RangeEmpty DEF CallsInv, Named, EnqueuedOnce, ResultsInv, NamedResults, AllInOrder
<1>10. QuietInv'
  BY <1>1, <1>7, RangeEmpty DEF QuietInv, NoAction, PlainCalls, PlainResults
<1>11. /\ dbOpen' \in BOOLEAN /\ hasId' = hasId
       /\ calls' \in Seq(CallType) /\ c2s' \in Seq(RequestType)
       /\ chatPage' \in BOOLEAN /\ linkUp' \in BOOLEAN /\ resourceUp' \in BOOLEAN
       /\ jobs' \subseteq Messages /\ jobs' \subseteq jobs
  BY <1>1, QueueEmpty
<1>. QED
  BY <1>4, <1>5, <1>7, <1>8, <1>9, <1>10, <1>11, SlotKept

-----------------------------------------------------------------------------
(* The theorems.                                                           *)

LEMMA Initially ==
  ASSUME Init
  PROVE  IInv
<1>1. /\ status = [m \in Messages |-> "none"] /\ hasId = {} /\ outbox = <<>> /\ dbOpen = FALSE
      /\ calls = <<>> /\ results = <<>>
  BY DEF Init
<1>2. /\ registry = {} /\ stage = FirstStage /\ action = [m \in Messages |-> "none"]
      /\ waiting = {} /\ known = {} /\ loaded = {} /\ uploading = {} /\ resumePending = {}
  BY DEF Init
<1>3. /\ connected = FALSE /\ dbReady = FALSE /\ resourceReady = FALSE
      /\ restored = FALSE /\ restoring = FALSE /\ restoreWait = FALSE
      /\ chatPage = FALSE /\ linkUp = FALSE /\ c2s = <<>> /\ s2c = <<>>
  BY DEF Init
<1>4. /\ resourceUp = FALSE /\ jobs = {} /\ finished = <<>> /\ source = Resources
      /\ stored = {} /\ published = {} /\ events = <<>>
  BY DEF Init
<1>5. PICK x \in Mixes :
        refused = x.refused /\ faults = [count |-> 0, max |-> x.faults, kinds |-> x.kinds]
  BY DEF Init
<1>6. x.refused \subseteq Messages /\ x.faults \in Nat /\ x.kinds \subseteq AllFaults
  BY BoundsAssumption
<1>7. FaultsOK
  BY <1>5, <1>6 DEF FaultsOK
<1>8. FirstStage \in [Messages -> Stages]
  BY DEF FirstStage, Stages
<1>9. DbTypeOK /\ QueuesTypeOK
  BY <1>1, QueueEmpty DEF DbTypeOK, QueuesTypeOK
<1>10. EntriesTypeOK /\ FlagsTypeOK
  BY <1>2, <1>3, <1>8 DEF EntriesTypeOK, FlagsTypeOK, Actions
<1>11. LinkTypeOK /\ EngineTypeOK /\ ServerTypeOK
  BY <1>3, <1>4, <1>5, <1>6, QueueEmpty, MessagesAssumption DEF LinkTypeOK, EngineTypeOK, ServerTypeOK
<1>12. TypeOK
  BY <1>7, <1>9, <1>10, <1>11 DEF TypeOK, FaultsOK
<1>13. FlagsInv /\ QuietInv
  BY <1>1, <1>2, <1>3, <1>4, RangeEmpty DEF FlagsInv, QuietInv, NoAction, PlainCalls, PlainResults
<1>14. CallsInv /\ ResultsInv /\ RowsInv
  BY <1>1, RangeEmpty DEF CallsInv, Named, EnqueuedOnce, ResultsInv, NamedResults, AllInOrder, RowsInv
<1>15. EntriesInv
  <2>. SUFFICES ASSUME NEW m \in Messages
                PROVE  MessageInv(m, registry, action, stage, calls, results)
    BY DEF EntriesInv
  <2>1. \A op : ~Asked(calls, op, m) /\ ~Told(results, op, m)
    BY <1>1, RangeEmpty DEF Asked, Told
  <2>2. m \notin registry /\ action[m] = "none" /\ stage[m] = FirstStage[m]
    BY <1>2
  <2>3. stage[m] # "uploading" /\ (stage[m] = "metadata" => m \in Resources)
    BY <2>2 DEF FirstStage
  <2>. QED
    BY <2>1, <2>2, <2>3 DEF MessageInv, QueuedInv, EntryInv, TruthInv, Justified
<1>16. StatusInv /\ JobsInv
  BY <1>1, <1>4 DEF StatusInv, JobsInv
<1>17. RepliesInv /\ EndsInv
  BY <1>3, <1>4, RangeEmpty DEF RepliesInv, EndsInv
<1>18. TablesInv
  BY <1>4, RangeEmpty DEF TablesInv, IsInjective
<1>. QED
  BY <1>7, <1>12, <1>13, <1>14, <1>15, <1>16, <1>17, <1>18 DEF IInv

LEMMA Unchanged ==
  ASSUME IInv, UNCHANGED vars
  PROVE  IInv'
<1>1. /\ dbVars' = dbVars /\ calls' = calls /\ results' = results /\ dispatchVars' = dispatchVars
      /\ entryVars' = entryVars /\ flagVars' = flagVars /\ linkVars' = linkVars
      /\ engineVars' = engineVars /\ serverVars' = serverVars /\ faults' = faults
  BY DEF vars
<1>2. /\ TypeOK /\ FaultsOK /\ QuietInv /\ JobsInv /\ RepliesInv /\ EndsInv /\ TablesInv
  BY DEF IInv
<1>3. FaultsOK' /\ faults'.kinds = faults.kinds
  BY <1>1, <1>2, FaultsSame
<1>4. /\ ClientSame /\ LinkTypeOK' /\ EngineTypeOK' /\ ServerTypeOK'
  BY <1>1, <1>2 DEF ClientSame, TypeOK, EngineTypeOK, LinkTypeOK, ServerTypeOK, engineVars,
                    linkVars, serverVars
<1>5. /\ stored' = stored /\ refused' = refused /\ source' = source /\ published' = published
      /\ events' = events /\ jobs' = jobs /\ finished' = finished /\ s2c' = s2c /\ c2s' = c2s
  BY <1>1 DEF engineVars, linkVars, serverVars
<1>6. TablesInv' /\ RepliesInv'
  BY <1>2, <1>5 DEF TablesInv, IsInjective, RepliesInv
<1>7. \A n : (GivenUp(n))' <=> GivenUp(n)
  BY <1>3, <1>5 DEF GivenUp, Doomed
<1>8. EndsInv'
  BY <1>2, <1>5, <1>7 DEF EndsInv
<1>9. restored \/ (c2s' = <<>> /\ s2c' = <<>> /\ finished' = <<>> /\ jobs' = {})
  BY <1>2, <1>5 DEF QuietInv
<1>10. \A n \in jobs' \cup (published' \cap Resources) : Advanced(n)
  BY <1>2, <1>5 DEF JobsInv
<1>11. stored \subseteq stored' /\ published \subseteq published'
  BY <1>5
<1>. QED
  BY <1>3, <1>4, <1>6, <1>7, <1>8, <1>9, <1>10, <1>11, ServerKept

LEMMA DispatcherStep ==
  ASSUME IInv, Dispatcher
  PROVE  IInv'
  BY SlotStartStep, SlotScanTimeoutStep, RetryDueStep, RestoreDueStep, MsgRspStep,
     SlotTransferFinishedStep, SlotResourceLoginSuccessStep, SlotDbOpenedStep,
     SlotSendEnqueuedStep, SlotOutboxLoadedStep, SlotMessageLoadedStep,
     SlotSettledStep, SlotStageUpdatedStep DEF Dispatcher

LEMMA FailureStep ==
  ASSUME IInv, Failure
  PROVE  IInv'
  BY SlotResourceLoginFailedStep, StoreFailsStep, LoseSourceStep,
     SlotConnectionClosedStep, ResourceCutStep, ReloginStep, CrashStep DEF Failure

LEMMA NextStep ==
  ASSUME IInv, [Next]_vars
  PROVE  IInv'
<1>1. CASE OpenUserDb
  BY <1>1, OpenUserDbStep
<1>2. CASE \E m \in Messages : Send(m)
  BY <1>2, SendStep
<1>3. CASE Dispatcher
  BY <1>3, DispatcherStep
<1>4. CASE StoreWorker
  BY <1>4, StoreWorkerStep
<1>5. CASE DealMessage
  BY <1>5, DealMessageStep
<1>6. CASE Engine
  BY <1>6, PublishStep, UploadFinishesStep DEF Engine
<1>7. CASE Failure
  BY <1>7, FailureStep
<1>8. CASE UNCHANGED vars
  BY <1>8, Unchanged
<1>. QED
  BY <1>1, <1>2, <1>3, <1>4, <1>5, <1>6, <1>7, <1>8 DEF Next

(* The rows of the client, its registry, the calls and results under way   *)
(* and the tables of the server agree at every step, whatever is lost,     *)
(* repeated or broken off.                                                 *)
THEOREM Invariance == Spec => []IInv
<1>1. Init => IInv
  BY Initially
<1>2. IInv /\ [Next]_vars => IInv'
  BY NextStep
<1>. QED
  BY <1>1, <1>2, PTL DEF Spec

(* A message that the sender sees as sent has been published, and one that *)
(* the sender sees as failed has not been, unless the engine gives up an   *)
(* upload by itself: markSendFailed is only called for a message that the  *)
(* server has refused or whose file is gone.                               *)
THEOREM StatusAlwaysTrue == Spec => []StatusIsTrue
<1>1. IInv => StatusIsTrue
  BY DEF IInv, StatusInv, StatusIsTrue, GivenUp, Doomed
<1>. QED
  BY <1>1, Invariance, PTL

(* However often a request is repeated, the receiver gets one event for a  *)
(* message: AddChatMsg stores a client_message_id once, and an upload is   *)
(* published once.                                                         *)
THEOREM AlwaysPublishedOnce == Spec => []PublishedOnce
<1>1. IInv => PublishedOnce
  BY DEF IInv, TablesInv, PublishedOnce
<1>. QED
  BY <1>1, Invariance, PTL

=============================================================================
