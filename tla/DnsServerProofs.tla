---------------------------- MODULE DnsServerProofs ----------------------------
(***************************************************************************)
(* What is proved of DnsServer, for any number of clients, upstreams, keys *)
(* and requests, any capacity and any replies: permits are neither lost    *)
(* nor made, no client gets what was meant for another, a reply that was   *)
(* cut for a datagram is never what a connection is answered with, nobody  *)
(* gets an answer that has expired, and the cache's entries and their      *)
(* order stay the same answers.                                            *)
(***************************************************************************)
EXTENDS DnsServer, FiniteSetTheorems, WellFoundedInduction, TLAPS

PCs == {"idle", "read", "handle", "udp", "tcp", "write", "done"}

TaskType ==
  [pc : PCs, request : Requests \cup {None}, upstream : 0 .. Upstreams,
   served : 0 .. QUERIES - 1, answer : Answer \cup {None}]

ActiveSet == {c \in Clients : Active(c)}

PermitInv == permits \in Nat /\ IsFiniteSet(ActiveSet) /\ PermitsReturned

\* An answer kept for a while was kept while every record lived, and says what is left.
Alive(a) ==
  LET age == a.taken - a.born
  IN  age > 0 =>
        /\ \A t \in Ttls(a.given) \cup {s.minimum : s \in a.given.soa} : age < t
        /\ a.given.answers = {} => a.given.soa # {}
        /\ a.reply.answers = IF a.truncated THEN {} ELSE {t - age : t \in a.given.answers}

\* An answer to the request r that an upstream or the cache has given, or was made here.
Fits(a, r) ==
  /\ a \in Answer
  /\ a.code = "relayed" =>
       /\ a.reply \in Reply /\ a.given \in Reply
       /\ a.key = r.key /\ a.plain = r.plain
       /\ (a.plain = FALSE \/ a.given.plain = FALSE) => a.born = a.taken
       /\ Alive(a)

Whole(a) ==
  a.code = "relayed" => a.truncated = FALSE /\ (a.given.answers = {} <=> a.reply.answers = {})

\* A life no longer than that of any record of an upstream's reply.
Lives(r, ttl) ==
  /\ ttl \in 1 .. RETENTION
  /\ \A t \in Ttls(r) \cup {s.minimum : s \in r.soa} : ttl <= t
  /\ r.answers = {} => r.soa # {}

\* What is in the cache could be given to any client that asks for its key, as long as it
\* lives.
CachedOK(k, e) ==
  /\ e.inserted \in Nat
  /\ e.answer \in Answer
  /\ e.answer.code = "relayed" /\ e.answer.key = k
  /\ e.answer.reply \in Reply /\ e.answer.given \in Reply
  /\ e.answer.plain = TRUE /\ e.answer.given.plain = TRUE
  /\ Whole(e.answer)
  /\ Lives(e.answer.given, e.ttl) /\ e.answer.born = e.inserted
  /\ e.answer.reply.answers = e.answer.given.answers

CacheInv ==
  \A k \in DOMAIN cache.entries : k \in Keys /\ CachedOK(k, cache.entries[k])

TaskOK(c) ==
  /\ task[c].pc \in {"handle", "udp", "tcp", "write"} => task[c].request \in Requests
  /\ task[c].pc = "write" =>
       /\ Fits(task[c].answer, task[c].request)
       /\ c \in Connections => Whole(task[c].answer)

TaskInv == task \in [Clients -> TaskType] /\ \A c \in Clients : TaskOK(c)

ServerInv == now \in Nat /\ TaskInv /\ CacheInv /\ PermitInv
-----------------------------------------------------------------------------
(* Only one task changes in a step. *)
Changes(c) ==
  task' \in [Clients -> TaskType] /\ \A d \in Clients \ {c} : task'[d] = task[d]

LEMMA Numbers ==
  /\ Upstreams \in Nat /\ Upstreams > 0 /\ QUERIES \in Nat /\ QUERIES > 0
  /\ MAX_IN_FLIGHT \in Nat /\ MAX_IN_FLIGHT > 0 /\ MaxTime \in Nat
BY ServerAssumption

LEMMA NoTaskType ==
  ASSUME NEW pc \in PCs
  PROVE  [NoTask EXCEPT !.pc = pc] \in TaskType /\ [NoTask EXCEPT !.pc = pc].pc = pc
BY Numbers DEF NoTask, TaskType

LEMMA ServerInit ==
  ASSUME Init
  PROVE  ServerInv
<1>1. task = [c \in Clients |-> NoTask] /\ now = 0 /\ permits = MAX_IN_FLIGHT BY DEF Init
<1>2. NoTask \in TaskType BY Numbers DEF NoTask, TaskType, PCs
<1>3. \A c \in Clients : task[c].pc = "idle" BY <1>1 DEF NoTask
<1>4. TaskInv BY <1>1, <1>2, <1>3 DEF TaskInv, TaskOK
<1>5. CacheInv BY DEF Init, EmptyCache, CacheInv
<1>6. ActiveSet = {} BY <1>3 DEF ActiveSet, Active
<1>7. PermitInv
  <2>1. IsFiniteSet(ActiveSet) /\ Cardinality(ActiveSet) = 0 BY <1>6, FS_EmptySet
  <2> QED BY <1>1, <2>1, Numbers DEF PermitInv, PermitsReturned, ActiveSet
<1> QED BY <1>1, <1>4, <1>5, <1>7 DEF ServerInv

(* A task is as it was but for the step of one. *)
LEMMA OthersOK ==
  ASSUME ServerInv, NEW c \in Clients, Changes(c), TaskOK(c)'
  PROVE  TaskInv'
<1>1. ASSUME NEW d \in Clients, d # c PROVE TaskOK(d)'
  <2>1. task'[d] = task[d] BY <1>1 DEF Changes
  <2>2. TaskOK(d) BY DEF ServerInv, TaskInv
  <2> QED BY <2>1, <2>2 DEF TaskOK
<1> QED BY <1>1 DEF Changes, TaskInv

-----------------------------------------------------------------------------
(* Permits. *)
LEMMA ActiveAfter ==
  ASSUME NEW c \in Clients, Changes(c)
  PROVE  ActiveSet' = IF Active(c)' THEN ActiveSet \cup {c} ELSE ActiveSet \ {c}
<1>1. \A d \in Clients \ {c} : Active(d)' <=> Active(d) BY DEF Changes, Active
<1> QED BY <1>1 DEF ActiveSet

LEMMA PermitHeld ==
  ASSUME PermitInv, NEW c \in Clients, Changes(c), Active(c), Active(c)', permits' = permits
  PROVE  PermitInv'
<1>1. ActiveSet' = ActiveSet BY ActiveAfter DEF ActiveSet
<1> QED BY <1>1 DEF PermitInv, PermitsReturned, ActiveSet

LEMMA PermitUnneeded ==
  ASSUME PermitInv, NEW c \in Clients, Changes(c), ~Active(c), ~Active(c)', permits' = permits
  PROVE  PermitInv'
<1>1. ActiveSet' = ActiveSet BY ActiveAfter DEF ActiveSet
<1> QED BY <1>1 DEF PermitInv, PermitsReturned, ActiveSet

LEMMA PermitDropped ==
  ASSUME PermitInv, NEW c \in Clients, Changes(c), Active(c), ~Active(c)', permits' = permits + 1
  PROVE  PermitInv'
<1>1. ActiveSet' = ActiveSet \ {c} /\ c \in ActiveSet BY ActiveAfter DEF ActiveSet
<1>2. IsFiniteSet(ActiveSet') /\ Cardinality(ActiveSet') = Cardinality(ActiveSet) - 1
  BY <1>1, FS_RemoveElement DEF PermitInv
<1>3. Cardinality(ActiveSet) \in Nat BY FS_CardinalityType DEF PermitInv
<1>4. permits \in Nat /\ permits + Cardinality(ActiveSet) = MAX_IN_FLIGHT
  BY DEF PermitInv, PermitsReturned, ActiveSet
<1>5. permits' + Cardinality(ActiveSet') = MAX_IN_FLIGHT BY <1>2, <1>3, <1>4
<1> QED BY <1>2, <1>4, <1>5 DEF PermitInv, PermitsReturned, ActiveSet

LEMMA PermitTaken ==
  ASSUME PermitInv, NEW c \in Clients, Changes(c), ~Active(c), Active(c)',
         permits > 0, permits' = permits - 1
  PROVE  PermitInv'
<1>1. ActiveSet' = ActiveSet \cup {c} /\ c \notin ActiveSet BY ActiveAfter DEF ActiveSet
<1>2. IsFiniteSet(ActiveSet') /\ Cardinality(ActiveSet') = Cardinality(ActiveSet) + 1
  BY <1>1, FS_AddElement DEF PermitInv
<1>3. Cardinality(ActiveSet) \in Nat BY FS_CardinalityType DEF PermitInv
<1>4. permits \in Nat /\ permits + Cardinality(ActiveSet) = MAX_IN_FLIGHT
  BY DEF PermitInv, PermitsReturned, ActiveSet
<1>5. permits' + Cardinality(ActiveSet') = MAX_IN_FLIGHT BY <1>2, <1>3, <1>4
<1> QED BY <1>2, <1>4, <1>5 DEF PermitInv, PermitsReturned, ActiveSet

-----------------------------------------------------------------------------
(* Ways out of a task, and the accept loop. *)
LEMMA EndKeeps ==
  ASSUME ServerInv, NEW c \in Clients, Active(c), End(c), UNCHANGED <<cache, now>>
  PROVE  ServerInv'
<1>1. task \in [Clients -> TaskType] BY DEF ServerInv, TaskInv
<1>2. "done" \in PCs BY DEF PCs
<1>3. task' = [task EXCEPT ![c] = [NoTask EXCEPT !.pc = "done"]] BY DEF End
<1>4. Changes(c) /\ task'[c].pc = "done" BY <1>1, <1>2, <1>3, NoTaskType DEF Changes
<1>5. TaskInv' BY <1>4, OthersOK DEF TaskOK
<1>6. PermitInv'
  <2>1. ~Active(c)' BY <1>4 DEF Active
  <2> QED BY <1>4, <2>1, PermitDropped DEF End, ServerInv
<1> QED BY <1>5, <1>6 DEF ServerInv, CacheInv

LEMMA ReceiveKeeps ==
  ASSUME ServerInv, NEW c \in Clients, Receive(c)
  PROVE  ServerInv'
<1>1. task \in [Clients -> TaskType] /\ ~Active(c) BY DEF Receive, At, Active, ServerInv, TaskInv
<1>2. now' = now /\ cache' = cache BY DEF Receive
<1>3. CASE permits > 0 /\ permits' = permits - 1
           /\ \E r \in Requests :
                task' = [task EXCEPT ![c] = [NoTask EXCEPT !.pc = "handle", !.request = r]]
  <2>1. PICK r \in Requests :
          task' = [task EXCEPT ![c] = [NoTask EXCEPT !.pc = "handle", !.request = r]]
    BY <1>3
  <2>2. [NoTask EXCEPT !.pc = "handle", !.request = r] \in TaskType
    <3>1. NoTask \in TaskType BY Numbers DEF NoTask, TaskType, PCs
    <3>2. "handle" \in PCs BY DEF PCs
    <3> QED BY <3>1, <3>2 DEF TaskType
  <2>3. Changes(c) BY <1>1, <2>1, <2>2 DEF Changes
  <2>4. task'[c].pc = "handle" /\ task'[c].request = r BY <1>1, <2>1 DEF NoTask
  <2>5. TaskInv' BY <2>3, <2>4, OthersOK DEF TaskOK
  <2>6. Active(c)' BY <2>4 DEF Active
  <2>7. PermitInv' BY <1>1, <1>3, <2>3, <2>6, PermitTaken DEF ServerInv
  <2> QED BY <1>2, <2>5, <2>7 DEF ServerInv, CacheInv
<1>4. CASE Goes(c, "done") /\ permits' = permits
  <2>1. Changes(c) /\ task'[c].pc = "done" BY <1>1, <1>4 DEF Goes, Changes, TaskType, PCs
  <2>2. TaskInv' BY <2>1, OthersOK DEF TaskOK
  <2>3. ~Active(c)' BY <2>1 DEF Active
  <2>4. PermitInv' BY <1>1, <1>4, <2>1, <2>3, PermitUnneeded DEF ServerInv
  <2> QED BY <1>2, <2>2, <2>4 DEF ServerInv, CacheInv
<1> QED BY <1>3, <1>4 DEF Receive

LEMMA AcceptKeeps ==
  ASSUME ServerInv, NEW c \in Clients, Accept(c)
  PROVE  ServerInv'
<1>1. task \in [Clients -> TaskType] /\ ~Active(c) BY DEF Accept, At, Active, ServerInv, TaskInv
<1>2. now' = now /\ cache' = cache BY DEF Accept
<1>3. CASE permits > 0 /\ Goes(c, "read") /\ permits' = permits - 1
  <2>1. Changes(c) /\ task'[c].pc = "read" BY <1>1, <1>3 DEF Goes, Changes, TaskType, PCs
  <2>2. TaskInv' BY <2>1, OthersOK DEF TaskOK
  <2>3. Active(c)' BY <2>1 DEF Active
  <2>4. PermitInv' BY <1>1, <1>3, <2>1, <2>3, PermitTaken DEF ServerInv
  <2> QED BY <1>2, <2>2, <2>4 DEF ServerInv, CacheInv
<1>4. CASE Goes(c, "done") /\ permits' = permits
  <2>1. Changes(c) /\ task'[c].pc = "done" BY <1>1, <1>4 DEF Goes, Changes, TaskType, PCs
  <2>2. TaskInv' BY <2>1, OthersOK DEF TaskOK
  <2>3. ~Active(c)' BY <2>1 DEF Active
  <2>4. PermitInv' BY <1>1, <1>4, <2>1, <2>3, PermitUnneeded DEF ServerInv
  <2> QED BY <1>2, <2>2, <2>4 DEF ServerInv, CacheInv
<1> QED BY <1>3, <1>4 DEF Accept

-----------------------------------------------------------------------------
(* Replies and answers. *)
LEMMA AgedReply ==
  ASSUME NEW r \in Reply, NEW age \in Int
  PROVE  /\ Aged(r, age) \in Reply /\ (Aged(r, age).answers = {} <=> r.answers = {})
         /\ (\A t \in r.answers : age < t) => Aged(r, age).answers = {t - age : t \in r.answers}
<1>1. \A t \in Nat : Later(t, age) \in Nat BY DEF Later
<1>2. r.answers \subseteq Nat /\ r.others \subseteq Nat /\ r.soa \subseteq SOA BY DEF Reply
<1>3. {Later(t, age) : t \in r.answers} \subseteq Nat BY <1>1, <1>2
<1>4. {Later(t, age) : t \in r.others} \subseteq Nat BY <1>1, <1>2
<1>5. {[s EXCEPT !.ttl = Later(@, age)] : s \in r.soa} \subseteq SOA
  <2>1. ASSUME NEW s \in SOA PROVE [s EXCEPT !.ttl = Later(@, age)] \in SOA BY <1>1 DEF SOA
  <2> QED BY <1>2, <2>1
<1>6. {Later(t, age) : t \in r.answers} = {} <=> r.answers = {} OBVIOUS
<1>7. ASSUME \A t \in r.answers : age < t
      PROVE  {Later(t, age) : t \in r.answers} = {t - age : t \in r.answers}
  <2>1. \A t \in r.answers : Later(t, age) = t - age BY <1>2, <1>7 DEF Later
  <2> QED BY <2>1
<1>8. Aged(r, age).answers = {Later(t, age) : t \in r.answers} BY DEF Aged, Reply
<1>9. Aged(r, age) \in Reply BY <1>3, <1>4, <1>5 DEF Aged, Reply
<1> QED BY <1>6, <1>7, <1>8, <1>9

LEMMA Least ==
  ASSUME NEW X \in SUBSET Nat, X # {}
  PROVE  Min(X) \in X /\ \A y \in X : Min(X) <= y
<1> DEFINE R == OpToRel(<, Nat)
<1>1. \A x, y \in Nat : x < y => <<x, y>> \in R BY DEF OpToRel
<1>2. IsWellFoundedOn(R, Nat) BY NatLessThanWellFounded
<1> HIDE DEF R
<1>3. PICK x \in X : \A y \in X : ~(<<y, x>> \in R) BY <1>2, WFMin
<1>4. \A y \in X : ~(y < x) BY <1>1, <1>3
<1>5. \A y \in X : x <= y BY <1>4
<1>6. \E z \in X : \A y \in X : z <= y BY <1>5
<1> QED BY <1>6 DEF Min

\* What may be kept lives no longer than its records, nor than the minimum of its SOA.
LEMMA LifetimeFacts ==
  ASSUME NEW r \in Reply, Lifetime(r) # 0
  PROVE  Lives(r, Lesser(Lifetime(r), RETENTION))
<1> DEFINE X == Ttls(r) \cup {Negative(s) : s \in r.soa}
           n == Lifetime(r)
<1>1. r.answers \subseteq Nat /\ r.others \subseteq Nat /\ r.soa \subseteq SOA BY DEF Reply
<1>2. \A s \in SOA : s.ttl \in Nat /\ s.minimum \in Nat /\ Negative(s) \in Nat /\ Negative(s) <= s.minimum
  BY DEF SOA, Negative, Lesser
<1>3. X \in SUBSET Nat BY <1>1, <1>2 DEF Ttls
<1>4. (r.answers # {} \/ r.soa # {}) /\ n = Min(X) BY DEF Lifetime
<1>5. X # {} BY <1>4 DEF Ttls
<1>6. \A s \in r.soa : Negative(s) \in X OBVIOUS
<1>7. Ttls(r) \subseteq X OBVIOUS
<1> HIDE DEF X, n
<1>8. n \in Nat /\ \A y \in X : n <= y BY <1>3, <1>4, <1>5, Least
<1>9. RETENTION \in Nat /\ RETENTION > 0 /\ n # 0 BY CacheAssumption DEF n
<1> DEFINE ttl == Lesser(n, RETENTION)
<1>10. ttl \in 1 .. RETENTION /\ ttl <= n BY <1>8, <1>9 DEF Lesser
<1> HIDE DEF ttl
<1>11. ASSUME NEW y \in Nat, n <= y PROVE ttl <= y
  <2>1. ttl \in Nat BY <1>9, <1>10
  <2> QED BY <1>8, <1>10, <1>11, <2>1
<1>12. \A s \in r.soa : ttl <= s.minimum
  <2> SUFFICES ASSUME NEW s \in r.soa PROVE ttl <= s.minimum OBVIOUS
  <2>1. s \in SOA BY <1>1
  <2>2. n <= Negative(s) BY <1>6, <1>8
  <2>3. n <= s.minimum BY <1>2, <1>8, <2>1, <2>2
  <2> QED BY <1>2, <1>11, <2>1, <2>3
<1>a. \A t \in Ttls(r) : t \in Nat /\ n <= t BY <1>3, <1>7, <1>8
<1>b. \A t \in Ttls(r) : ttl <= t BY <1>11, <1>a
<1>13. \A t \in {s.minimum : s \in r.soa} : ttl <= t BY <1>12
<1>c. \A t \in Ttls(r) \cup {s.minimum : s \in r.soa} : ttl <= t BY <1>b, <1>13
<1> QED BY <1>4, <1>10, <1>c DEF Lives, ttl, n

LEMMA StoredReply ==
  ASSUME NEW r \in Reply
  PROVE  Stored(r) \in Reply /\ Stored(r).answers = r.answers
<1>1. ASSUME NEW s \in SOA PROVE [s EXCEPT !.ttl = Negative(s)] \in SOA
  BY DEF SOA, Negative, Lesser
<1>2. {[s EXCEPT !.ttl = Negative(s)] : s \in r.soa} \subseteq SOA BY <1>1 DEF Reply
<1> QED BY <1>2 DEF Stored, Reply

LEMMA LocalFits ==
  ASSUME NEW c \in Clients, task[c].request \in Requests,
         NEW code \in {"refused", "NXDomain", "ServFail"}
  PROVE  Fits(Local(c, code), task[c].request) /\ Whole(Local(c, code))
<1>1. task[c].request \in Request BY ServerAssumption
<1>2. task[c].request.key \in Keys /\ task[c].request.plain \in BOOLEAN BY <1>1 DEF Request
<1>3. Local(c, code) \in Answer BY <1>2 DEF Local, Answer
<1>4. Local(c, code).code # "relayed" BY DEF Local
<1> QED BY <1>3, <1>4 DEF Fits, Whole

LEMMA UpstreamFits ==
  ASSUME NEW c \in Clients, task[c].request \in Requests, NEW r \in Replies, now \in Nat
  PROVE  /\ Fits(Upstream(c, r), task[c].request) /\ Whole(Upstream(c, r))
         /\ Upstream(c, r).code = "relayed"
         /\ Upstream(c, r).reply = r /\ Upstream(c, r).given = r /\ Upstream(c, r).born = now
<1>1. task[c].request \in Request /\ r \in Reply BY ServerAssumption
<1>2. task[c].request.key \in Keys /\ task[c].request.plain \in BOOLEAN BY <1>1 DEF Request
<1> DEFINE made == Local(c, "relayed")
<1>3. /\ made \in Answer /\ made.key = task[c].request.key /\ made.plain = task[c].request.plain
      /\ made.code = "relayed" /\ made.truncated = FALSE
  BY <1>2 DEF Local, Answer
<1>4. Upstream(c, r) = [made EXCEPT !.reply = r, !.given = r, !.born = now, !.taken = now]
  BY DEF Upstream
<1> HIDE DEF made
<1>5. Upstream(c, r) \in Answer BY <1>1, <1>3, <1>4 DEF Answer
<1>6. /\ Upstream(c, r).key = made.key /\ Upstream(c, r).plain = made.plain
      /\ Upstream(c, r).code = made.code /\ Upstream(c, r).truncated = made.truncated
      /\ Upstream(c, r).reply = r /\ Upstream(c, r).given = r
      /\ Upstream(c, r).born = now /\ Upstream(c, r).taken = now
  BY <1>3, <1>4 DEF Answer
<1>7. Alive(Upstream(c, r))
  <2>1. ~(now - now > 0) OBVIOUS
  <2> QED BY <1>6, <2>1 DEF Alive
<1> QED BY <1>1, <1>3, <1>5, <1>6, <1>7 DEF Fits, Whole

\* What is cut is cut for a datagram, and keeps what it says about itself.
LEMMA EncodeFits ==
  ASSUME NEW c \in Clients, NEW r, NEW a, Fits(a, r), Whole(a)
  PROVE  Fits(encode(c, a), r) /\ (c \in Connections => Whole(encode(c, a)))
<1>1. CASE c \in Datagrams /\ a.reply # None /\ a.reply.size # "small"
  <2> DEFINE cut == [a.reply EXCEPT !.answers = {}, !.others = {}, !.soa = {}]
  <2>1. a \in Answer /\ a.reply \in Reply BY <1>1 DEF Fits, Answer
  <2>2. cut \in Reply BY <2>1 DEF Reply
  <2>3. encode(c, a) = [a EXCEPT !.truncated = TRUE, !.reply = cut] BY <1>1 DEF encode
  <2>4. encode(c, a) \in Answer BY <2>1, <2>2, <2>3 DEF Answer
  <2>5. /\ encode(c, a).reply = cut /\ encode(c, a).code = a.code
        /\ encode(c, a).given = a.given /\ encode(c, a).key = a.key
        /\ encode(c, a).plain = a.plain /\ encode(c, a).born = a.born
        /\ encode(c, a).taken = a.taken
    BY <2>1, <2>3 DEF Answer
  <2>6. c \notin Connections BY <1>1, ServerAssumption
  <2>7. encode(c, a).truncated = TRUE /\ cut.answers = {} BY <2>1, <2>3 DEF Answer, Reply
  <2> HIDE DEF cut
  <2>8. a.code = "relayed" => Alive(encode(c, a))
    BY <2>5, <2>7 DEF Fits, Alive
  <2> QED BY <2>2, <2>4, <2>5, <2>6, <2>8 DEF Fits
<1>2. CASE ~(c \in Datagrams /\ a.reply # None /\ a.reply.size # "small")
  BY <1>2 DEF encode
<1> QED BY <1>1, <1>2

LEMMA AnswersKeeps ==
  ASSUME ServerInv, NEW c \in Clients, task[c].pc \in {"handle", "udp", "tcp"}, NEW a,
         Fits(a, task[c].request), Whole(a), Answers(c, a)
  PROVE  TaskInv' /\ Changes(c) /\ Active(c) /\ Active(c)'
<1>1. task \in [Clients -> TaskType] /\ task[c].request \in Requests
  BY DEF ServerInv, TaskInv, TaskOK
<1> DEFINE given == encode(c, a)
<1>2. Fits(given, task[c].request) /\ (c \in Connections => Whole(given)) BY EncodeFits
<1>3. given \in Answer BY <1>2 DEF Fits
<1>4. task' = [task EXCEPT ![c].pc = "write", ![c].answer = given] BY DEF Answers
<1> HIDE DEF given
<1>5. [task[c] EXCEPT !.pc = "write", !.answer = given] \in TaskType
  BY <1>1, <1>3 DEF TaskType, PCs
<1>6. Changes(c) BY <1>1, <1>4, <1>5 DEF Changes
<1>7. task'[c].pc = "write" /\ task'[c].answer = given /\ task'[c].request = task[c].request
  BY <1>1, <1>4 DEF TaskType
<1>8. TaskInv' BY <1>1, <1>2, <1>6, <1>7, OthersOK DEF TaskOK
<1> QED BY <1>6, <1>7, <1>8 DEF Active

-----------------------------------------------------------------------------
(* The cache. *)
LEMMA GetKeeps ==
  ASSUME CacheInv, NEW key
  PROVE  \A k \in DOMAIN AfterGet(cache, key, now).entries :
           /\ k \in DOMAIN cache.entries
           /\ AfterGet(cache, key, now).entries[k] = cache.entries[k]
<1>1. CASE key \in DOMAIN cache.entries /\ Expired(cache.entries[key], now)
  <2>1. AfterGet(cache, key, now).entries = Only(cache.entries, DOMAIN cache.entries \ {key})
    BY <1>1 DEF AfterGet, Dropped, Without
  <2> QED BY <2>1 DEF Only
<1>2. CASE ~(key \in DOMAIN cache.entries /\ Expired(cache.entries[key], now))
  BY <1>2 DEF AfterGet
<1> QED BY <1>1, <1>2

LEMMA InsertKeeps ==
  ASSUME CacheInv, NEW key \in Keys, NEW a, a.reply \in Reply, now \in Nat,
         Lifetime(a.reply) # 0 =>
           CachedOK(key, [answer |-> [a EXCEPT !.reply = Stored(@)], inserted |-> now,
                          ttl |-> Lesser(Lifetime(a.reply), RETENTION)]),
         cache' = AfterInsert(cache, key, a, now)
  PROVE  CacheInv'
<1> DEFINE entry == [answer |-> [a EXCEPT !.reply = Stored(@)], inserted |-> now,
                     ttl |-> Lesser(Lifetime(a.reply), RETENTION)]
           room == Shrunk(cache, key)
           entries == [k \in DOMAIN room.entries \cup {key} |->
                         IF k = key THEN entry ELSE room.entries[k]]
<1>1. CASE cache' = cache BY <1>1 DEF CacheInv
<1>2. CASE /\ cache' = [entries |-> entries, order |-> Append(room.order, key)]
           /\ Lifetime(a.reply) # 0
  <2>1. \A k \in DOMAIN room.entries :
          k \in DOMAIN cache.entries /\ room.entries[k] = cache.entries[k]
    BY DEF Shrunk, Only
  <2>2. CachedOK(key, entry) BY <1>2
  <2> HIDE DEF entry, room
  <2>3. cache'.entries = entries BY <1>2
  <2>4. ASSUME NEW k \in DOMAIN entries PROVE k \in Keys /\ CachedOK(k, entries[k])
    <3>1. CASE k = key
      <4>1. entries[k] = entry BY <3>1
      <4> QED BY <2>2, <3>1, <4>1
    <3>2. CASE k # key
      <4>1. k \in DOMAIN room.entries /\ entries[k] = room.entries[k] BY <3>2
      <4> QED BY <2>1, <4>1 DEF CacheInv
    <3> QED BY <3>1, <3>2
  <2> HIDE DEF entries
  <2> QED BY <2>3, <2>4 DEF CacheInv
<1>3. \/ cache' = cache
      \/ /\ cache' = [entries |-> entries, order |-> Append(room.order, key)]
         /\ Lifetime(a.reply) # 0
  BY DEF AfterInsert
<1> QED BY <1>1, <1>2, <1>3

LEMMA GotFits ==
  ASSUME CacheInv, now \in Nat, NEW r \in Requests, r.plain, Found(cache, r.key, now)
  PROVE  LET a == [Got(cache, r.key, now) EXCEPT !.taken = now] IN Fits(a, r) /\ Whole(a)
<1> DEFINE e == cache.entries[r.key]
           kept == e.answer
           aged == Aged(kept.reply, now - e.inserted)
           got == Got(cache, r.key, now)
           a == [got EXCEPT !.taken = now]
           age == now - e.inserted
<1>1. CachedOK(r.key, e) /\ ~(age >= e.ttl) BY DEF CacheInv, Found, Expired
<1>2. got = [kept EXCEPT !.reply = aged] BY DEF Got
<1>3. r.plain = TRUE BY ServerAssumption DEF Request
<1>4. /\ kept \in Answer /\ kept.code = "relayed" /\ kept.key = r.key /\ kept.plain = TRUE
      /\ kept.reply \in Reply /\ kept.given \in Reply /\ kept.given.plain = TRUE
      /\ kept.truncated = FALSE /\ (kept.given.answers = {} <=> kept.reply.answers = {})
      /\ e.inserted \in Nat /\ kept.born = e.inserted
      /\ kept.reply.answers = kept.given.answers
      /\ kept.given.answers = {} => kept.given.soa # {}
  BY <1>1 DEF CachedOK, Whole, Lives
<1>e. e.ttl \in Nat
  <2>1. e.ttl \in 1 .. RETENTION BY <1>1 DEF CachedOK, Lives
  <2> HIDE DEF e
  <2> QED BY <2>1
<1>a. \A t \in Ttls(kept.given) \cup {s.minimum : s \in kept.given.soa} : age < t
  <2> DEFINE X == Ttls(kept.given) \cup {s.minimum : s \in kept.given.soa}
  <2>1. X \subseteq Nat
    <3>1. kept.given \in Reply BY <1>4
    <3> HIDE DEF kept
    <3> QED BY <3>1 DEF Ttls, Reply, SOA
  <2>2. \A t \in X : e.ttl <= t BY <1>1 DEF CachedOK, Lives
  <2> HIDE DEF X, e
  <2>3. \A t \in X : age < t BY <1>1, <1>4, <1>e, <2>1, <2>2
  <2> QED BY <2>3 DEF X
<1>b. \A t \in kept.given.answers : age < t BY <1>a DEF Ttls
<1>5. /\ aged \in Reply /\ (aged.answers = {} <=> kept.reply.answers = {})
      /\ aged.answers = {t - age : t \in kept.given.answers}
  <2> HIDE DEF e, kept
  <2>1. now - e.inserted \in Int BY <1>4
  <2>2. \A t \in kept.reply.answers : age < t BY <1>4, <1>b
  <2>3. /\ aged \in Reply /\ (aged.answers = {} <=> kept.reply.answers = {})
        /\ aged.answers = {t - age : t \in kept.reply.answers}
    BY <1>4, <2>1, <2>2, AgedReply
  <2> HIDE DEF aged, age
  <2> QED BY <1>4, <2>3
<1> HIDE DEF e, kept, aged, got
<1>6. got \in Answer BY <1>2, <1>4, <1>5 DEF Answer
<1>7. /\ got.reply = aged /\ got.code = kept.code /\ got.key = kept.key
      /\ got.plain = kept.plain /\ got.given = kept.given /\ got.truncated = kept.truncated
  BY <1>2, <1>4 DEF Answer
<1>8. a \in Answer BY <1>6 DEF Answer
<1>9. /\ a.reply = got.reply /\ a.code = got.code /\ a.key = got.key
      /\ a.plain = got.plain /\ a.given = got.given /\ a.truncated = got.truncated
      /\ a.born = got.born /\ a.taken = now
  BY <1>6 DEF Answer
<1>c. got.born = kept.born BY <1>2, <1>4 DEF Answer
<1> HIDE DEF a
<1>d. Alive(a)
  <2>1. /\ a.taken - a.born = age /\ a.given = kept.given /\ a.truncated = FALSE
        /\ a.reply = aged
    BY <1>4, <1>7, <1>9, <1>c
  <2> HIDE DEF age
  <2> QED BY <1>4, <1>5, <1>a, <2>1 DEF Alive
<1>10. Fits(a, r) /\ Whole(a) BY <1>3, <1>4, <1>5, <1>7, <1>8, <1>9, <1>d DEF Fits, Whole
<1> QED BY <1>10 DEF a, got

-----------------------------------------------------------------------------
(* Steps of a task. *)
LEMMA AnsweredKeeps ==
  ASSUME ServerInv, NEW c \in Clients, task[c].pc \in {"handle", "udp", "tcp"}, NEW a,
         Fits(a, task[c].request), Whole(a), Answers(c, a),
         CacheInv', UNCHANGED <<permits, now>>
  PROVE  ServerInv'
<1>1. TaskInv' /\ Changes(c) /\ Active(c) /\ Active(c)' BY AnswersKeeps
<1>2. PermitInv' BY <1>1, PermitHeld DEF ServerInv
<1> QED BY <1>1, <1>2 DEF ServerInv

\* A task that goes on, with the request it has or a new one.
LEMMA GoesOnKeeps ==
  ASSUME ServerInv, NEW c \in Clients, Active(c), NEW t \in TaskType,
         task' = [task EXCEPT ![c] = t], t.pc \in {"read", "handle", "udp", "tcp"},
         t.pc # "read" => t.request \in Requests,
         CacheInv', UNCHANGED <<permits, now>>
  PROVE  ServerInv'
<1>1. task \in [Clients -> TaskType] BY DEF ServerInv, TaskInv
<1>2. Changes(c) /\ task'[c] = t BY <1>1 DEF Changes
<1>3. TaskInv' BY <1>2, OthersOK DEF TaskOK
<1>4. Active(c)' BY <1>2 DEF Active
<1>5. PermitInv' BY <1>2, <1>4, PermitHeld DEF ServerInv
<1> QED BY <1>3, <1>5 DEF ServerInv

LEMMA CacheSame ==
  ASSUME CacheInv, UNCHANGED cache
  PROVE  CacheInv'
BY DEF CacheInv

LEMMA ReadFrameKeeps ==
  ASSUME ServerInv, NEW c \in Clients, ReadFrame(c)
  PROVE  ServerInv'
<1>1. PICK r \in Requests : task' = [task EXCEPT ![c].pc = "handle", ![c].request = r]
  BY DEF ReadFrame
<1> DEFINE t == [task[c] EXCEPT !.pc = "handle", !.request = r]
<1>2. task[c] \in TaskType /\ Active(c) BY DEF ServerInv, TaskInv, ReadFrame, At, Active
<1>3. t \in TaskType /\ t.pc = "handle" /\ t.request = r BY <1>2 DEF TaskType, PCs
<1>4. task \in [Clients -> TaskType] BY DEF ServerInv, TaskInv
<1>5. task' = [task EXCEPT ![c] = t] BY <1>1, <1>4
<1>6. CacheInv' BY CacheSame DEF ReadFrame, ServerInv
<1> HIDE DEF t
<1> QED BY <1>2, <1>3, <1>5, <1>6, GoesOnKeeps DEF ReadFrame

LEMMA LocalKeeps ==
  ASSUME ServerInv, NEW c \in Clients, task[c].pc \in {"handle", "udp", "tcp"},
         NEW code \in {"refused", "NXDomain", "ServFail"}, Answers(c, Local(c, code)),
         UNCHANGED <<permits, cache, now>>
  PROVE  ServerInv'
<1>1. task[c].request \in Requests BY DEF ServerInv, TaskInv, TaskOK
<1>2. Fits(Local(c, code), task[c].request) /\ Whole(Local(c, code)) BY <1>1, LocalFits
<1>3. CacheInv' BY CacheSame DEF ServerInv
<1> QED BY <1>2, <1>3, AnsweredKeeps

LEMMA CacheHitKeeps ==
  ASSUME ServerInv, NEW c \in Clients, CacheHit(c)
  PROVE  ServerInv'
<1> DEFINE r == task[c].request
           a == [Got(cache, r.key, now) EXCEPT !.taken = now]
<1>1. task[c].pc = "handle" /\ r.plain /\ Found(cache, r.key, now) /\ Answers(c, a)
  BY DEF CacheHit, At, Key
<1>2. r \in Requests BY <1>1 DEF ServerInv, TaskInv, TaskOK
<1>3. CacheInv /\ now \in Nat BY DEF ServerInv
<1>4. Fits(a, r) /\ Whole(a) BY <1>1, <1>2, <1>3, GotFits
<1>5. CacheInv' BY <1>3, CacheSame DEF CacheHit
<1> HIDE DEF a
<1> QED BY <1>1, <1>4, <1>5, AnsweredKeeps DEF CacheHit

LEMMA CacheMissKeeps ==
  ASSUME ServerInv, NEW c \in Clients, CacheMiss(c)
  PROVE  ServerInv'
<1> DEFINE t == [task[c] EXCEPT !.pc = Asking(c), !.upstream = 1]
<1>1. task \in [Clients -> TaskType] /\ task[c].pc = "handle" /\ Active(c)
  BY DEF ServerInv, TaskInv, CacheMiss, At, Active
<1>2. task[c].request \in Requests BY <1>1 DEF ServerInv, TaskInv, TaskOK
<1>3. t \in TaskType
  <2>1. Asking(c) \in PCs /\ 1 \in 0 .. Upstreams BY Numbers DEF Asking, PCs
  <2> QED BY <1>1, <2>1 DEF TaskType
<1>4. t.pc \in {"udp", "tcp"} /\ t.request = task[c].request BY <1>1 DEF TaskType, Asking
<1>5. task' = [task EXCEPT ![c] = t] BY <1>1 DEF CacheMiss
<1>6. CacheInv'
  <2>1. CASE cache' = cache BY <2>1, CacheSame DEF ServerInv
  <2>2. CASE cache' = AfterGet(cache, Key(c), now)
    <3>1. \A k \in DOMAIN cache'.entries :
            k \in DOMAIN cache.entries /\ cache'.entries[k] = cache.entries[k]
      BY <2>2, GetKeeps DEF ServerInv
    <3> QED BY <3>1 DEF ServerInv, CacheInv
  <2> QED BY <2>1, <2>2 DEF CacheMiss
<1> HIDE DEF t
<1> QED BY <1>1, <1>2, <1>3, <1>4, <1>5, <1>6, GoesOnKeeps DEF CacheMiss

LEMMA GivesUpKeeps ==
  ASSUME ServerInv, NEW c \in Clients, task[c].pc \in {"udp", "tcp"}, GivesUp(c),
         UNCHANGED <<permits, cache, now>>
  PROVE  ServerInv'
<1>1. task \in [Clients -> TaskType] /\ Active(c) /\ task[c].request \in Requests
  BY DEF ServerInv, TaskInv, TaskOK, Active
<1>2. CASE /\ task[c].upstream < Upstreams
           /\ task' = [task EXCEPT ![c].pc = Asking(c), ![c].upstream = @ + 1]
  <2> DEFINE t == [task[c] EXCEPT !.pc = Asking(c), !.upstream = task[c].upstream + 1]
  <2>1. task[c].upstream + 1 \in 0 .. Upstreams BY <1>1, <1>2, Numbers DEF TaskType
  <2>2. Asking(c) \in {"udp", "tcp"} BY DEF Asking
  <2>3. t \in TaskType BY <1>1, <2>1, <2>2 DEF TaskType, PCs
  <2>4. t.pc \in {"udp", "tcp"} /\ t.request = task[c].request BY <1>1, <2>2 DEF TaskType
  <2>5. task' = [task EXCEPT ![c] = t] BY <1>1, <1>2
  <2>6. CacheInv' BY CacheSame DEF ServerInv
  <2> HIDE DEF t
  <2> QED BY <1>1, <2>3, <2>4, <2>5, <2>6, GoesOnKeeps
<1>3. CASE Answers(c, Local(c, "ServFail")) BY <1>3, LocalKeeps
<1> QED BY <1>2, <1>3 DEF GivesUp

LEMMA TruncatedKeeps ==
  ASSUME ServerInv, NEW c \in Clients, TruncatedReply(c)
  PROVE  ServerInv'
<1>1. CASE At(c, "udp") /\ Goes(c, "tcp")
  <2> DEFINE t == [task[c] EXCEPT !.pc = "tcp"]
  <2>1. task \in [Clients -> TaskType] /\ Active(c) /\ task[c].request \in Requests
    BY <1>1 DEF ServerInv, TaskInv, TaskOK, Active, At
  <2>2. t \in TaskType /\ t.pc = "tcp" /\ t.request = task[c].request
    BY <2>1 DEF TaskType, PCs
  <2>3. task' = [task EXCEPT ![c] = t] BY <1>1, <2>1 DEF Goes
  <2>4. CacheInv' BY CacheSame DEF ServerInv, TruncatedReply
  <2> HIDE DEF t
  <2> QED BY <2>1, <2>2, <2>3, <2>4, GoesOnKeeps DEF TruncatedReply
<1>2. CASE At(c, "tcp") /\ GivesUp(c) BY <1>2, GivesUpKeeps DEF At, TruncatedReply
<1> QED BY <1>1, <1>2 DEF TruncatedReply

\* What an upstream gave to a plain request, and plainly, may be kept.
LEMMA KeptOK ==
  ASSUME NEW a, NEW ttl, NEW key, a \in Answer, a.code = "relayed", a.key = key,
         a.reply \in Reply, a.given = a.reply, a.plain = TRUE, a.reply.plain = TRUE, Whole(a),
         now \in Nat, a.born = now, Lives(a.reply, ttl)
  PROVE  CachedOK(key, [answer |-> [a EXCEPT !.reply = Stored(@)], inserted |-> now, ttl |-> ttl])
<1> DEFINE kept == [a EXCEPT !.reply = Stored(a.reply)]
           e == [answer |-> kept, inserted |-> now, ttl |-> ttl]
           s == Stored(a.reply)
<1>1. s \in Reply /\ s.answers = a.reply.answers BY StoredReply
<1>2. kept = [a EXCEPT !.reply = s] OBVIOUS
<1>3. [answer |-> [a EXCEPT !.reply = Stored(@)], inserted |-> now, ttl |-> ttl] = e OBVIOUS
<1> HIDE DEF s, kept
<1>4. kept \in Answer BY <1>1, <1>2 DEF Answer
<1>5. /\ kept.reply = s /\ kept.code = a.code /\ kept.key = a.key /\ kept.plain = a.plain
      /\ kept.given = a.given /\ kept.truncated = a.truncated /\ kept.born = a.born
  BY <1>2 DEF Answer
<1>6. e.answer = kept /\ e.inserted = now /\ e.ttl = ttl OBVIOUS
<1> HIDE DEF e
<1>7. CachedOK(key, e) BY <1>1, <1>4, <1>5, <1>6 DEF CachedOK, Whole
<1> QED BY <1>3, <1>7

LEMMA GoodReplyKeeps ==
  ASSUME ServerInv, NEW c \in Clients, GoodReply(c)
  PROVE  ServerInv'
<1>1. PICK r \in Replies : cache' = Kept(c, r) /\ Answers(c, Upstream(c, r))
  BY DEF GoodReply
<1> DEFINE q == task[c].request
           a == Upstream(c, r)
<1>2. task[c].pc \in {"udp", "tcp"} BY DEF GoodReply
<1>3. q \in Requests /\ q \in Request /\ r \in Reply /\ now \in Nat
  BY <1>2, ServerAssumption DEF ServerInv, TaskInv, TaskOK
<1>4. Fits(a, q) /\ Whole(a) /\ a.code = "relayed" /\ a.reply = r /\ a.given = r /\ a.born = now
  BY <1>3, UpstreamFits
<1> HIDE DEF a
<1>5. CacheInv'
  <2>1. CASE q.plain /\ r.plain /\ cache' = AfterInsert(cache, q.key, a, now)
    <3>1. q.key \in Keys /\ q.plain = TRUE /\ r.plain = TRUE BY <1>3, <2>1 DEF Request, Reply
    <3>2. a \in Answer /\ a.key = q.key /\ a.plain = TRUE BY <1>4, <3>1 DEF Fits
    <3>3. ASSUME Lifetime(a.reply) # 0
          PROVE  CachedOK(q.key, [answer |-> [a EXCEPT !.reply = Stored(@)], inserted |-> now,
                                  ttl |-> Lesser(Lifetime(a.reply), RETENTION)])
      <4>1. Lives(a.reply, Lesser(Lifetime(a.reply), RETENTION)) BY <1>3, <1>4, <3>3, LifetimeFacts
      <4> QED BY <1>3, <1>4, <3>1, <3>2, <4>1, KeptOK
    <3> QED BY <1>3, <1>4, <2>1, <3>1, <3>3, InsertKeeps DEF ServerInv
  <2>2. CASE cache' = cache BY <2>2, CacheSame DEF ServerInv
  <2> QED BY <1>1, <2>1, <2>2 DEF Kept, Key, a
<1>6. Answers(c, a) BY <1>1 DEF a
<1> QED BY <1>2, <1>4, <1>5, <1>6, AnsweredKeeps DEF GoodReply

LEMMA WrittenKeeps ==
  ASSUME ServerInv, NEW c \in Clients, Written(c)
  PROVE  ServerInv'
<1>1. task \in [Clients -> TaskType] /\ Active(c)
  BY DEF ServerInv, TaskInv, Written, At, Active
<1>2. CASE /\ task[c].served + 1 < QUERIES
           /\ task' = [task EXCEPT ![c] = [NoTask EXCEPT !.pc = "read", !.served = task[c].served + 1]]
           /\ permits' = permits
  <2> DEFINE t == [NoTask EXCEPT !.pc = "read", !.served = task[c].served + 1]
  <2>1. NoTask \in TaskType BY Numbers DEF NoTask, TaskType, PCs
  <2>2. task[c].served + 1 \in 0 .. QUERIES - 1 BY <1>1, <1>2, Numbers DEF TaskType
  <2>3. t \in TaskType /\ t.pc = "read" BY <2>1, <2>2 DEF TaskType, PCs
  <2>4. CacheInv' BY CacheSame DEF ServerInv, Written
  <2>5. task' = [task EXCEPT ![c] = t] BY <1>2
  <2> HIDE DEF t
  <2> QED BY <1>1, <1>2, <2>3, <2>4, <2>5, GoesOnKeeps DEF Written
<1>3. CASE End(c) BY <1>1, <1>3, EndKeeps DEF Written
<1> QED BY <1>2, <1>3 DEF Written

\* The steps that end a task without more ado.
LEMMA EndsKeep ==
  ASSUME ServerInv, NEW c \in Clients,
         ReadEnds(c) \/ Malformed(c) \/ WriteFails(c) \/ Abort(c)
  PROVE  ServerInv'
<1>1. Active(c) /\ End(c) /\ UNCHANGED <<cache, now>>
  BY DEF ReadEnds, Malformed, WriteFails, Abort, At, Active
<1> QED BY <1>1, EndKeeps

\* The clock and the phase.
LEMMA QuietKeeps ==
  ASSUME ServerInv, UNCHANGED <<permits, task, cache>>, now' \in Nat
  PROVE  ServerInv'
<1>1. TaskInv' BY DEF ServerInv, TaskInv, TaskOK
<1>2. CacheInv' BY CacheSame DEF ServerInv
<1>3. PermitInv' BY DEF ServerInv, PermitInv, PermitsReturned, ActiveSet, Active
<1> QED BY <1>1, <1>2, <1>3 DEF ServerInv

LEMMA ServerStep ==
  ASSUME ServerInv, [Next]_vars
  PROVE  ServerInv'
<1>1. ASSUME NEW c \in Clients, Receive(c) PROVE ServerInv' BY <1>1, ReceiveKeeps
<1>2. ASSUME NEW c \in Clients, Accept(c) PROVE ServerInv' BY <1>2, AcceptKeeps
<1>3. ASSUME NEW c \in Clients, Abort(c) PROVE ServerInv' BY <1>3, EndsKeep
<1>4. ASSUME NEW c \in Clients, Progress(c) PROVE ServerInv'
  <2>1. CASE ReadFrame(c) BY <2>1, ReadFrameKeeps
  <2>2. CASE ReadEnds(c) \/ Malformed(c) \/ WriteFails(c) BY <2>2, EndsKeep
  <2>3. CASE Refuse(c) BY <2>3, LocalKeeps DEF Refuse, At
  <2>4. CASE Block(c) BY <2>4, LocalKeeps DEF Block, At
  <2>5. CASE CacheHit(c) BY <2>5, CacheHitKeeps
  <2>6. CASE CacheMiss(c) BY <2>6, CacheMissKeeps
  <2>7. CASE ExchangeFails(c) BY <2>7, GivesUpKeeps DEF ExchangeFails
  <2>8. CASE TruncatedReply(c) BY <2>8, TruncatedKeeps
  <2>9. CASE UnableReply(c) BY <2>9, GivesUpKeeps DEF UnableReply
  <2>10. CASE GoodReply(c) BY <2>10, GoodReplyKeeps
  <2>11. CASE Written(c) BY <2>11, WrittenKeeps
  <2> QED BY <1>4, <2>1, <2>2, <2>3, <2>4, <2>5, <2>6, <2>7, <2>8, <2>9, <2>10, <2>11
          DEF Progress
<1>5. now \in Nat BY DEF ServerInv
<1>6. CASE Shutdown \/ SocketFails BY <1>5, <1>6, QuietKeeps DEF Shutdown, SocketFails
<1>7. CASE Stopped BY <1>5, <1>7, QuietKeeps DEF Stopped
<1>8. CASE Tick BY <1>5, <1>8, QuietKeeps DEF Tick
<1>9. CASE UNCHANGED vars BY <1>5, <1>9, QuietKeeps DEF vars
<1> QED BY <1>1, <1>2, <1>3, <1>4, <1>6, <1>7, <1>8, <1>9 DEF Next

LEMMA ServerAlways == Spec => []ServerInv
<1>1. Init => ServerInv BY ServerInit
<1>2. ServerInv /\ [Next]_vars => ServerInv' BY ServerStep
<1> QED BY <1>1, <1>2, PTL DEF Spec

-----------------------------------------------------------------------------
\* The permits of the semaphore and the tasks under way always add up to max_in_flight,
\* whatever ends a task: an answer, silence, a timeout, a failed write or the shutdown.
THEOREM PermitsNeverLost == Spec => []PermitsReturned
<1>1. ServerInv => PermitsReturned BY DEF ServerInv, PermitInv
<1> QED BY <1>1, ServerAlways, PTL

\* A task that is about to relay has an answer that fits its request.
LEMMA RelayedFits ==
  ASSUME ServerInv, NEW c \in Relayed
  PROVE  /\ c \in Clients /\ task[c].answer.code = "relayed"
         /\ task[c].request \in Request
         /\ Fits(task[c].answer, task[c].request)
         /\ c \in Connections => Whole(task[c].answer)
<1>1. c \in Clients /\ task[c].pc = "write" /\ task[c].answer.code = "relayed"
  BY DEF Relayed, At
<1>2. TaskOK(c) BY <1>1 DEF ServerInv, TaskInv
<1> QED BY <1>1, <1>2, ServerAssumption DEF TaskOK

\* An answer from cache or upstream is one to the question asked, and what was given to a
\* request with DNSSEC bits, or carries options or a signature, comes from an upstream now.
THEOREM AnswersNeverMixed == Spec => []AnswersOwn
<1>1. ASSUME ServerInv PROVE AnswersOwn
  <2>1. ASSUME NEW c \in Relayed
        PROVE  LET a == task[c].answer
               IN  /\ a.key = task[c].request.key
                   /\ a.plain = task[c].request.plain
                   /\ ~(a.plain /\ a.given.plain) => a.born = a.taken
    <3> DEFINE a == task[c].answer
    <3>1. Fits(a, task[c].request) /\ a.code = "relayed" BY <1>1, RelayedFits
    <3>2. a \in Answer /\ a.given \in Reply BY <3>1 DEF Fits
    <3>3. a.plain \in BOOLEAN /\ a.given.plain \in BOOLEAN BY <3>2 DEF Answer, Reply
    <3> HIDE DEF a
    <3>4. /\ a.key = task[c].request.key
          /\ a.plain = task[c].request.plain
          /\ ~(a.plain /\ a.given.plain) => a.born = a.taken
      BY <3>1, <3>3 DEF Fits
    <3> QED BY <3>4 DEF a
  <2> QED BY <2>1 DEF AnswersOwn
<1>2. ServerInv => AnswersOwn BY <1>1
<1> QED BY <1>2, ServerAlways, PTL

\* A connection gets every reply whole, also one that the cache took from a datagram's
\* exchange and that is cut for datagrams.
THEOREM ConnectionsGetAll == Spec => []CompleteOverTcp
<1>1. ASSUME ServerInv PROVE CompleteOverTcp
  <2>1. ASSUME NEW c \in Relayed \cap Connections
        PROVE  LET a == task[c].answer
               IN  ~a.truncated /\ (a.given.answers # {} <=> a.reply.answers # {})
    <3> DEFINE a == task[c].answer
    <3>1. Whole(a) /\ a.code = "relayed" BY <1>1, RelayedFits
    <3> HIDE DEF a
    <3>2. ~a.truncated /\ (a.given.answers # {} <=> a.reply.answers # {})
      BY <3>1 DEF Whole
    <3> QED BY <3>2 DEF a
  <2> QED BY <2>1 DEF CompleteOverTcp
<1>2. ServerInv => CompleteOverTcp BY <1>1
<1> QED BY <1>2, ServerAlways, PTL

\* A cached answer is relayed only while every record of what the upstream gave is alive, a
\* negative one not beyond the minimum of its SOA, and with the times that are left.
THEOREM AnswersStayAlive == Spec => []AnswersAlive
<1>1. ASSUME ServerInv PROVE AnswersAlive
  <2>1. ASSUME NEW c \in Relayed PROVE Alive(task[c].answer)
    BY <1>1, <2>1, RelayedFits DEF Fits
  <2> QED BY <2>1 DEF AnswersAlive, Alive
<1>2. ServerInv => AnswersAlive BY <1>1
<1> QED BY <1>2, ServerAlways, PTL

-----------------------------------------------------------------------------
(* Entries and their order. *)

LEMMA Induction ==
  ASSUME NEW S, 0 \in S, \A n \in Nat : n \in S => n + 1 \in S
  PROVE  Nat \subseteq S
<1> SUFFICES ASSUME Nat \ S # {} PROVE FALSE OBVIOUS
<1> DEFINE x == Min(Nat \ S)
<1>1. x \in Nat \ S /\ \A y \in Nat \ S : x <= y
  <2>1. Nat \ S \in SUBSET Nat OBVIOUS
  <2> QED BY <2>1, Least
<1> HIDE DEF x
<1>2. x # 0 /\ x - 1 \in Nat BY <1>1
<1>3. x - 1 \in S BY <1>1, <1>2
<1> QED BY <1>1, <1>2, <1>3

\* A first value and a step make a function.
Steps(G, V, N) == \A v \in V, n \in 1 .. N : G[v][n] \in V
Iterates(f, G, V, b, N) ==
  f \in [0 .. N -> V] /\ f[0] = b /\ \A n \in 1 .. N : f[n] = G[f[n - 1]][n]

LEMMA Recursion ==
  ASSUME NEW V, NEW b \in V, NEW N \in Nat, NEW G, Steps(G, V, N)
  PROVE  \E f : Iterates(f, G, V, b, N)
<1> USE DEF Steps
<1> DEFINE Upto(k) == \E f \in [0 .. k -> V] :
                        \A n \in 0 .. k : f[n] = IF n = 0 THEN b ELSE G[f[n - 1]][n]
           S == {k \in Nat : k <= N => Upto(k)}
<1>1. 0 \in S
  <2> DEFINE f == [n \in 0 .. 0 |-> b]
  <2>1. f \in [0 .. 0 -> V] /\ \A n \in 0 .. 0 : f[n] = b /\ n = 0 OBVIOUS
  <2> HIDE DEF f
  <2>2. Upto(0) BY <2>1
  <2> QED BY <2>2
<1>2. ASSUME NEW k \in Nat, k \in S PROVE k + 1 \in S
  <2> SUFFICES ASSUME k + 1 <= N PROVE Upto(k + 1) OBVIOUS
  <2>1. PICK f \in [0 .. k -> V] : \A n \in 0 .. k : f[n] = IF n = 0 THEN b ELSE G[f[n - 1]][n]
    BY <1>2
  <2> DEFINE g == [n \in 0 .. k + 1 |-> IF n = k + 1 THEN G[f[k]][k + 1] ELSE f[n]]
  <2>2. g \in [0 .. k + 1 -> V] BY <2>1
  <2>3. \A n \in 0 .. k + 1 : g[n] = IF n = 0 THEN b ELSE G[g[n - 1]][n]
    <3> SUFFICES ASSUME NEW n \in 0 .. k + 1 PROVE g[n] = IF n = 0 THEN b ELSE G[g[n - 1]][n]
      OBVIOUS
    <3>1. CASE n = k + 1
      <4>1. g[n] = G[f[k]][n] /\ n # 0 /\ n - 1 = k BY <3>1
      <4>2. g[k] = f[k] OBVIOUS
      <4> QED BY <4>1, <4>2
    <3>2. CASE n # k + 1
      <4>1. n \in 0 .. k /\ g[n] = f[n] BY <3>2
      <4>2. n # 0 => g[n - 1] = f[n - 1] BY <4>1
      <4> HIDE DEF g
      <4> QED BY <2>1, <4>1, <4>2
    <3> QED BY <3>1, <3>2
  <2> HIDE DEF g
  <2> QED BY <2>2, <2>3
<1> HIDE DEF S
<1>3. N \in S BY <1>1, <1>2, Induction
<1>4. PICK f \in [0 .. N -> V] : \A n \in 0 .. N : f[n] = IF n = 0 THEN b ELSE G[f[n - 1]][n]
  <2> HIDE DEF Upto
  <2>1. Upto(N) BY <1>3 DEF S
  <2> QED BY <2>1 DEF Upto
<1>5. f[0] = b
  <2>1. 0 \in 0 .. N OBVIOUS
  <2> QED BY <1>4, <2>1
<1>6. \A n \in 1 .. N : f[n] = G[f[n - 1]][n]
  <2>1. \A n \in 1 .. N : n \in 0 .. N /\ n # 0 OBVIOUS
  <2> QED BY <1>4, <2>1
<1> QED BY <1>4, <1>5, <1>6 DEF Iterates

Distinct(s) == \A i, j \in 1 .. Len(s) : s[i] = s[j] => i = j

LEMMA Appended ==
  ASSUME NEW S, NEW s \in Seq(S), NEW e \in S
  PROVE  /\ Append(s, e) \in Seq(S) /\ ToSet(Append(s, e)) = ToSet(s) \cup {e}
         /\ Distinct(s) /\ e \notin ToSet(s) => Distinct(Append(s, e))
<1> DEFINE t == Append(s, e)
           N == Len(s)
<1>0. t \in Seq(S) OBVIOUS
<1>1. /\ N \in Nat /\ DOMAIN s = 1 .. N /\ DOMAIN t = 1 .. N + 1 /\ Len(t) = N + 1
      /\ \A i \in 1 .. N : t[i] = s[i]
      /\ t[N + 1] = e
  OBVIOUS
<1>2. Distinct(s) <=> \A i, j \in 1 .. N : s[i] = s[j] => i = j BY DEF Distinct
<1> HIDE DEF t, N
<1>3. ToSet(t) = {t[i] : i \in 1 .. N + 1} /\ ToSet(s) = {s[i] : i \in 1 .. N}
  BY <1>1 DEF ToSet
<1>4. \A i \in 1 .. N + 1 : i \in 1 .. N \/ i = N + 1 BY <1>1
<1>5. (\A i \in 1 .. N : i \in 1 .. N + 1) /\ N + 1 \in 1 .. N + 1 BY <1>1
<1>6. ToSet(t) = ToSet(s) \cup {e} BY <1>1, <1>3, <1>4, <1>5
<1>7. ASSUME Distinct(s), e \notin ToSet(s), NEW i \in 1 .. N + 1, NEW j \in 1 .. N + 1, t[i] = t[j]
      PROVE  i = j
  <2>1. \A k \in 1 .. N : t[k] # e BY <1>1, <1>3, <1>7
  <2> QED BY <1>1, <1>2, <1>4, <1>7, <2>1
<1>8. Distinct(s) /\ e \notin ToSet(s) => Distinct(t) BY <1>1, <1>7 DEF Distinct
<1> QED BY <1>0, <1>6, <1>8 DEF t

LEMMA RetainedFacts ==
  ASSUME NEW S, NEW s \in Seq(S), Distinct(s), NEW key
  PROVE  /\ Retained(s, key) \in Seq(S) /\ Distinct(Retained(s, key))
         /\ ToSet(Retained(s, key)) = ToSet(s) \ {key}
<1> DEFINE N == Len(s)
           Step(v, n) == IF s[n] # key THEN Append(v, s[n]) ELSE v
           G == [v \in Seq(S) |-> [n \in 1 .. N |-> Step(v, n)]]
           kept == CHOOSE f : f = [n \in 0 .. N |->
                     IF n = 0 THEN << >>
                     ELSE IF s[n] # key THEN Append(f[n - 1], s[n]) ELSE f[n - 1]]
           Before(n) == {s[i] : i \in 1 .. n}
           Good(n) == kept[n] \in Seq(S) /\ Distinct(kept[n]) /\ ToSet(kept[n]) = Before(n) \ {key}
<1>1. N \in Nat /\ << >> \in Seq(S) /\ ToSet(s) = Before(N) BY DEF ToSet
<1>0. \A n \in 1 .. N : s[n] \in S OBVIOUS
<1>2. \A v \in Seq(S), n \in 1 .. N : G[v][n] = Step(v, n) /\ Step(v, n) \in Seq(S)
  <2> SUFFICES ASSUME NEW v \in Seq(S), NEW n \in 1 .. N
               PROVE  G[v][n] = Step(v, n) /\ Step(v, n) \in Seq(S)
    OBVIOUS
  <2>1. Step(v, n) \in Seq(S) BY <1>0
  <2> HIDE DEF Step, N
  <2>2. G[v] = [m \in 1 .. N |-> Step(v, m)] OBVIOUS
  <2> QED BY <2>1, <2>2
<1>3. \E f : f = [n \in 0 .. N |->
                  IF n = 0 THEN << >>
                  ELSE IF s[n] # key THEN Append(f[n - 1], s[n]) ELSE f[n - 1]]
  <2> HIDE DEF G, N, Step, kept, Good
  <2>1. Steps(G, Seq(S), N) BY <1>2 DEF Steps
  <2>2. PICK f : Iterates(f, G, Seq(S), << >>, N) BY <1>1, <2>1, Recursion
  <2>3. f \in [0 .. N -> Seq(S)] /\ f[0] = << >> BY <2>2 DEF Iterates
  <2>4. ASSUME NEW n \in 1 .. N PROVE f[n] = Step(f[n - 1], n)
    <3>1. n - 1 \in 0 .. N BY <1>1
    <3>2. f[n - 1] \in Seq(S) BY <2>3, <3>1
    <3>3. G[f[n - 1]][n] = Step(f[n - 1], n) BY <1>2, <3>2
    <3> QED BY <2>2, <3>3 DEF Iterates
  <2>5. \A n \in 0 .. N : f[n] = IF n = 0 THEN << >> ELSE Step(f[n - 1], n)
    BY <1>1, <2>3, <2>4
  <2>6. f = [n \in 0 .. N |-> IF n = 0 THEN << >> ELSE Step(f[n - 1], n)] BY <2>3, <2>5
  <2> QED BY <2>6 DEF Step
<1>4. kept = [n \in 0 .. N |->
                IF n = 0 THEN << >>
                ELSE IF s[n] # key THEN Append(kept[n - 1], s[n]) ELSE kept[n - 1]]
  BY <1>3
<1>5. Retained(s, key) = kept[N] BY DEF Retained
<1>a. \A i, j \in 1 .. N : s[i] = s[j] => i = j BY DEF Distinct
<1> HIDE DEF kept, N
<1> DEFINE T == {n \in Nat : n <= N => Good(n)}
<1>6. 0 \in T
  <2>1. kept[0] = << >> BY <1>1, <1>4
  <2>2. ToSet(<< >>) = {} /\ Distinct(<< >>) /\ << >> \in Seq(S) BY DEF ToSet, Distinct
  <2>3. Before(0) = {} OBVIOUS
  <2> HIDE DEF Before
  <2>4. Good(0) BY <2>1, <2>2, <2>3
  <2> QED BY <2>4
<1>7. ASSUME NEW n \in Nat, n \in T PROVE n + 1 \in T
  <2> SUFFICES ASSUME n + 1 <= N PROVE Good(n + 1) OBVIOUS
  <2>1. Good(n) BY <1>1, <1>7
  <2>2. n + 1 \in 1 .. N /\ s[n + 1] \in S BY <1>0, <1>1
  <2>3. kept[n + 1] = IF s[n + 1] # key THEN Append(kept[n], s[n + 1]) ELSE kept[n]
    <3>1. n + 1 \in 0 .. N /\ n + 1 # 0 /\ (n + 1) - 1 = n BY <1>1
    <3> QED BY <1>4, <3>1
  <2>4. Before(n + 1) = Before(n) \cup {s[n + 1]}
    <3>1. \A i \in 1 .. n + 1 : i \in 1 .. n \/ i = n + 1 OBVIOUS
    <3>2. (\A i \in 1 .. n : i \in 1 .. n + 1) /\ n + 1 \in 1 .. n + 1 OBVIOUS
    <3> QED BY <3>1, <3>2
  <2>5. s[n + 1] \notin Before(n)
    <3>1. \A i \in 1 .. n : i \in 1 .. N /\ i # n + 1 BY <1>1, <2>2
    <3> QED BY <1>a, <2>2, <3>1
  <2>6. kept[n] \in Seq(S) /\ Distinct(kept[n]) /\ ToSet(kept[n]) = Before(n) \ {key} BY <2>1
  <2> HIDE DEF Before
  <2>7. CASE s[n + 1] # key
    <3>1. kept[n + 1] = Append(kept[n], s[n + 1]) BY <2>3, <2>7
    <3>2. s[n + 1] \notin ToSet(kept[n]) BY <2>5, <2>6
    <3>3. /\ Append(kept[n], s[n + 1]) \in Seq(S) /\ Distinct(Append(kept[n], s[n + 1]))
          /\ ToSet(Append(kept[n], s[n + 1])) = ToSet(kept[n]) \cup {s[n + 1]}
      BY <2>2, <2>6, <3>2, Appended
    <3>4. (Before(n) \ {key}) \cup {s[n + 1]} = Before(n + 1) \ {key} BY <2>4, <2>7
    <3> QED BY <2>6, <3>1, <3>3, <3>4
  <2>8. CASE s[n + 1] = key
    <3>1. kept[n + 1] = kept[n] BY <2>3, <2>8
    <3>2. Before(n) \ {key} = Before(n + 1) \ {key} BY <2>4, <2>8
    <3> QED BY <2>6, <3>1, <3>2
  <2> QED BY <2>7, <2>8
<1> HIDE DEF T, Good, Before
<1>8. N \in T BY <1>1, <1>6, <1>7, Induction
<1>9. Good(N) BY <1>1, <1>8 DEF T
<1> QED BY <1>1, <1>5, <1>9 DEF Good

LEMMA DistinctCount ==
  ASSUME NEW S, NEW s \in Seq(S), Distinct(s)
  PROVE  IsFiniteSet(ToSet(s)) /\ Cardinality(ToSet(s)) = Len(s)
<1> DEFINE N == Len(s)
           f == [i \in 1 .. N |-> s[i]]
<1>1. N \in Nat /\ ToSet(s) = {s[i] : i \in 1 .. N} BY DEF ToSet
<1>2. f \in Bijection(1 .. N, ToSet(s))
  <2>1. f \in [1 .. N -> ToSet(s)] BY <1>1
  <2>2. \A i, j \in 1 .. N : f[i] = f[j] => i = j BY DEF Distinct
  <2>3. \A x \in ToSet(s) : \E i \in 1 .. N : f[i] = x BY <1>1
  <2> HIDE DEF f, N
  <2> QED BY <2>1, <2>2, <2>3 DEF Bijection, Injection, Surjection, IsInjective
<1> HIDE DEF f
<1>3. IsFiniteSet(1 .. N) /\ Cardinality(1 .. N) = N
  <2>1. 1 \in Int /\ N \in Int BY <1>1
  <2> HIDE DEF N
  <2> QED BY <1>1, <2>1, FS_Interval
<1>4. ExistsBijection(1 .. N, ToSet(s)) BY <1>2 DEF ExistsBijection
<1> QED BY <1>3, <1>4, FS_Bijection

\* The order names each key of the entries once, and there is room for them.
OrderOK(c) ==
  /\ c.order \in Seq(Keys) /\ Distinct(c.order)
  /\ ToSet(c.order) = DOMAIN c.entries
  /\ Cardinality(DOMAIN c.entries) <= CAPACITY

LEMMA GetOrder ==
  ASSUME NEW c, OrderOK(c), NEW key, NEW time
  PROVE  OrderOK(AfterGet(c, key, time))
<1> DEFINE new == Without(c, key)
<1>1. IsFiniteSet(DOMAIN c.entries) BY DistinctCount DEF OrderOK
<1>2. DOMAIN new.entries = DOMAIN c.entries \ {key} /\ new.order = Retained(c.order, key)
  BY DEF Without, Only
<1>3. new.order \in Seq(Keys) /\ Distinct(new.order) /\ ToSet(new.order) = DOMAIN c.entries \ {key}
  BY <1>2, RetainedFacts DEF OrderOK
<1>4. Cardinality(DOMAIN c.entries \ {key}) <= Cardinality(DOMAIN c.entries)
  BY <1>1, FS_Subset
<1>5. /\ Cardinality(DOMAIN c.entries \ {key}) \in Nat /\ Cardinality(DOMAIN c.entries) \in Nat
      /\ CAPACITY \in Nat
  <2>1. IsFiniteSet(DOMAIN c.entries \ {key}) BY <1>1, FS_RemoveElement
  <2> QED BY <1>1, <2>1, FS_CardinalityType, CacheAssumption
<1> HIDE DEF new
<1>6. OrderOK(new) BY <1>2, <1>3, <1>4, <1>5 DEF OrderOK
<1> QED BY <1>6 DEF AfterGet, Dropped, new

\* Making room drops the oldest, and no more than that.
LEMMA ShrunkOrder ==
  ASSUME NEW c, OrderOK(c), NEW key, CAPACITY # 0
  PROVE  LET room == Shrunk(c, key)
         IN  /\ room.order \in Seq(Keys) /\ Distinct(room.order)
             /\ ToSet(room.order) = DOMAIN room.entries \ {key}
             /\ IsFiniteSet(DOMAIN room.entries)
             /\ Cardinality(DOMAIN room.entries \cup {key}) <= CAPACITY
<1> DEFINE D == DOMAIN c.entries
           order == Retained(c.order, key)
           Gone(n) == ToSet(SubSeq(order, 1, n))
           Rest(n) == D \ Gone(n)
           Enough(n) == key \in D \/ Cardinality(Rest(n)) < CAPACITY \/ n = Len(order)
           n0 == Min({i \in 0 .. Len(order) : Enough(i)})
           rest == SubSeq(order, n0 + 1, Len(order))
           room == Shrunk(c, key)
<1>1. IsFiniteSet(D) /\ D = ToSet(c.order) BY DistinctCount DEF OrderOK
<1>2. /\ order \in Seq(Keys) /\ Distinct(order) /\ ToSet(order) = D \ {key}
  BY <1>1, RetainedFacts DEF OrderOK
<1>3. CAPACITY \in Nat /\ Cardinality(D) <= CAPACITY BY CacheAssumption DEF OrderOK
<1>4. room = [entries |-> Only(c.entries, Rest(n0)), order |-> rest] BY DEF Shrunk
<1> HIDE DEF room
<1>5. DOMAIN room.entries = Rest(n0) /\ room.order = rest
  <2> DEFINE R == Rest(n0)
             kept == Only(c.entries, R)
  <2>1. room.entries = kept /\ room.order = rest BY <1>4
  <2>2. DOMAIN kept = R
    <3> HIDE DEF R
    <3> QED BY DEF Only
  <2> HIDE DEF R, kept
  <2>3. DOMAIN room.entries = R BY <2>1, <2>2
  <2> QED BY <2>1, <2>3 DEF R
<1> HIDE DEF order, D
<1>6. Len(order) \in Nat /\ \A n \in 0 .. Len(order) : Gone(n) = {order[i] : i \in 1 .. n}
  <2>1. Len(order) \in Nat BY <1>2
  <2>2. ASSUME NEW n \in 0 .. Len(order) PROVE Gone(n) = {order[i] : i \in 1 .. n}
    <3>1. Len(SubSeq(order, 1, n)) = n /\ \A i \in 1 .. n : SubSeq(order, 1, n)[i] = order[i]
      BY <1>2, <2>1
    <3>2. DOMAIN SubSeq(order, 1, n) = 1 .. n BY <1>2, <2>1
    <3> QED BY <3>1, <3>2 DEF ToSet
  <2> QED BY <2>1, <2>2
<1>7. n0 \in 0 .. Len(order) /\ Enough(n0) /\ \A i \in 0 .. Len(order) : Enough(i) => n0 <= i
  <2> DEFINE X == {i \in 0 .. Len(order) : Enough(i)}
  <2>1. X \in SUBSET Nat /\ Len(order) \in X BY <1>6
  <2> HIDE DEF X
  <2>2. Min(X) \in X /\ \A i \in X : Min(X) <= i BY <2>1, Least
  <2> QED BY <2>2 DEF X
<1> HIDE DEF n0
<1>8. /\ rest \in Seq(Keys) /\ Len(rest) = Len(order) - n0 /\ DOMAIN rest = 1 .. Len(order) - n0
      /\ \A i \in 1 .. Len(order) - n0 : rest[i] = order[n0 + i]
  BY <1>2, <1>6, <1>7
<1>9. Distinct(rest)
  <2> SUFFICES ASSUME NEW i \in 1 .. Len(rest), NEW j \in 1 .. Len(rest), rest[i] = rest[j]
               PROVE  i = j
    BY DEF Distinct
  <2>1. n0 + i \in 1 .. Len(order) /\ n0 + j \in 1 .. Len(order) BY <1>6, <1>7, <1>8
  <2>2. order[n0 + i] = order[n0 + j] BY <1>8
  <2>3. n0 + i = n0 + j BY <1>2, <2>1, <2>2 DEF Distinct
  <2> QED BY <1>7, <2>3
<1>10. ToSet(rest) = ToSet(order) \ Gone(n0)
  <2>1. ToSet(rest) = {rest[i] : i \in 1 .. Len(order) - n0} BY <1>8 DEF ToSet
  <2>2. ToSet(order) = {order[i] : i \in 1 .. Len(order)} BY <1>2 DEF ToSet
  <2>3. Gone(n0) = {order[i] : i \in 1 .. n0} BY <1>6, <1>7
  <2>4. ASSUME NEW i \in 1 .. Len(order) - n0
        PROVE  rest[i] \in ToSet(order) /\ rest[i] \notin Gone(n0)
    <3>1. n0 + i \in 1 .. Len(order) /\ rest[i] = order[n0 + i] BY <1>6, <1>7, <1>8
    <3>2. \A j \in 1 .. n0 : j \in 1 .. Len(order) /\ j # n0 + i BY <1>6, <1>7
    <3>3. \A j \in 1 .. n0 : order[j] # order[n0 + i] BY <1>2, <3>1, <3>2 DEF Distinct
    <3> QED BY <2>2, <2>3, <3>1, <3>3
  <2>5. ASSUME NEW i \in 1 .. Len(order), order[i] \notin Gone(n0)
        PROVE  order[i] \in ToSet(rest)
    <3>1. i \notin 1 .. n0 BY <2>3, <2>5
    <3>2. i - n0 \in 1 .. Len(order) - n0 /\ n0 + (i - n0) = i BY <1>6, <1>7, <3>1
    <3>3. rest[i - n0] = order[i] BY <1>8, <3>2
    <3> QED BY <2>1, <3>2, <3>3
  <2> HIDE DEF rest, Gone
  <2> QED BY <2>1, <2>2, <2>4, <2>5
<1>11. ToSet(rest) = Rest(n0) \ {key} BY <1>2, <1>10
<1>12. IsFiniteSet(Rest(n0)) /\ Cardinality(Rest(n0)) \in Nat /\ Cardinality(Rest(n0)) <= Cardinality(D)
  <2>1. Rest(n0) \in SUBSET D OBVIOUS
  <2> HIDE DEF Rest
  <2> QED BY <1>1, <2>1, FS_Subset, FS_CardinalityType
<1>13. Cardinality(Rest(n0) \cup {key}) <= CAPACITY
  <2>0. Cardinality(D) \in Nat BY <1>1, FS_CardinalityType
  <2>1. CASE key \in D
    <3>1. Enough(0) /\ 0 \in 0 .. Len(order) BY <1>6, <2>1
    <3>2. n0 = 0
      <4> HIDE DEF Enough
      <4>1. n0 <= 0 BY <1>7, <3>1
      <4> QED BY <1>6, <1>7, <4>1
    <3>3. Gone(n0) = {} BY <1>6, <1>7, <3>2
    <3>4. Rest(n0) \cup {key} = D BY <2>1, <3>3
    <3> QED BY <1>3, <3>4
  <2>2. CASE key \notin D
    <3>1. Cardinality(Rest(n0)) < CAPACITY
      <4>1. CASE n0 = Len(order)
        <5>1. Gone(n0) = D BY <1>2, <1>6, <1>7, <2>2, <4>1 DEF ToSet
        <5>2. Rest(n0) = {} BY <5>1
        <5>3. Cardinality(Rest(n0)) = 0 BY <5>2, FS_EmptySet
        <5> QED BY <1>3, <5>3
      <4>2. CASE n0 # Len(order) BY <1>7, <2>2, <4>2
      <4> QED BY <4>1, <4>2
    <3>2. Cardinality(Rest(n0) \cup {key}) <= Cardinality(Rest(n0)) + 1
      <4> HIDE DEF Rest
      <4>1. Cardinality(Rest(n0) \cup {key})
              = IF key \in Rest(n0) THEN Cardinality(Rest(n0)) ELSE Cardinality(Rest(n0)) + 1
        BY <1>12, FS_AddElement
      <4> QED BY <1>12, <4>1
    <3>3. Cardinality(Rest(n0) \cup {key}) \in Nat
      <4> HIDE DEF Rest
      <4>1. IsFiniteSet(Rest(n0) \cup {key}) BY <1>12, FS_AddElement
      <4> QED BY <4>1, FS_CardinalityType
    <3> HIDE DEF Rest
    <3> QED BY <1>3, <1>12, <3>1, <3>2, <3>3
  <2> QED BY <2>1, <2>2
<1> HIDE DEF Rest, rest
<1> QED BY <1>5, <1>8, <1>9, <1>11, <1>12, <1>13 DEF room

LEMMA InsertOrder ==
  ASSUME NEW c, OrderOK(c), NEW key \in Keys, NEW a, NEW time
  PROVE  OrderOK(AfterInsert(c, key, a, time))
<1> DEFINE room == Shrunk(c, key)
           entry == [answer |-> [a EXCEPT !.reply = Stored(@)], inserted |-> time,
                     ttl |-> Lesser(Lifetime(a.reply), RETENTION)]
           new == [entries |-> [k \in DOMAIN room.entries \cup {key} |->
                                  IF k = key THEN entry ELSE room.entries[k]],
                   order |-> Append(room.order, key)]
<1>1. AfterInsert(c, key, a, time) = c \/ (CAPACITY # 0 /\ AfterInsert(c, key, a, time) = new)
  BY DEF AfterInsert
<1>2. ASSUME CAPACITY # 0 PROVE OrderOK(new)
  <2>1. DOMAIN new.entries = DOMAIN room.entries \cup {key} /\ new.order = Append(room.order, key)
    OBVIOUS
  <2>2. /\ room.order \in Seq(Keys) /\ Distinct(room.order)
        /\ ToSet(room.order) = DOMAIN room.entries \ {key}
        /\ Cardinality(DOMAIN room.entries \cup {key}) <= CAPACITY
    BY <1>2, ShrunkOrder
  <2> HIDE DEF room, new
  <2>3. key \notin ToSet(room.order) BY <2>2
  <2>4. /\ new.order \in Seq(Keys) /\ ToSet(new.order) = ToSet(room.order) \cup {key}
        /\ Distinct(new.order)
    BY <2>1, <2>2, <2>3, Appended
  <2>5. ToSet(new.order) = DOMAIN new.entries BY <2>1, <2>2, <2>4
  <2> QED BY <2>1, <2>2, <2>4, <2>5 DEF OrderOK
<1> QED BY <1>1, <1>2

LEMMA OrderStep ==
  ASSUME ServerInv, OrderOK(cache), [Next]_vars
  PROVE  OrderOK(cache')
<1>1. CASE cache' = cache BY <1>1
<1>2. ASSUME NEW c \in Clients, CacheMiss(c) PROVE OrderOK(cache')
  <2>1. cache' = cache \/ cache' = AfterGet(cache, Key(c), now) BY <1>2 DEF CacheMiss
  <2> QED BY <2>1, GetOrder
<1>3. ASSUME NEW c \in Clients, GoodReply(c) PROVE OrderOK(cache')
  <2>1. Key(c) \in Keys
    <3>1. task[c].request \in Requests BY <1>3 DEF GoodReply, ServerInv, TaskInv, TaskOK
    <3> QED BY <3>1, ServerAssumption DEF Key, Request
  <2>2. PICK r \in Replies : cache' = Kept(c, r) BY <1>3 DEF GoodReply
  <2>3. cache' = cache \/ cache' = AfterInsert(cache, Key(c), Upstream(c, r), now)
    BY <2>2 DEF Kept
  <2> QED BY <2>1, <2>3, InsertOrder
<1>4. cache' = cache \/ \E c \in Clients : CacheMiss(c) \/ GoodReply(c)
  BY DEF Next, vars, Receive, Accept, Abort, Progress, ReadFrame, ReadEnds, Malformed, Refuse, Block,
         CacheHit, ExchangeFails, TruncatedReply, UnableReply, Written, WriteFails, Shutdown, SocketFails,
         Stopped, Tick
<1> QED BY <1>1, <1>2, <1>3, <1>4

Phases == phase \in {"serving", "stopping", "stopped", "failed"}

\* The cache never holds more answers than its capacity, and its order names each of
\* their keys once, through expiry, eviction and replacement.
THEOREM CacheStaysConsistent == Spec => []CacheConsistent
<1>1. Init => OrderOK(cache) /\ Phases
  <2> SUFFICES ASSUME Init PROVE OrderOK(cache) /\ Phases OBVIOUS
  <2>1. cache = [entries |-> << >>, order |-> << >>] /\ Phases BY DEF Init, EmptyCache, Phases
  <2>2. DOMAIN cache.entries = {} /\ cache.order = << >> BY <2>1
  <2>3. cache.order \in Seq(Keys) /\ Distinct(cache.order) /\ ToSet(cache.order) = {}
    BY <2>2 DEF Distinct, ToSet
  <2>4. Cardinality(DOMAIN cache.entries) = 0 BY <2>2, FS_EmptySet
  <2>5. CAPACITY \in Nat BY CacheAssumption
  <2> QED BY <2>1, <2>2, <2>3, <2>4, <2>5 DEF OrderOK
<1>2. ServerInv /\ OrderOK(cache) /\ [Next]_vars => OrderOK(cache)' BY OrderStep
<1>3. Phases /\ [Next]_vars => Phases'
  BY DEF Phases, Next, vars, Receive, Accept, Abort, Progress, ReadFrame, ReadEnds, Malformed, Refuse,
         Block, CacheHit, CacheMiss, ExchangeFails, TruncatedReply, UnableReply, GoodReply, Written,
         WriteFails, Shutdown, SocketFails, Stopped, Tick
<1>4. ServerInv /\ OrderOK(cache) /\ Phases => CacheConsistent
  <2> SUFFICES ASSUME ServerInv, OrderOK(cache), Phases PROVE CacheConsistent OBVIOUS
  <2>1. permits \in 0 .. MAX_IN_FLIGHT
    <3>1. permits \in Nat /\ permits + Cardinality(ActiveSet) = MAX_IN_FLIGHT /\ IsFiniteSet(ActiveSet)
      BY DEF ServerInv, PermitInv, PermitsReturned, ActiveSet
    <3>2. Cardinality(ActiveSet) \in Nat BY <3>1, FS_CardinalityType
    <3> QED BY <3>1, <3>2, Numbers
  <2>2. \A k \in DOMAIN cache.entries :
          /\ k \in Keys /\ cache.entries[k].answer \in Answer
          /\ cache.entries[k].ttl \in 1 .. RETENTION /\ cache.entries[k].inserted \in Nat
    BY DEF ServerInv, CacheInv, CachedOK, Lives
  <2>3. task \in [Clients -> TaskType] /\ now \in Nat BY DEF ServerInv, TaskInv
  <2>4. TypeOK BY <2>1, <2>2, <2>3 DEF TypeOK, TaskType, PCs, Phases
  <2>5. Len(cache.order) = Cardinality(DOMAIN cache.entries) BY DistinctCount DEF OrderOK
  <2> QED BY <2>4, <2>5 DEF CacheConsistent, OrderOK
<1>5. Spec => [](OrderOK(cache) /\ Phases)
  BY <1>1, <1>2, <1>3, ServerAlways, PTL DEF Spec
<1> QED BY <1>4, <1>5, ServerAlways, PTL
=============================================================================
