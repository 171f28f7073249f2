------------------------------- MODULE DnsServer -------------------------------
(***************************************************************************)
(* The DNS server: one task per datagram and per TCP connection, each with *)
(* a permit; a shared cache; upstreams asked in turn; an orderly shutdown. *)
(*                                                                         *)
(* Tasks run in parallel on shared state: the permits and the cache, which *)
(* is locked for one get or one insert.  Everything else a task awaits:    *)
(* frames of its client, replies of upstreams, room to write.  Messages    *)
(* are data: a request is what validation, policy and cache see of it.     *)
(***************************************************************************)
EXTENDS DnsCache, FiniteSets

CONSTANTS
  Datagrams,      \* clients that send one datagram
  Connections,    \* clients that open one TCP connection
  Requests,       \* what they ask
  Replies,        \* what upstreams answer
  Upstreams,      \* how many are configured
  MAX_IN_FLIGHT,  \* config.max_in_flight
  QUERIES,        \* requests per connection, 64 in the code
  MaxTime         \* bound: seconds

Clients == Datagrams \cup Connections

\* kind: not a DNS message; not acceptable to validation; blocked by the policy; or to
\* be answered.  plain: cacheable, i.e. without any DNSSEC bit.
Request == [kind : {"malformed", "invalid", "blocked", "query"}, key : Keys, plain : BOOLEAN]

ASSUME ServerAssumption ==
  /\ Requests \subseteq Request /\ Replies \subseteq Reply
  /\ {Upstreams, MAX_IN_FLIGHT, QUERIES, MaxTime} \subseteq Nat
  /\ Upstreams > 0 /\ MAX_IN_FLIGHT > 0 /\ QUERIES > 0
  /\ Datagrams \cap Connections = {}

VARIABLES
  phase,    \* "serving"; after a shutdown "stopping", then "stopped"; or "failed"
  permits,  \* available permits of the semaphore
  task,     \* client -> [pc, request, upstream, served, answer]
  cache,
  now

vars == <<phase, permits, task, cache, now>>

NoTask == [pc |-> "idle", request |-> None, upstream |-> 0, served |-> 0, answer |-> None]

Active(c) == task[c].pc \notin {"idle", "done"}

Init ==
  /\ phase = "serving"
  /\ permits = MAX_IN_FLIGHT
  /\ task = [c \in Clients |-> NoTask]
  /\ cache = EmptyCache
  /\ now = 0

-----------------------------------------------------------------------------
At(c, pc) == task[c].pc = pc

Goes(c, pc) == task' = [task EXCEPT ![c].pc = pc]

\* Mutant: a task that has nothing to answer keeps its permit.
EndSilent(c) ==
  /\ task' = [task EXCEPT ![c] = [NoTask EXCEPT !.pc = "done"]]
  /\ permits' = IF task[c].pc = "handle" THEN permits ELSE permits + 1

\* The task is over and its permit dropped.
End(c) ==
  /\ task' = [task EXCEPT ![c] = [NoTask EXCEPT !.pc = "done"]]
  /\ permits' = permits + 1

\* A reply made here, with a code of its own.  born: when the upstream gave it; taken: when
\* it was taken from upstream or cache; given: what the upstream gave.
Local(c, code) ==
  [key |-> task[c].request.key, code |-> code, plain |-> task[c].request.plain,
   reply |-> None, given |-> None, born |-> 0, taken |-> 0, truncated |-> FALSE]

\* A reply of an upstream that matches the question.
Upstream(c, reply) ==
  [Local(c, "relayed") EXCEPT !.reply = reply, !.given = reply, !.born = now, !.taken = now]

-----------------------------------------------------------------------------
\* The accept loop of serve.

\* A packet without a permit is dropped.
Receive(c) ==
  /\ phase = "serving" /\ c \in Datagrams /\ At(c, "idle")
  /\ \/ /\ permits > 0
        /\ \E r \in Requests :
             task' = [task EXCEPT ![c] = [NoTask EXCEPT !.pc = "handle", !.request = r]]
        /\ permits' = permits - 1
     \/ /\ permits = 0
        /\ Goes(c, "done") /\ UNCHANGED permits
  /\ UNCHANGED <<phase, cache, now>>

\* A connection without a permit is closed.
Accept(c) ==
  /\ phase = "serving" /\ c \in Connections /\ At(c, "idle")
  /\ \/ /\ permits > 0
        /\ Goes(c, "read") /\ permits' = permits - 1
     \/ /\ permits = 0
        /\ Goes(c, "done") /\ UNCHANGED permits
  /\ UNCHANGED <<phase, cache, now>>

\* The shutdown future completes: serve aborts all tasks and joins them.
Shutdown ==
  /\ phase = "serving"
  /\ phase' = "stopping"
  /\ UNCHANGED <<permits, task, cache, now>>

\* Receiving or accepting fails: serve returns at once, and dropping the set of tasks
\* aborts them without waiting for their end.
SocketFails ==
  /\ phase = "serving"
  /\ phase' = "failed"
  /\ UNCHANGED <<permits, task, cache, now>>

Aborting == phase \in {"stopping", "failed"}

\* Mutant: a connection only gives up what it waits for, and reads on.
AbortReadsOn(c) ==
  /\ Aborting /\ Active(c)
  /\ IF c \in Connections
     THEN task' = [task EXCEPT ![c] = [NoTask EXCEPT !.pc = "read"]] /\ UNCHANGED permits
     ELSE End(c)
  /\ UNCHANGED <<phase, cache, now>>

\* An aborted task ends where it waits.
Abort(c) ==
  /\ Aborting /\ Active(c)
  /\ End(c)
  /\ UNCHANGED <<phase, cache, now>>

\* serve returns when it has joined them all.
Stopped ==
  /\ phase = "stopping" /\ \A c \in Clients : ~Active(c)
  /\ phase' = "stopped"
  /\ UNCHANGED <<permits, task, cache, now>>

-----------------------------------------------------------------------------
\* tcp_client

ReadFrame(c) ==
  /\ At(c, "read")
  /\ \E r \in Requests : task' = [task EXCEPT ![c].pc = "handle", ![c].request = r]
  /\ UNCHANGED <<phase, permits, cache, now>>

\* The client closes, sends a short frame, or nothing within the timeout.
ReadEnds(c) ==
  /\ At(c, "read")
  /\ End(c)
  /\ UNCHANGED <<phase, cache, now>>

-----------------------------------------------------------------------------
\* State::handle

\* Mutant: the limit of datagrams for everyone.
encodeForAll(c, answer) ==
  IF answer.reply # None /\ answer.reply.size # "small"
  THEN [answer EXCEPT !.truncated = TRUE,
                      !.reply = [@ EXCEPT !.answers = {}, !.others = {}, !.soa = {}]]
  ELSE answer

\* A reply too large for a datagram is cut down to the request to ask over TCP.
encode(c, answer) ==
  IF c \in Datagrams /\ answer.reply # None /\ answer.reply.size # "small"
  THEN [answer EXCEPT !.truncated = TRUE,
                      !.reply = [@ EXCEPT !.answers = {}, !.others = {}, !.soa = {}]]
  ELSE answer

Answers(c, answer) ==
  task' = [task EXCEPT ![c].pc = "write", ![c].answer = encode(c, answer)]

\* Nothing is answered to what is not a DNS message.
Malformed(c) ==
  /\ At(c, "handle") /\ task[c].request.kind = "malformed"
  /\ End(c)
  /\ UNCHANGED <<phase, cache, now>>

Refuse(c) ==
  /\ At(c, "handle") /\ task[c].request.kind = "invalid"
  /\ Answers(c, Local(c, "refused"))
  /\ UNCHANGED <<phase, permits, cache, now>>

Block(c) ==
  /\ At(c, "handle") /\ task[c].request.kind = "blocked"
  /\ Answers(c, Local(c, "NXDomain"))
  /\ UNCHANGED <<phase, permits, cache, now>>

Key(c) == task[c].request.key

CacheHit(c) ==
  /\ At(c, "handle") /\ task[c].request.kind = "query"
  /\ task[c].request.plain /\ Found(cache, Key(c), now)
  /\ Answers(c, [Got(cache, Key(c), now) EXCEPT !.taken = now])
  /\ UNCHANGED <<phase, permits, cache, now>>

\* An exchange begins with a datagram, or with a connection if the client has one.
Asking(c) == IF c \in Datagrams THEN "udp" ELSE "tcp"

CacheMiss(c) ==
  /\ At(c, "handle") /\ task[c].request.kind = "query"
  /\ task[c].request.plain => ~Found(cache, Key(c), now)
  /\ cache' = IF task[c].request.plain THEN AfterGet(cache, Key(c), now) ELSE cache
  /\ task' = [task EXCEPT ![c].pc = Asking(c), ![c].upstream = 1]
  /\ UNCHANGED <<phase, permits, now>>

-----------------------------------------------------------------------------
\* resolver::forward

\* The next upstream is asked, after the last one the client is told.
GivesUp(c) ==
  IF task[c].upstream < Upstreams
  THEN task' = [task EXCEPT ![c].pc = Asking(c), ![c].upstream = @ + 1]
  ELSE Answers(c, Local(c, "ServFail"))

\* Timeout, connection trouble, or the first message that comes does not match.
ExchangeFails(c) ==
  /\ task[c].pc \in {"udp", "tcp"}
  /\ GivesUp(c)
  /\ UNCHANGED <<phase, permits, cache, now>>

\* A truncated reply to a datagram is asked for again over TCP, in the same exchange; one
\* over TCP is an error.
TruncatedReply(c) ==
  /\ \/ At(c, "udp") /\ Goes(c, "tcp")
     \/ At(c, "tcp") /\ GivesUp(c)
  /\ UNCHANGED <<phase, permits, cache, now>>

UnableReply(c) ==
  /\ task[c].pc \in {"udp", "tcp"}
  /\ \E r \in Replies : ~r.truncated /\ r.code \in {"ServFail", "Refused"}
  /\ GivesUp(c)
  /\ UNCHANGED <<phase, permits, cache, now>>

\* Mutant: only the lookup minds the DNSSEC bits.
KeptAlways(c, reply) == AfterInsert(cache, Key(c), Upstream(c, reply), now)

\* The cache after a reply: what answers a request with DNSSEC bits, or comes with options
\* or a signature, is not kept.
Kept(c, reply) ==
  IF task[c].request.plain /\ reply.plain THEN AfterInsert(cache, Key(c), Upstream(c, reply), now) ELSE cache

GoodReply(c) ==
  /\ task[c].pc \in {"udp", "tcp"}
  /\ \E r \in Replies :
       /\ ~r.truncated /\ r.code \notin {"ServFail", "Refused"}
       /\ cache' = Kept(c, r)
       /\ Answers(c, Upstream(c, r))
  /\ UNCHANGED <<phase, permits, now>>

-----------------------------------------------------------------------------
\* Mutant: a connection is served as long as its client asks.
WrittenForever(c) ==
  /\ At(c, "write")
  /\ IF c \in Connections
     THEN task' = [task EXCEPT ![c] = [NoTask EXCEPT !.pc = "read"]] /\ UNCHANGED permits
     ELSE End(c)
  /\ UNCHANGED <<phase, cache, now>>

\* The reply is sent.  After the last request of a connection it is closed.
Written(c) ==
  /\ At(c, "write")
  /\ IF c \in Connections /\ task[c].served + 1 < QUERIES
     THEN /\ task' = [task EXCEPT ![c] = [NoTask EXCEPT !.pc = "read", !.served = task[c].served + 1]]
          /\ UNCHANGED permits
     ELSE End(c)
  /\ UNCHANGED <<phase, cache, now>>

\* The client does not take it, in time or at all.
WriteFails(c) ==
  /\ At(c, "write")
  /\ End(c)
  /\ UNCHANGED <<phase, cache, now>>

Tick ==
  /\ now < MaxTime
  /\ now' = now + 1
  /\ UNCHANGED <<phase, permits, task, cache>>

Progress(c) ==
  \/ ReadFrame(c) \/ ReadEnds(c)
  \/ Malformed(c) \/ Refuse(c) \/ Block(c) \/ CacheHit(c) \/ CacheMiss(c)
  \/ ExchangeFails(c) \/ TruncatedReply(c) \/ UnableReply(c) \/ GoodReply(c)
  \/ Written(c) \/ WriteFails(c)

Next ==
  \/ \E c \in Clients : Receive(c) \/ Accept(c) \/ Abort(c) \/ Progress(c)
  \/ Shutdown \/ SocketFails \/ Stopped \/ Tick

Spec == Init /\ [][Next]_vars

\* Whatever a task awaits ends, by its timeout at the latest; an aborted task ends at its
\* await, and those of a shutdown are joined.
FairSpec ==
  /\ Spec
  /\ \A c \in Clients : WF_vars(Progress(c)) /\ WF_vars(Abort(c))
  /\ WF_vars(Stopped)

-----------------------------------------------------------------------------
\* Properties.

Answer ==
  [key : Keys, code : {"relayed", "refused", "NXDomain", "ServFail"}, plain : BOOLEAN,
   reply : Reply \cup {None}, given : Reply \cup {None}, born : Nat, taken : Nat,
   truncated : BOOLEAN]

TypeOK ==
  /\ phase \in {"serving", "stopping", "stopped", "failed"}
  /\ permits \in 0 .. MAX_IN_FLIGHT
  /\ task \in [Clients -> [pc : {"idle", "read", "handle", "udp", "tcp", "write", "done"},
                           request : Requests \cup {None}, upstream : 0 .. Upstreams,
                           served : 0 .. QUERIES - 1, answer : Answer \cup {None}]]
  /\ \A k \in DOMAIN cache.entries :
       /\ k \in Keys /\ cache.entries[k].answer \in Answer
       /\ cache.entries[k].ttl \in 1 .. RETENTION /\ cache.entries[k].inserted \in Nat
  /\ now \in Nat

\* The cache is bounded, and its order names each key it holds once, so that what is
\* dropped to make room is the oldest entry and is really there; the entries are answers
\* with lives within the retention (TypeOK has that).
CacheConsistent ==
  /\ TypeOK
  /\ ToSet(cache.order) = DOMAIN cache.entries
  /\ Len(cache.order) = Cardinality(DOMAIN cache.entries)
  /\ Len(cache.order) <= CAPACITY

\* Every permit is held by a task that is under way, whatever ended the others.
PermitsReturned == permits + Cardinality({c \in Clients : Active(c)}) = MAX_IN_FLIGHT

Relayed == {c \in Clients : At(c, "write") /\ task[c].answer.code = "relayed"}

\* A cached answer is used while every record of what the upstream gave is alive, negative
\* answers not beyond the minimum of their SOA, and says how long its records still live.
AnswersAlive ==
  \A c \in Relayed :
    LET a == task[c].answer
        age == a.taken - a.born
    IN  age > 0 =>
          /\ \A t \in Ttls(a.given) \cup {s.minimum : s \in a.given.soa} : age < t
          /\ a.given.answers = {} => a.given.soa # {}
          /\ a.reply.answers = IF a.truncated THEN {} ELSE {t - age : t \in a.given.answers}

\* A reply answers the question that was asked, and one that was given to a request with
\* DNSSEC bits, which may be unchecked data, or with options meant for its client, goes to
\* no other client, nor does a request with DNSSEC bits get what the cache holds for others.
AnswersOwn ==
  \A c \in Relayed :
    LET a == task[c].answer
    IN  /\ a.key = task[c].request.key
        /\ a.plain = task[c].request.plain
        /\ ~(a.plain /\ a.given.plain) => a.born = a.taken

\* What does not fit into one client's datagram is whole for the next client over TCP.
CompleteOverTcp ==
  \A c \in Relayed \cap Connections :
    LET a == task[c].answer
    IN  ~a.truncated /\ (a.given.answers # {} <=> a.reply.answers # {})

\* No client can hold a permit forever: whatever it sends, its task ends.
TasksEnd == \A c \in Clients : []<>~Active(c)

\* serve returns after the shutdown, and then no task is left: it has joined them all.  (On
\* a socket error serve does not wait; that its tasks end is TasksEnd.)
ShutdownEnds == []<>(phase # "stopping")
=============================================================================
