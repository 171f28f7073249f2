-------------------------------- MODULE DnsCache --------------------------------
(***************************************************************************)
(* The DNS answer cache as a value: what of an upstream's reply is kept,   *)
(* for how long, and what makes room for it.                               *)
(*                                                                         *)
(* Of a reply the cache looks at the code, the truncation bit, the size    *)
(* and the times to live of its records.  Names and data are not modelled. *)
(***************************************************************************)
EXTENDS Integers, SequencesExt

CONSTANTS
  None,
  Keys,       \* name, type, recursion bit and EDNS payload of a question
  CAPACITY,   \* config.cache_entries
  RETENTION   \* 3600 seconds in the code

SOA == [ttl : Nat, minimum : Nat]

\* answers, others: times to live of the records of the answer section, and of the
\* others but the SOA records.  plain: without EDNS options and signature.  size: fits into
\* a datagram, does not, is over 16 KiB.
Reply ==
  [code : {"NoError", "NXDomain", "ServFail", "Refused", "other"},
   answers : SUBSET Nat, others : SUBSET Nat, soa : SUBSET SOA,
   truncated : BOOLEAN, plain : BOOLEAN, size : {"small", "large", "huge"}]

ASSUME CacheAssumption ==
  {CAPACITY, RETENTION} \subseteq Nat /\ RETENTION > 0

-----------------------------------------------------------------------------
Lesser(a, b) == IF a < b THEN a ELSE b

\* SOA records are not believed longer than their minimum.
Negative(s) == Lesser(s.ttl, s.minimum)

Ttls(r) == r.answers \cup r.others \cup {s.ttl : s \in r.soa}

\* Mutant: negative answers live as long as their records.
LifetimeOfRecords(r) ==
  IF r.code \in {"NoError", "NXDomain"} /\ Ttls(r) # {} THEN Min(Ttls(r)) ELSE 0

\* How long the reply may be kept; 0: not at all.  A negative answer needs a SOA record.
Lifetime(r) ==
  LET positive == r.code = "NoError" /\ r.answers # {}
      negative == r.code \in {"NoError", "NXDomain"} /\ r.soa # {}
  IN  IF positive \/ negative THEN Min(Ttls(r) \cup {Negative(s) : s \in r.soa}) ELSE 0

\* What is kept of it.
Stored(r) == [r EXCEPT !.soa = {[s EXCEPT !.ttl = Negative(s)] : s \in @}]

Later(ttl, age) == IF ttl > age THEN ttl - age ELSE 0

\* The reply after it has been kept for some time.
Aged(r, age) ==
  [r EXCEPT !.answers = {Later(t, age) : t \in @},
            !.others = {Later(t, age) : t \in @},
            !.soa = {[s EXCEPT !.ttl = Later(@, age)] : s \in @}]

-----------------------------------------------------------------------------
\* A cache is [entries, order]: key -> [answer, inserted, ttl], and the keys, oldest first.
\* An answer is a record with the field reply.

EmptyCache == [entries |-> << >>, order |-> << >>]

Only(entries, keys) == [k \in keys |-> entries[k]]

\* The order without a key (retain).
Retained(order, key) ==
  LET kept[n \in 0 .. Len(order)] ==
        IF n = 0 THEN << >>
        ELSE IF order[n] # key THEN Append(kept[n - 1], order[n]) ELSE kept[n - 1]
  IN  kept[Len(order)]

Without(cache, key) ==
  [entries |-> Only(cache.entries, DOMAIN cache.entries \ {key}),
   order |-> Retained(cache.order, key)]

Expired(entry, now) == now - entry.inserted >= entry.ttl

\* Mutant: an expired entry keeps its place in the order.
DroppedEntryOnly(cache, key) ==
  [cache EXCEPT !.entries = Only(@, DOMAIN @ \ {key})]

\* get removes an entry it finds expired.
Dropped(cache, key) == Without(cache, key)

Found(cache, key, now) ==
  key \in DOMAIN cache.entries /\ ~Expired(cache.entries[key], now)

AfterGet(cache, key, now) ==
  IF key \in DOMAIN cache.entries /\ Expired(cache.entries[key], now)
  THEN Dropped(cache, key) ELSE cache

\* What get returns for an entry that has not expired.
Got(cache, key, now) ==
  LET entry == cache.entries[key]
  IN  [entry.answer EXCEPT !.reply = Aged(@, now - entry.inserted)]

\* The oldest keys are dropped until there is room for another.
Shrunk(cache, key) ==
  LET order == Retained(cache.order, key)
      Left(n) == DOMAIN cache.entries \ ToSet(SubSeq(order, 1, n))
      Enough(n) == key \in DOMAIN cache.entries \/ Cardinality(Left(n)) < CAPACITY \/ n = Len(order)
      n == Min({i \in 0 .. Len(order) : Enough(i)})
  IN  [entries |-> Only(cache.entries, Left(n)), order |-> SubSeq(order, n + 1, Len(order))]

\* insert
AfterInsert(cache, key, answer, now) ==
  LET r == answer.reply
      room == Shrunk(cache, key)
      entry == [answer |-> [answer EXCEPT !.reply = Stored(@)],
                inserted |-> now, ttl |-> Lesser(Lifetime(r), RETENTION)]
  IN  IF CAPACITY = 0 \/ r.truncated \/ r.size = "huge" \/ Lifetime(r) = 0 THEN cache
      ELSE [entries |-> [k \in DOMAIN room.entries \cup {key} |->
                           IF k = key THEN entry ELSE room.entries[k]],
            order |-> Append(room.order, key)]
=============================================================================
