-------------------------------- MODULE Paging --------------------------------
(***************************************************************************)
(* From the compiler to the extension: persist_snapshot cuts each kind of  *)
(* items into pages that fit a native message, page_at looks a page up by  *)
(* its offset, and the client's refresh puts the pages together again,     *)
(* checking every number it is told.                                       *)
(*                                                                         *)
(* One process writes, and one client reads after it; what concurrent runs *)
(* do to the files is in SnapshotStore.                                    *)
(***************************************************************************)
EXTENDS Integers, Sequences, Compilation

CONSTANTS
  Item,                \* what the compiler may emit
  PageBytes(_),        \* length of a page, serialized, with the given items
  ValidItem(_, _),     \* whether the client accepts an item of a kind
  MAX_PAGE_ITEMS,      \* 128 in the code
  MAX_PAGE_BYTES,      \* 512 KiB
  HEADROOM,            \* 256: left for snapshotId and the protocol's envelope
  ENVELOPE,            \* 80: what snapshotId adds to a page
  MAX_SNAPSHOT_BYTES,  \* 64 MiB
  MAX_RECEIVED_BYTES   \* 25 MiB, less the manifest

ASSUME LimitAssumption ==
  /\ MAX_PAGE_ITEMS \in Nat \ {0}
  /\ {MAX_PAGE_BYTES, HEADROOM, MAX_SNAPSHOT_BYTES, MAX_RECEIVED_BYTES} \subseteq Nat
  /\ ENVELOPE \in 0 .. HEADROOM

VARIABLES
  step,         \* "new", "cut", "read", "done", "failed" or "rejected"
  kind,         \* index into Kinds
  offset,       \* of the page to be cut or asked for
  end,          \* where the page to be cut ends, as far as is known
  total_bytes,
  pages,        \* the index: set of [kind, offset, total, items, next]
  received,     \* receivedBytes
  got           \* kind -> items the client has

KindSet == {Kinds[i] : i \in 1 .. 3}

cutting == <<end, total_bytes, pages>>
reading == <<received, got>>
pagingVars == <<step, kind, offset, cutting, reading, compiled>>

NoOffset == -1

Current == Kinds[kind]
Items == compiled[Current]

Smaller(a, b) == IF a < b THEN a ELSE b
FirstEnd(from, items) == Smaller(from + MAX_PAGE_ITEMS, Len(items))

PagingInit ==
  /\ step = "new"
  /\ kind = 1 /\ offset = 0 /\ end = 0
  /\ total_bytes = 0 /\ pages = {}
  /\ received = 0 /\ got = [k \in KindSet |-> << >>]

\* The first kind's first page.
Begin ==
  /\ step = "new"
  /\ step' = "cut"
  /\ end' = FirstEnd(0, compiled[Kinds[1]])
  /\ UNCHANGED <<kind, offset, total_bytes, pages, reading, compiled>>

\* Mutant: a page that was halved keeps its last items.
PageLastHalf ==
  [kind |-> Current, offset |-> offset, total |-> Len(Items),
   items |-> LET full == FirstEnd(offset, Items)
             IN SubSeq(Items, full - (end - offset) + 1, full),
   next |-> IF end < Len(Items) THEN end ELSE NoOffset]

Page ==
  [kind |-> Current, offset |-> offset, total |-> Len(Items),
   items |-> SubSeq(Items, offset + 1, end),
   next |-> IF end < Len(Items) THEN end ELSE NoOffset]

Fits == PageBytes(Page.items) + HEADROOM <= MAX_PAGE_BYTES

\* Half of the items, as long as there is more than one.
Shrink ==
  /\ step = "cut" /\ ~Fits
  /\ end > offset + 1
  /\ end' = offset + (end - offset) \div 2
  /\ UNCHANGED <<step, kind, offset, total_bytes, pages, reading, compiled>>

\* One item does not fit, or all pages together do not: nothing is committed.
Overflows == total_bytes + PageBytes(Page.items) > MAX_SNAPSHOT_BYTES

TooLarge ==
  /\ step = "cut"
  /\ IF Fits THEN Overflows ELSE end <= offset + 1
  /\ step' = "failed"
  /\ UNCHANGED <<kind, offset, cutting, reading, compiled>>

\* The page is written; the next one begins where it ends, or the next kind.
WritePage ==
  /\ step = "cut" /\ Fits /\ ~Overflows
  /\ total_bytes' = total_bytes + PageBytes(Page.items)
  /\ pages' = pages \cup {Page}
  /\ IF end < Len(Items)
       THEN /\ offset' = end /\ end' = FirstEnd(end, Items)
            /\ UNCHANGED <<step, kind>>
       ELSE /\ offset' = 0
            /\ IF kind < 3
                 THEN /\ kind' = kind + 1 /\ end' = FirstEnd(0, compiled[Kinds[kind + 1]])
                      /\ UNCHANGED step
                 ELSE kind' = 1 /\ end' = 0 /\ step' = "read"
  /\ UNCHANGED <<reading, compiled>>

\* page_at: the page of the index that begins at the offset.
Stored == {p \in pages : p.kind = Current /\ p.offset = offset}

\* What page_at verifies of the page, whose file has the digest of the index.
Served(p) ==
  /\ Len(p.items) <= MAX_PAGE_ITEMS
  /\ offset + Len(p.items) <= p.total
  /\ Len(p.items) = 0 => p.total = 0
  /\ p.next = IF offset + Len(p.items) < p.total THEN offset + Len(p.items) ELSE NoOffset

\* What the client verifies; total is the manifest's count of the kind.
Accepted(p, total) ==
  LET next == offset + Len(p.items)
  IN /\ p.kind = Current /\ p.offset = offset /\ p.total = total
     /\ Len(p.items) <= MAX_PAGE_ITEMS
     /\ PageBytes(p.items) + ENVELOPE <= MAX_PAGE_BYTES
     /\ next <= total
     /\ next < total => Len(p.items) > 0 /\ p.next = next
     /\ next = total => p.next = NoOffset
     /\ \A i \in 1 .. Len(p.items) : ValidItem(Current, p.items[i])

Fetched(p) == received + PageBytes(p.items) + ENVELOPE

\* A page is added; the last one of the last kind ends the refresh.
Receive ==
  /\ step = "read"
  /\ \E p \in Stored :
       /\ Served(p) /\ Accepted(p, Len(Items)) /\ Fetched(p) <= MAX_RECEIVED_BYTES
       /\ received' = Fetched(p)
       /\ got' = [got EXCEPT ![Current] = @ \o p.items]
       /\ IF p.next # NoOffset
            THEN offset' = p.next /\ UNCHANGED <<step, kind>>
            ELSE /\ offset' = 0
                 /\ IF kind < 3 THEN kind' = kind + 1 /\ UNCHANGED step
                                ELSE kind' = 1 /\ step' = "done"
  /\ UNCHANGED <<cutting, compiled>>

\* Any other answer makes the client give the refresh up.
RejectPage ==
  /\ step = "read"
  /\ ~\E p \in Stored :
        Served(p) /\ Accepted(p, Len(Items)) /\ Fetched(p) <= MAX_RECEIVED_BYTES
  /\ step' = "rejected"
  /\ UNCHANGED <<kind, offset, cutting, reading, compiled>>

PagingNext == Begin \/ Shrink \/ TooLarge \/ WritePage \/ Receive \/ RejectPage

\* Any result the compiler may hand on.
PagingSpec ==
  PagingInit /\ compiled \in [KindSet -> Seq(Item)] /\ [][PagingNext]_pagingVars

-----------------------------------------------------------------------------
(* A refresh that succeeds leaves the client with the compiler's items, all  *)
(* of them, once each and in their order, however they had to be cut.        *)
AssembledWhole == step = "done" => got = compiled

(* The client finds fault with no snapshot the companion has written but     *)
(* for its total size: each page is found where the one before it ends, and  *)
(* passes every check.                                                       *)
RejectedForSizeOnly ==
  step = "rejected" =>
    \E p \in Stored :
      Served(p) /\ Accepted(p, Len(Items)) /\ Fetched(p) > MAX_RECEIVED_BYTES

(* What has been committed can be read back.                                 *)
ReadBack == AssembledWhole /\ RejectedForSizeOnly
=============================================================================
