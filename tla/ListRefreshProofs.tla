--------------------------- MODULE ListRefreshProofs ---------------------------
(***************************************************************************)
(* What is proved of a refresh of the lists, from their lines to the items *)
(* the client has: of the compiler, for lists of any lines, length and     *)
(* order; of the pages, for items and limits of any number and size; and   *)
(* of both together.                                                       *)
(*                                                                         *)
(* What the compiler has gathered is, whatever the order of the lines, the *)
(* union of what each of them adds.  So a line and the rule it stands for  *)
(* can be compared where both are: in the result.                          *)
(***************************************************************************)
EXTENDS ListRefresh, FiniteSetTheorems, SequenceTheorems, WellFoundedInduction, TLAPS

-----------------------------------------------------------------------------
(* Sequences. *)

LEMMA Least ==
  ASSUME NEW X \in SUBSET Nat, X # {}
  PROVE  \E x \in X : \A y \in X : x <= y
<1> DEFINE R == OpToRel(<, Nat)
<1>1. \A x, y \in Nat : x < y => <<x, y>> \in R BY DEF OpToRel
<1>2. IsWellFoundedOn(R, Nat) BY NatLessThanWellFounded
<1> HIDE DEF R
<1>3. PICK x \in X : \A y \in X : ~(<<y, x>> \in R) BY <1>2, WFMin
<1>4. \A y \in X : ~(y < x) BY <1>1, <1>3
<1> QED BY <1>3, <1>4

LEMMA Induction ==
  ASSUME NEW S, 0 \in S, \A n \in Nat : n \in S => n + 1 \in S
  PROVE  Nat \subseteq S
<1> SUFFICES ASSUME Nat \ S # {} PROVE FALSE OBVIOUS
<1>1. PICK x \in Nat \ S : \A y \in Nat \ S : x <= y BY Least
<1>2. x # 0 /\ x - 1 \in Nat BY <1>1
<1>3. x - 1 \in S BY <1>1, <1>2
<1> QED BY <1>1, <1>2, <1>3

\* A first value and a step make a function.
Steps(G, V, N) == \A v \in V, n \in 1 .. N : G[v][n] \in V
Iterates(f, G, V, b, N) ==
  f \in [0 .. N -> V] /\ f[0] = b /\ \A n \in 1 .. N : f[n] = G[f[n - 1]][n]

LEMMA Recursion ==
  ASSUME NEW V, NEW b \in V, NEW N \in Nat, NEW G, Steps(G, V, N)
  PROVE  \E f : Iterates(f, G, V, b, N)
<1> USE DEF Steps
<1> DEFINE Upto(k) == \E f \in [0 .. k -> V] :
                        \A n \in 0 .. k : f[n] = IF n = 0 THEN b ELSE G[f[n - 1]][n]
           S == {k \in Nat : k <= N => Upto(k)}
<1>1. 0 \in S
  <2> DEFINE f == [n \in 0 .. 0 |-> b]
  <2>1. f \in [0 .. 0 -> V] /\ \A n \in 0 .. 0 : f[n] = b /\ n = 0 OBVIOUS
  <2> HIDE DEF f
  <2>2. Upto(0) BY <2>1
  <2> QED BY <2>2
<1>2. ASSUME NEW k \in Nat, k \in S PROVE k + 1 \in S
  <2> SUFFICES ASSUME k + 1 <= N PROVE Upto(k + 1) OBVIOUS
  <2>1. PICK f \in [0 .. k -> V] : \A n \in 0 .. k : f[n] = IF n = 0 THEN b ELSE G[f[n - 1]][n]
    BY <1>2
  <2> DEFINE g == [n \in 0 .. k + 1 |-> IF n = k + 1 THEN G[f[k]][k + 1] ELSE f[n]]
  <2>2. g \in [0 .. k + 1 -> V] BY <2>1
  <2>3. \A n \in 0 .. k + 1 : g[n] = IF n = 0 THEN b ELSE G[g[n - 1]][n]
    <3> SUFFICES ASSUME NEW n \in 0 .. k + 1 PROVE g[n] = IF n = 0 THEN b ELSE G[g[n - 1]][n]
      OBVIOUS
    <3>1. CASE n = k + 1
      <4>1. g[n] = G[f[k]][n] /\ n # 0 /\ n - 1 = k BY <3>1
      <4>2. g[k] = f[k] OBVIOUS
      <4> QED BY <4>1, <4>2
    <3>2. CASE n # k + 1
      <4>1. n \in 0 .. k /\ g[n] = f[n] BY <3>2
      <4>2. n # 0 => g[n - 1] = f[n - 1] BY <4>1
      <4> HIDE DEF g
      <4> QED BY <2>1, <4>1, <4>2
    <3> QED BY <3>1, <3>2
  <2> HIDE DEF g
  <2> QED BY <2>2, <2>3
<1> HIDE DEF S
<1>3. N \in S BY <1>1, <1>2, Induction
<1>4. PICK f \in [0 .. N -> V] : \A n \in 0 .. N : f[n] = IF n = 0 THEN b ELSE G[f[n - 1]][n]
  <2> HIDE DEF Upto
  <2>1. Upto(N) BY <1>3 DEF S
  <2> QED BY <2>1 DEF Upto
<1>5. f[0] = b
  <2>1. 0 \in 0 .. N OBVIOUS
  <2> QED BY <1>4, <2>1
<1>6. \A n \in 1 .. N : f[n] = G[f[n - 1]][n]
  <2>1. \A n \in 1 .. N : n \in 0 .. N /\ n # 0 OBVIOUS
  <2> QED BY <1>4, <2>1
<1> QED BY <1>4, <1>5, <1>6 DEF Iterates

-----------------------------------------------------------------------------
(* Cutting and reading pages. *)

\* Whatever was compiled, and whether the client takes it for valid.
Things == UNION {ToSet(compiled[k]) : k \in KindSet}
Acceptable ==
  /\ \A s \in Seq(Things) : PageBytes(s) \in Nat
  /\ \A k \in KindSet : \A i \in 1 .. Len(compiled[k]) : ValidItem(k, compiled[k][i])

Total(k) == Len(compiled[k])

TypeOK ==
  /\ step \in {"new", "cut", "read", "done", "failed", "rejected"}
  /\ kind \in 1 .. 3 /\ offset \in Nat /\ end \in Nat
  /\ compiled \in [KindSet -> Seq(Things)]
  /\ got \in [KindSet -> Seq(Things)]

\* The page to be cut: of the right size, and empty only if there is nothing to cut.
CutOK ==
  step = "cut" =>
    /\ offset <= end /\ end <= Len(Items) /\ end - offset <= MAX_PAGE_ITEMS
    /\ offset = end => Len(Items) = 0
    /\ got = [k \in KindSet |-> << >>]

\* A page of the index holds the items from its offset on, and leads to the next ones.
PageOK(p) ==
  /\ p.kind \in KindSet /\ p.offset \in Nat /\ p.next \in Nat \cup {NoOffset}
  /\ p.items \in Seq(Things) /\ p.total = Total(p.kind)
  /\ p.offset + Len(p.items) <= p.total
  /\ p.items = SubSeq(compiled[p.kind], p.offset + 1, p.offset + Len(p.items))
  /\ p.next = IF p.offset + Len(p.items) < p.total THEN p.offset + Len(p.items) ELSE NoOffset
  /\ Len(p.items) = 0 => p.total = 0
  /\ Len(p.items) <= MAX_PAGE_ITEMS
  /\ PageBytes(p.items) + HEADROOM <= MAX_PAGE_BYTES

IndexOK == \A p \in pages : PageOK(p)

\* What has been read: all of the kinds before k, k up to o, and nothing of the rest.
ReadSoFar(g, k, o) ==
  \A j \in 1 .. 3 :
    g[Kinds[j]] = IF j < k THEN compiled[Kinds[j]]
                  ELSE IF j = k THEN SubSeq(compiled[Kinds[j]], 1, o)
                  ELSE << >>

ReadOK ==
  /\ step \in {"read", "rejected"} => ReadSoFar(got, kind, offset)
  /\ step = "new" => kind = 1 /\ offset = 0 /\ pages = {} /\ got = [k \in KindSet |-> << >>]

WholeInv == TypeOK /\ CutOK /\ IndexOK /\ ReadOK /\ AssembledWhole
-----------------------------------------------------------------------------
LEMMA KindFacts ==
  /\ \A j \in 1 .. 3 : Kinds[j] \in KindSet
  /\ \A k \in KindSet : \E j \in 1 .. 3 : k = Kinds[j]
  /\ \A i, j \in 1 .. 3 : Kinds[i] = Kinds[j] => i = j
<1>1. \A j \in 1 .. 3 : j = 1 \/ j = 2 \/ j = 3 OBVIOUS
<1> QED BY <1>1 DEF Kinds, KindSet

LEMMA FirstEndBounds ==
  ASSUME NEW from \in Nat, NEW items \in Seq(Things), from <= Len(items)
  PROVE  /\ FirstEnd(from, items) \in Nat
         /\ from <= FirstEnd(from, items) /\ FirstEnd(from, items) <= Len(items)
         /\ FirstEnd(from, items) - from <= MAX_PAGE_ITEMS
         /\ from = FirstEnd(from, items) => from = Len(items)
BY LimitAssumption DEF FirstEnd, Smaller

LEMMA PagePieces ==
  ASSUME NEW s \in Seq(Things), NEW m \in Nat, NEW n \in Nat, m <= n, n <= Len(s)
  PROVE  /\ SubSeq(s, m + 1, n) \in Seq(Things)
         /\ Len(SubSeq(s, m + 1, n)) = n - m
         /\ SubSeq(s, 1, m) \o SubSeq(s, m + 1, n) = SubSeq(s, 1, n)
<1>1. \A i \in (m + 1) .. n : s[i] \in Things
  OBVIOUS
<1>2. SubSeq(s, m + 1, n) \in Seq(Things) /\ Len(SubSeq(s, m + 1, n)) = n - m
  BY <1>1, SubSeqProperties
<1>3. SubSeq(s, 1, m) \o SubSeq(s, m + 1, n) = SubSeq(s, 1, n)
  BY ConcatAdjacentSubSeq
<1> QED BY <1>2, <1>3

LEMMA WholeInit ==
  ASSUME PagingInit, compiled \in [KindSet -> Seq(Things)]
  PROVE  WholeInv
<1>1. << >> \in Seq(Things) OBVIOUS
<1> QED
  BY <1>1 DEF PagingInit, WholeInv, TypeOK, CutOK, IndexOK, ReadOK, AssembledWhole

\* The page that is cut next is one the index may hold.
LEMMA PageGood ==
  ASSUME TypeOK, CutOK, step = "cut", Fits
  PROVE  PageOK(Page)
<1>1. Current \in KindSet /\ Items \in Seq(Things) BY KindFacts DEF TypeOK, Current, Items
<1>2. offset <= end /\ end <= Len(Items) /\ offset \in Nat /\ end \in Nat
  BY DEF TypeOK, CutOK
<1>3. Page.items \in Seq(Things) /\ Len(Page.items) = end - offset
  BY <1>1, <1>2, PagePieces DEF Page
<1>4. /\ Page.kind = Current /\ Page.offset = offset /\ Page.total = Len(Items)
      /\ Page.items = SubSeq(Items, offset + 1, end)
      /\ Page.next = IF end < Len(Items) THEN end ELSE NoOffset
  BY DEF Page
<1>5. offset + Len(Page.items) = end BY <1>2, <1>3
<1>6. Page.next \in Nat \cup {NoOffset} BY <1>2, <1>4
<1>7. Len(Page.items) = 0 => Page.total = 0
  BY <1>2, <1>3, <1>4 DEF CutOK
<1>8. Len(Page.items) <= MAX_PAGE_ITEMS
  BY <1>3 DEF CutOK
<1>9. PageBytes(Page.items) + HEADROOM <= MAX_PAGE_BYTES BY DEF Fits
<1>10. Page.total = Total(Page.kind) BY <1>4 DEF Total, Items
<1>11. Page.offset + Len(Page.items) <= Page.total BY <1>2, <1>4, <1>5
<1>12. Page.items = SubSeq(compiled[Page.kind], Page.offset + 1, Page.offset + Len(Page.items))
  BY <1>4, <1>5 DEF Items
<1>13. Page.next = IF Page.offset + Len(Page.items) < Page.total
                     THEN Page.offset + Len(Page.items) ELSE NoOffset
  BY <1>4, <1>5
<1> QED
  BY <1>1, <1>3, <1>4, <1>6, <1>7, <1>8, <1>9, <1>10, <1>11, <1>12, <1>13, <1>2 DEF PageOK

\* The index speaks of the compiled items only.
LEMMA IndexKept ==
  ASSUME IndexOK, compiled' = compiled, pages' = pages
  PROVE  IndexOK'
BY DEF IndexOK, PageOK, Total, Things

LEMMA BeginKeeps ==
  ASSUME WholeInv, Begin
  PROVE  WholeInv'
<1>1. kind = 1 /\ offset = 0 /\ pages = {} /\ got = [k \in KindSet |-> << >>]
  BY DEF WholeInv, ReadOK, Begin
<1>2. Kinds[1] \in KindSet BY KindFacts
<1>3. compiled[Kinds[1]] \in Seq(Things) BY <1>2 DEF WholeInv, TypeOK
<1>4. /\ end' \in Nat /\ 0 <= end' /\ end' <= Total(Kinds[1]) /\ end' - 0 <= MAX_PAGE_ITEMS
      /\ end' = 0 => Total(Kinds[1]) = 0
  BY <1>3, FirstEndBounds DEF Begin, Total
<1>5. TypeOK' BY <1>4 DEF Begin, reading, WholeInv, TypeOK, Things
<1>6. CutOK' BY <1>1, <1>4 DEF Begin, reading, CutOK, Current, Items, Total
<1>7. IndexOK' BY IndexKept DEF Begin, WholeInv
<1>8. ReadOK' /\ AssembledWhole' BY DEF Begin, ReadOK, AssembledWhole
<1> QED BY <1>5, <1>6, <1>7, <1>8 DEF WholeInv

LEMMA ShrinkKeeps ==
  ASSUME WholeInv, Shrink
  PROVE  WholeInv'
<1>1. offset \in Nat /\ end \in Nat BY DEF WholeInv, TypeOK
<1>2. end' \in Nat /\ offset < end' /\ end' < end
  BY <1>1 DEF Shrink
<1>3. TypeOK' BY <1>2 DEF Shrink, reading, WholeInv, TypeOK, Things
<1>4. CutOK'
  <2>1. end <= Len(Items) /\ end - offset <= MAX_PAGE_ITEMS
          /\ got = [k \in KindSet |-> << >>]
    BY DEF WholeInv, CutOK, Shrink
  <2>2. Items \in Seq(Things) BY KindFacts DEF WholeInv, TypeOK, Current, Items
  <2>3. Len(Items) \in Nat /\ MAX_PAGE_ITEMS \in Nat BY <2>2, LimitAssumption
  <2>4. offset <= end' /\ end' <= Len(Items) /\ end' - offset <= MAX_PAGE_ITEMS /\ offset # end'
    <3>1. \A o, e, f, n, m \in Nat :
            o < f /\ f < e /\ e <= n /\ e - o <= m =>
              o <= f /\ f <= n /\ f - o <= m /\ o # f
      OBVIOUS
    <3> QED BY <1>1, <1>2, <2>1, <2>3, <3>1
  <2>5. offset' = offset /\ got' = got /\ Items' = Items
    BY DEF Shrink, reading, Items, Current
  <2> QED BY <2>1, <2>4, <2>5 DEF CutOK
<1>5. IndexOK' BY IndexKept DEF Shrink, WholeInv
<1>6. ReadOK' /\ AssembledWhole' BY DEF Shrink, ReadOK, AssembledWhole
<1> QED BY <1>3, <1>4, <1>5, <1>6 DEF WholeInv

LEMMA TooLargeKeeps ==
  ASSUME WholeInv, TooLarge
  PROVE  WholeInv'
<1>1. TypeOK' BY DEF TooLarge, cutting, reading, WholeInv, TypeOK, Things
<1>2. CutOK' /\ ReadOK' /\ AssembledWhole' BY DEF TooLarge, CutOK, ReadOK, AssembledWhole
<1>3. IndexOK' BY IndexKept DEF TooLarge, cutting, WholeInv
<1> QED BY <1>1, <1>2, <1>3 DEF WholeInv

\* Nothing has been read when the client starts.
LEMMA NothingRead ==
  ASSUME NEW g, \A k \in KindSet : g[k] = << >>
  PROVE  ReadSoFar(g, 1, 0)
<1>1. \A j \in 1 .. 3 : g[Kinds[j]] = << >> BY KindFacts
<1>2. \A j \in 1 .. 3 : SubSeq(compiled[Kinds[j]], 1, 0) = << >> BY SubSeqEmpty
<1>3. SUFFICES ASSUME NEW j \in 1 .. 3
               PROVE  g[Kinds[j]] = IF j < 1 THEN compiled[Kinds[j]]
                                    ELSE IF j = 1 THEN SubSeq(compiled[Kinds[j]], 1, 0)
                                    ELSE << >>
  BY DEF ReadSoFar
<1>4. ~(j < 1) OBVIOUS
<1> QED BY <1>1, <1>2, <1>4

\* The page to be cut next, wherever it begins.
LEMMA NextCut ==
  ASSUME TypeOK, kind' \in 1 .. 3, offset' \in Nat, compiled' = compiled,
         got' = [k \in KindSet |-> << >>],
         offset' <= Len(compiled[Kinds[kind']]),
         offset' = Len(compiled[Kinds[kind']]) => offset' = 0,
         end' = FirstEnd(offset', compiled[Kinds[kind']])
  PROVE  end' \in Nat /\ CutOK'
<1> DEFINE all == compiled[Kinds[kind']]
<1>1. all \in Seq(Things) BY KindFacts DEF TypeOK
<1>2. /\ end' \in Nat /\ offset' <= end' /\ end' <= Len(all)
      /\ end' - offset' <= MAX_PAGE_ITEMS
      /\ offset' = end' => offset' = Len(all)
  BY <1>1, FirstEndBounds
<1>3. Items' = all BY DEF Items, Current
<1> HIDE DEF all
<1>4. offset' = end' => Len(all) = 0 BY <1>2 DEF all
<1> QED BY <1>2, <1>3, <1>4 DEF CutOK

LEMMA WritePageKeeps ==
  ASSUME WholeInv, WritePage
  PROVE  WholeInv'
<1>1. /\ step = "cut" /\ compiled' = compiled /\ pages' = pages \cup {Page}
      /\ got' = got /\ Fits
  BY DEF WritePage, reading
<1>2. TypeOK /\ CutOK /\ IndexOK BY DEF WholeInv
<1>3. got = [k \in KindSet |-> << >>] BY <1>1, <1>2 DEF CutOK
<1>4. PageOK(Page) BY <1>1, <1>2, PageGood
<1>5. \A p \in pages' : PageOK(p) BY <1>1, <1>2, <1>4 DEF IndexOK
<1>6. IndexOK' BY <1>1, <1>5 DEF IndexOK, PageOK, Total, Things
<1>7. Items \in Seq(Things) /\ Len(Items) \in Nat
  BY <1>2, KindFacts DEF TypeOK, Current, Items
<1>8. kind \in 1 .. 3 /\ offset \in Nat /\ end \in Nat BY <1>2 DEF TypeOK
<1>9. CASE end < Len(Items)
  <2>1. step' = "cut" /\ kind' = kind /\ offset' = end /\ end' = FirstEnd(end, Items)
    BY <1>1, <1>9 DEF WritePage
  <2>2. end' \in Nat /\ CutOK'
    BY <1>1, <1>2, <1>3, <1>7, <1>8, <1>9, <2>1, NextCut DEF Items, Current
  <2>3. TypeOK' BY <1>1, <1>2, <1>8, <2>1, <2>2 DEF TypeOK, Things
  <2>4. ReadOK' /\ AssembledWhole' BY <2>1 DEF ReadOK, AssembledWhole
  <2> QED BY <1>6, <2>2, <2>3, <2>4 DEF WholeInv
<1>10. CASE ~(end < Len(Items)) /\ kind < 3
  <2>1. /\ step' = "cut" /\ kind' = kind + 1 /\ offset' = 0
        /\ end' = FirstEnd(0, compiled[Kinds[kind + 1]])
    BY <1>1, <1>10 DEF WritePage
  <2>2. kind' \in 1 .. 3 BY <1>8, <1>10, <2>1
  <2>3. compiled[Kinds[kind']] \in Seq(Things) BY <1>2, <2>2, KindFacts DEF TypeOK
  <2>4. 0 <= Len(compiled[Kinds[kind']]) BY <2>3
  <2>5. end' \in Nat /\ CutOK'
    BY <1>1, <1>2, <1>3, <2>1, <2>2, <2>4, NextCut
  <2>6. TypeOK' BY <1>1, <1>2, <2>1, <2>2, <2>5 DEF TypeOK, Things
  <2>7. ReadOK' /\ AssembledWhole' BY <2>1 DEF ReadOK, AssembledWhole
  <2> QED BY <1>6, <2>5, <2>6, <2>7 DEF WholeInv
<1>11. CASE ~(end < Len(Items)) /\ ~(kind < 3)
  <2>1. step' = "read" /\ kind' = 1 /\ offset' = 0 /\ end' = 0
    BY <1>1, <1>11 DEF WritePage
  <2>2. TypeOK' BY <1>1, <1>2, <2>1 DEF TypeOK, Things
  <2>3. CutOK' /\ AssembledWhole' BY <2>1 DEF CutOK, AssembledWhole
  <2>4. ReadSoFar(got', 1, 0) BY <1>1, <1>3, NothingRead
  <2>5. ReadOK' BY <1>1, <2>1, <2>4 DEF ReadOK, ReadSoFar
  <2> QED BY <1>6, <2>2, <2>3, <2>5 DEF WholeInv
<1> QED BY <1>9, <1>10, <1>11

\* The page found at the offset continues what has been read of the kind.
LEMMA Continues ==
  ASSUME TypeOK, IndexOK, ReadSoFar(got, kind, offset), NEW p \in Stored
  PROVE  LET n == offset + Len(p.items)
         IN /\ n \in Nat /\ n <= Len(Items)
            /\ got[Current] \o p.items = SubSeq(Items, 1, n)
            /\ p.next = IF n < Len(Items) THEN n ELSE NoOffset
            /\ p.items \in Seq(Things)
<1> DEFINE n == offset + Len(p.items)
<1>1. p.kind = Current /\ p.offset = offset /\ PageOK(p) BY DEF Stored, IndexOK
<1>2. Items \in Seq(Things) /\ offset \in Nat BY KindFacts DEF TypeOK, Current, Items
<1>3. p.items \in Seq(Things) /\ Len(p.items) \in Nat BY <1>1 DEF PageOK
<1>4. p.total = Len(Items) BY <1>1 DEF PageOK, Total, Items
<1>5. n \in Nat /\ n <= Len(Items) /\ offset <= n BY <1>1, <1>2, <1>3, <1>4 DEF PageOK
<1>6. p.items = SubSeq(Items, offset + 1, n) BY <1>1 DEF PageOK, Items
<1>7. got[Current] = SubSeq(Items, 1, offset)
  <2>1. kind \in 1 .. 3 BY DEF TypeOK
  <2>2. \A j \in 1 .. 3 : j = kind => got[Kinds[j]] = SubSeq(compiled[Kinds[j]], 1, offset)
    <3>1. \A j \in 1 .. 3 : j = kind => ~(j < kind) BY <2>1
    <3> QED BY <3>1 DEF ReadSoFar
  <2> QED BY <2>1, <2>2 DEF Current, Items
<1>8. p.next = IF n < Len(Items) THEN n ELSE NoOffset BY <1>1, <1>4 DEF PageOK
<1> HIDE DEF n
<1>9. SubSeq(Items, 1, offset) \o SubSeq(Items, offset + 1, n) = SubSeq(Items, 1, n)
  BY <1>2, <1>5, PagePieces
<1>10. got[Current] \o p.items = SubSeq(Items, 1, n) BY <1>6, <1>7, <1>9
<1> QED BY <1>3, <1>5, <1>8, <1>10 DEF n

LEMMA ReceiveKeeps ==
  ASSUME WholeInv, Receive
  PROVE  WholeInv'
<1>1. step = "read" /\ compiled' = compiled /\ pages' = pages /\ end' = end
  BY DEF Receive, cutting
<1>2. TypeOK /\ IndexOK /\ ReadSoFar(got, kind, offset)
  BY <1>1 DEF WholeInv, ReadOK
<1>3. PICK p \in Stored :
        /\ got' = [got EXCEPT ![Current] = @ \o p.items]
        /\ IF p.next # NoOffset
             THEN offset' = p.next /\ UNCHANGED <<step, kind>>
             ELSE /\ offset' = 0
                  /\ IF kind < 3 THEN kind' = kind + 1 /\ UNCHANGED step
                                 ELSE kind' = 1 /\ step' = "done"
  BY DEF Receive
<1> DEFINE n == offset + Len(p.items)
<1>4. /\ n \in Nat /\ n <= Len(Items)
      /\ got[Current] \o p.items = SubSeq(Items, 1, n)
      /\ p.next = IF n < Len(Items) THEN n ELSE NoOffset
      /\ p.items \in Seq(Things)
  BY <1>2, Continues
<1> HIDE DEF n
<1>5. kind \in 1 .. 3 /\ Current \in KindSet /\ Items \in Seq(Things) /\ offset \in Nat
      /\ compiled \in [KindSet -> Seq(Things)] /\ got \in [KindSet -> Seq(Things)] /\ end \in Nat
  BY <1>2, KindFacts DEF TypeOK, Current, Items
<1>6. SubSeq(Items, 1, n) \in Seq(Things)
  <2>1. got[Current] \in Seq(Things) BY <1>5
  <2>2. \A s, t \in Seq(Things) : s \o t \in Seq(Things) OBVIOUS
  <2> QED BY <1>4, <2>1, <2>2
<1>7. got' = [got EXCEPT ![Current] = SubSeq(Items, 1, n)] BY <1>3, <1>4
<1>8. got' \in [KindSet -> Seq(Things)] BY <1>5, <1>6, <1>7
<1>9. \A j \in 1 .. 3 : got'[Kinds[j]] = IF j < kind THEN compiled[Kinds[j]]
                                       ELSE IF j = kind THEN SubSeq(Items, 1, n)
                                       ELSE << >>
  <2>1. SUFFICES ASSUME NEW j \in 1 .. 3
                 PROVE  got'[Kinds[j]] = IF j < kind THEN compiled[Kinds[j]]
                                         ELSE IF j = kind THEN SubSeq(Items, 1, n)
                                         ELSE << >>
    OBVIOUS
  <2>2. Kinds[j] \in KindSet /\ (Kinds[j] = Kinds[kind] => j = kind) BY <1>5, KindFacts
  <2>3. CASE j = kind BY <1>5, <1>7, <2>2, <2>3 DEF Current
  <2>4. CASE j # kind
    <3>1. got'[Kinds[j]] = got[Kinds[j]] BY <1>5, <1>7, <2>2, <2>4 DEF Current
    <3>2. got[Kinds[j]] = IF j < kind THEN compiled[Kinds[j]]
                          ELSE IF j = kind THEN SubSeq(compiled[Kinds[j]], 1, offset)
                          ELSE << >>
      BY <1>2 DEF ReadSoFar
    <3> QED BY <2>4, <3>1, <3>2
  <2> QED BY <2>3, <2>4
<1>10. IndexOK' BY <1>1, <1>2, IndexKept
<1>11. p.next = NoOffset => n = Len(Items) /\ SubSeq(Items, 1, n) = Items
  <2>1. SubSeq(Items, 1, Len(Items)) = Items BY <1>5, SubSeqFull
  <2>2. Len(Items) \in Nat BY <1>5
  <2>3. p.next = NoOffset => n = Len(Items) BY <1>4, <2>2 DEF NoOffset
  <2> QED BY <2>1, <2>3
<1>same. Things' = Things BY <1>1 DEF Things
<1>12. CASE p.next # NoOffset
  <2>1. offset' = n /\ kind' = kind /\ step' = "read" BY <1>1, <1>3, <1>4, <1>12
  <2>2. TypeOK' BY <1>1, <1>4, <1>5, <1>8, <2>1, <1>same DEF TypeOK
  <2>3. CutOK' /\ AssembledWhole' BY <2>1 DEF CutOK, AssembledWhole
  <2>4. ReadSoFar(got, kind, offset)' BY <1>1, <1>9, <2>1 DEF ReadSoFar, Items, Current
  <2>5. ReadOK' BY <2>1, <2>4 DEF ReadOK
  <2> QED BY <1>10, <2>2, <2>3, <2>5 DEF WholeInv
<1>13. CASE p.next = NoOffset /\ kind < 3
  <2>1. offset' = 0 /\ kind' = kind + 1 /\ step' = "read" BY <1>1, <1>3, <1>13
  <2>2. TypeOK' BY <1>1, <1>5, <1>8, <1>13, <2>1, <1>same DEF TypeOK
  <2>3. CutOK' /\ AssembledWhole' BY <2>1 DEF CutOK, AssembledWhole
  <2>4. \A j \in 1 .. 3 : SubSeq(compiled[Kinds[j]], 1, 0) = << >> BY SubSeqEmpty
  <2>5. \A j \in 1 .. 3 : got'[Kinds[j]] = IF j < kind + 1 THEN compiled[Kinds[j]]
                                         ELSE IF j = kind + 1
                                           THEN SubSeq(compiled[Kinds[j]], 1, 0)
                                         ELSE << >>
    <3>1. SUFFICES ASSUME NEW j \in 1 .. 3
                   PROVE  got'[Kinds[j]] = IF j < kind + 1 THEN compiled[Kinds[j]]
                                           ELSE IF j = kind + 1
                                             THEN SubSeq(compiled[Kinds[j]], 1, 0)
                                           ELSE << >>
      OBVIOUS
    <3>2. kind \in Nat /\ j \in Nat BY <1>5
    <3>3. CASE j = kind
      <4>1. j < kind + 1 /\ ~(j < kind) BY <3>2, <3>3
      <4>2. got'[Kinds[j]] = SubSeq(Items, 1, n) BY <1>9, <3>3, <4>1
      <4>3. Items = compiled[Kinds[j]] BY <3>3 DEF Items, Current
      <4> QED BY <1>11, <1>13, <4>1, <4>2, <4>3
    <3>4. CASE j < kind
      <4>1. j < kind + 1 BY <3>2, <3>4
      <4> QED BY <1>9, <3>4, <4>1
    <3>5. CASE j > kind
      <4>1. ~(j < kind) /\ j # kind /\ ~(j < kind + 1) BY <3>2, <3>5
      <4>2. got'[Kinds[j]] = << >> BY <1>9, <4>1
      <4> QED BY <2>4, <4>1, <4>2
    <3> QED BY <3>2, <3>3, <3>4, <3>5
  <2>6. ReadSoFar(got, kind, offset)' BY <1>1, <2>1, <2>5 DEF ReadSoFar
  <2>7. ReadOK' BY <2>1, <2>6 DEF ReadOK
  <2> QED BY <1>10, <2>2, <2>3, <2>7 DEF WholeInv
<1>14. CASE p.next = NoOffset /\ ~(kind < 3)
  <2>1. offset' = 0 /\ kind' = 1 /\ step' = "done" BY <1>3, <1>14
  <2>2. kind = 3 BY <1>5, <1>14
  <2>3. TypeOK' BY <1>1, <1>5, <1>8, <2>1, <1>same DEF TypeOK
  <2>4. CutOK' /\ ReadOK' BY <2>1 DEF CutOK, ReadOK
  <2>5. \A j \in 1 .. 3 : got'[Kinds[j]] = compiled[Kinds[j]]
    <3>1. SUFFICES ASSUME NEW j \in 1 .. 3 PROVE got'[Kinds[j]] = compiled[Kinds[j]]
      OBVIOUS
    <3>2. CASE j = kind BY <1>5, <1>9, <1>11, <1>14, <3>2 DEF Items, Current
    <3>3. CASE j # kind
      <4>1. j < kind BY <2>2, <3>3
      <4> QED BY <1>9, <4>1
    <3> QED BY <3>2, <3>3
  <2>6. \A k \in KindSet : got'[k] = compiled[k] BY <2>5, KindFacts
  <2>7. got' = compiled BY <1>5, <1>8, <2>6
  <2>8. AssembledWhole' BY <1>1, <2>7 DEF AssembledWhole
  <2> QED BY <1>10, <2>3, <2>4, <2>8 DEF WholeInv
<1> QED BY <1>12, <1>13, <1>14

LEMMA RejectKeeps ==
  ASSUME WholeInv, RejectPage
  PROVE  WholeInv'
<1>1. /\ step = "read" /\ step' = "rejected" /\ compiled' = compiled /\ pages' = pages
      /\ kind' = kind /\ offset' = offset /\ got' = got /\ end' = end
  BY DEF RejectPage, cutting, reading
<1>2. TypeOK' BY <1>1 DEF WholeInv, TypeOK, Things
<1>3. CutOK' /\ AssembledWhole' BY <1>1 DEF CutOK, AssembledWhole
<1>4. IndexOK' BY <1>1, IndexKept DEF WholeInv
<1>5. ReadOK' BY <1>1 DEF WholeInv, ReadOK, ReadSoFar
<1> QED BY <1>2, <1>3, <1>4, <1>5 DEF WholeInv

LEMMA WholeStutters ==
  ASSUME WholeInv, UNCHANGED pagingVars
  PROVE  WholeInv'
<1>1. TypeOK' BY DEF WholeInv, TypeOK, Things, pagingVars, cutting, reading
<1>2. CutOK' BY DEF WholeInv, CutOK, Items, Current, pagingVars, cutting, reading
<1>3. IndexOK' BY IndexKept DEF WholeInv, pagingVars, cutting
<1>4. ReadOK' BY DEF WholeInv, ReadOK, ReadSoFar, pagingVars, cutting, reading
<1>5. AssembledWhole' BY DEF WholeInv, AssembledWhole, pagingVars, reading
<1> QED BY <1>1, <1>2, <1>3, <1>4, <1>5 DEF WholeInv

LEMMA WholeStep ==
  ASSUME WholeInv, [PagingNext]_pagingVars
  PROVE  WholeInv'
BY BeginKeeps, ShrinkKeeps, TooLargeKeeps, WritePageKeeps, ReceiveKeeps, RejectKeeps,
   WholeStutters DEF PagingNext

-----------------------------------------------------------------------------
(* What is written can be read back, if it is acceptable.                  *)

PageIn(index, k, from) == \E p \in index : p.kind = k /\ p.offset = from

\* Where a page leads there is a page, or one is being cut.
LinkedOK ==
  step \in {"cut", "read", "rejected"} =>
    \A p \in pages :
      p.next # NoOffset =>
        PageIn(pages, p.kind, p.next) \/ (step = "cut" /\ p.kind = Current /\ p.next = offset)

\* A kind that has been cut, or begun to be, has a first page.
FirstOK ==
  \A j \in 1 .. 3 :
    \/ step = "cut" /\ (j < kind \/ (j = kind /\ offset # 0))
    \/ step \in {"read", "rejected"}
    => PageIn(pages, Kinds[j], 0)

\* The page that is asked for exists.
FoundOK ==
  /\ received \in Nat
  /\ step \in {"read", "rejected"} => PageIn(pages, Current, offset)

LinkInv == WholeInv /\ LinkedOK /\ FirstOK /\ FoundOK /\ RejectedForSizeOnly
-----------------------------------------------------------------------------
LEMMA LinkInit ==
  ASSUME PagingInit, compiled \in [KindSet -> Seq(Things)]
  PROVE  LinkInv
<1>1. WholeInv BY WholeInit
<1>2. step = "new" /\ received = 0 BY DEF PagingInit
<1> QED BY <1>1, <1>2 DEF LinkInv, LinkedOK, FirstOK, FoundOK, RejectedForSizeOnly

\* No page of the index fails a check, but for the size of all of them.
LEMMA AlwaysAcceptable ==
  ASSUME Acceptable, TypeOK, IndexOK, received \in Nat, NEW p \in Stored
  PROVE  Served(p) /\ Accepted(p, Len(Items)) /\ Fetched(p) \in Nat
<1>1. p.kind = Current /\ p.offset = offset /\ PageOK(p) BY DEF Stored, IndexOK
<1>2. Current \in KindSet /\ Items \in Seq(Things) /\ offset \in Nat
  BY KindFacts DEF TypeOK, Current, Items
<1>3. p.items \in Seq(Things) /\ Len(p.items) \in Nat /\ Len(Items) \in Nat BY <1>1, <1>2 DEF PageOK
<1>4. p.total = Len(Items) BY <1>1 DEF PageOK, Total, Items
<1>5. /\ offset + Len(p.items) <= p.total
      /\ p.next = IF offset + Len(p.items) < p.total THEN offset + Len(p.items) ELSE NoOffset
      /\ Len(p.items) = 0 => p.total = 0
      /\ Len(p.items) <= MAX_PAGE_ITEMS
      /\ PageBytes(p.items) + HEADROOM <= MAX_PAGE_BYTES
  BY <1>1 DEF PageOK
<1>6. Served(p) BY <1>5 DEF Served
<1>7. PageBytes(p.items) \in Nat BY <1>3 DEF Acceptable
<1>8. ENVELOPE \in Nat /\ HEADROOM \in Nat /\ ENVELOPE <= HEADROOM /\ MAX_PAGE_BYTES \in Nat
  BY LimitAssumption
<1>9. PageBytes(p.items) + ENVELOPE <= MAX_PAGE_BYTES BY <1>5, <1>7, <1>8
<1>10. ASSUME NEW i \in 1 .. Len(p.items) PROVE ValidItem(Current, p.items[i])
  <2> DEFINE n == offset + Len(p.items)
  <2>1. p.items = SubSeq(Items, offset + 1, n) /\ n <= Len(Items) /\ n \in Nat
    BY <1>1, <1>2, <1>3, <1>4, <1>5 DEF PageOK, Items
  <2>2. i \in Nat /\ i >= 1 /\ offset + i <= n /\ offset + i \in 1 .. Len(Items)
    BY <1>2, <1>3, <2>1
  <2> HIDE DEF n
  <2>3. SubSeq(Items, offset + 1, n)[i] = Items[offset + i]
    BY <1>2, <1>3, <2>1, <2>2
  <2> QED BY <1>2, <2>1, <2>2, <2>3 DEF Acceptable, Items
<1>11. offset + Len(p.items) < Len(Items) => Len(p.items) > 0
  BY <1>2, <1>3, <1>4, <1>5
<1>12. offset + Len(p.items) < Len(Items) => p.next = offset + Len(p.items)
  BY <1>4, <1>5
<1>13. offset + Len(p.items) = Len(Items) => p.next = NoOffset
  BY <1>3, <1>4, <1>5
<1>14. Accepted(p, Len(Items))
  BY <1>1, <1>4, <1>5, <1>9, <1>10, <1>11, <1>12, <1>13 DEF Accepted
<1>15. Fetched(p) \in Nat BY <1>7, <1>8 DEF Fetched
<1> QED BY <1>6, <1>14, <1>15

LEMMA BeginLinks ==
  ASSUME LinkInv, Begin
  PROVE  LinkInv'
<1>1. kind = 1 /\ offset = 0 /\ pages = {} BY DEF LinkInv, WholeInv, ReadOK, Begin
<1>2. step' = "cut" /\ kind' = 1 /\ offset' = 0 /\ pages' = {} /\ received' = received
  BY <1>1 DEF Begin, reading
<1>3. WholeInv' BY BeginKeeps DEF LinkInv
<1>4. LinkedOK' BY <1>2 DEF LinkedOK
<1>5. FirstOK'
  <2>1. \A j \in 1 .. 3 : ~(j < 1) OBVIOUS
  <2> QED BY <1>2, <2>1 DEF FirstOK
<1>6. FoundOK' /\ RejectedForSizeOnly' BY <1>2 DEF LinkInv, FoundOK, RejectedForSizeOnly
<1> QED BY <1>3, <1>4, <1>5, <1>6 DEF LinkInv

LEMMA ShrinkLinks ==
  ASSUME LinkInv, Shrink
  PROVE  LinkInv'
<1>1. /\ step = "cut" /\ step' = "cut" /\ kind' = kind /\ offset' = offset
      /\ pages' = pages /\ received' = received
  BY DEF Shrink, reading
<1>2. WholeInv' BY ShrinkKeeps DEF LinkInv
<1>3. LinkedOK' BY <1>1 DEF LinkInv, LinkedOK, PageIn, Current
<1>4. FirstOK' BY <1>1 DEF LinkInv, FirstOK, PageIn
<1>5. FoundOK' /\ RejectedForSizeOnly' BY <1>1 DEF LinkInv, FoundOK, RejectedForSizeOnly
<1> QED BY <1>2, <1>3, <1>4, <1>5 DEF LinkInv

LEMMA TooLargeLinks ==
  ASSUME LinkInv, TooLarge
  PROVE  LinkInv'
<1>1. step' = "failed" /\ received' = received BY DEF TooLarge, reading
<1>2. WholeInv' BY TooLargeKeeps DEF LinkInv
<1>3. LinkedOK' /\ FirstOK' BY <1>1 DEF LinkedOK, FirstOK
<1>4. FoundOK' /\ RejectedForSizeOnly' BY <1>1 DEF LinkInv, FoundOK, RejectedForSizeOnly
<1> QED BY <1>2, <1>3, <1>4 DEF LinkInv

LEMMA WritePageLinks ==
  ASSUME LinkInv, WritePage
  PROVE  LinkInv'
<1>1. step = "cut" /\ pages' = pages \cup {Page} /\ received' = received
  BY DEF WritePage, reading
<1>2. WholeInv' BY WritePageKeeps DEF LinkInv
<1>3. TypeOK /\ LinkedOK /\ FirstOK /\ FoundOK BY DEF LinkInv, WholeInv
<1>4. Page.kind = Current /\ Page.offset = offset
        /\ Page.next = IF end < Len(Items) THEN end ELSE NoOffset
  BY DEF Page
<1>5. \A k, from : PageIn(pages, k, from) => PageIn(pages', k, from) BY <1>1 DEF PageIn
<1>6. PageIn(pages', Current, offset) BY <1>1, <1>4 DEF PageIn
<1>7. kind \in 1 .. 3 /\ Kinds[kind] = Current BY <1>3 DEF TypeOK, Current
\* Every page written before leads to one in the index now.
<1>8. \A p \in pages : p.next # NoOffset => PageIn(pages', p.kind, p.next)
  BY <1>1, <1>3, <1>5, <1>6 DEF LinkedOK
\* The current kind and those before it have a first page now.
<1>9. \A j \in 1 .. 3 : j <= kind => PageIn(pages', Kinds[j], 0)
  <2>1. SUFFICES ASSUME NEW j \in 1 .. 3, j <= kind PROVE PageIn(pages', Kinds[j], 0)
    OBVIOUS
  <2>2. CASE j < kind BY <1>1, <1>3, <1>5, <2>2 DEF FirstOK
  <2>3. CASE j = kind /\ offset # 0 BY <1>1, <1>3, <1>5, <2>3 DEF FirstOK
  <2>4. CASE j = kind /\ offset = 0 BY <1>6, <1>7, <2>4
  <2> QED BY <1>7, <2>1, <2>2, <2>3, <2>4
<1>10. CASE end < Len(Items)
  <2>1. step' = "cut" /\ kind' = kind /\ offset' = end BY <1>1, <1>10 DEF WritePage
  <2>2. Current' = Current BY <2>1 DEF Current
  <2>3. LinkedOK' BY <1>1, <1>4, <1>8, <1>10, <2>1, <2>2 DEF LinkedOK
  <2>4. FirstOK'
    <3>1. \A j \in 1 .. 3 : j < kind \/ j = kind => j <= kind BY <1>7
    <3> QED BY <1>9, <2>1, <3>1 DEF FirstOK
  <2>5. FoundOK' /\ RejectedForSizeOnly' BY <1>1, <1>3, <2>1 DEF FoundOK, RejectedForSizeOnly
  <2> QED BY <1>2, <2>3, <2>4, <2>5 DEF LinkInv
<1>11. CASE ~(end < Len(Items)) /\ kind < 3
  <2>1. step' = "cut" /\ kind' = kind + 1 /\ offset' = 0 BY <1>1, <1>11 DEF WritePage
  <2>2. LinkedOK' BY <1>1, <1>4, <1>8, <1>11, <2>1 DEF LinkedOK
  <2>3. FirstOK'
    <3>1. \A j \in 1 .. 3 : j < kind + 1 => j <= kind BY <1>7
    <3> QED BY <1>9, <2>1, <3>1 DEF FirstOK
  <2>4. FoundOK' /\ RejectedForSizeOnly' BY <1>1, <1>3, <2>1 DEF FoundOK, RejectedForSizeOnly
  <2> QED BY <1>2, <2>2, <2>3, <2>4 DEF LinkInv
<1>12. CASE ~(end < Len(Items)) /\ ~(kind < 3)
  <2>1. step' = "read" /\ kind' = 1 /\ offset' = 0 BY <1>1, <1>12 DEF WritePage
  <2>2. LinkedOK' BY <1>1, <1>4, <1>8, <1>12, <2>1 DEF LinkedOK
  <2>3. \A j \in 1 .. 3 : PageIn(pages', Kinds[j], 0)
    <3>1. \A j \in 1 .. 3 : j <= kind BY <1>7, <1>12
    <3> QED BY <1>9, <3>1
  <2>4. FirstOK' BY <2>3 DEF FirstOK
  <2>5. PageIn(pages', Current', offset') BY <2>1, <2>3 DEF Current, PageIn
  <2>6. FoundOK' /\ RejectedForSizeOnly'
    BY <1>1, <1>3, <2>1, <2>5 DEF FoundOK, RejectedForSizeOnly
  <2> QED BY <1>2, <2>2, <2>4, <2>6 DEF LinkInv
<1> QED BY <1>10, <1>11, <1>12

LEMMA ReceiveLinks ==
  ASSUME LinkInv, Receive, Acceptable
  PROVE  LinkInv'
<1>1. step = "read" /\ pages' = pages BY DEF Receive, cutting
<1>2. WholeInv' BY ReceiveKeeps DEF LinkInv
<1>3. TypeOK /\ IndexOK /\ LinkedOK /\ FirstOK /\ FoundOK BY DEF LinkInv, WholeInv
<1>4. PICK p \in Stored :
        /\ received' = Fetched(p)
        /\ IF p.next # NoOffset
             THEN offset' = p.next /\ UNCHANGED <<step, kind>>
             ELSE /\ offset' = 0
                  /\ IF kind < 3 THEN kind' = kind + 1 /\ UNCHANGED step
                                 ELSE kind' = 1 /\ step' = "done"
  BY DEF Receive
<1>5. p \in pages /\ p.kind = Current BY DEF Stored
<1>6. received' \in Nat BY <1>3, <1>4, AlwaysAcceptable DEF FoundOK
<1>7. \A k, from : PageIn(pages, k, from) => PageIn(pages', k, from) BY <1>1 DEF PageIn
<1>8. step' \in {"read", "done"} BY <1>1, <1>4
<1>9. LinkedOK' BY <1>1, <1>3, <1>7, <1>8 DEF LinkedOK
<1>10. FirstOK' BY <1>1, <1>3, <1>7, <1>8 DEF FirstOK
<1>11. FoundOK'
  <2>1. CASE p.next # NoOffset
    <3>1. offset' = p.next /\ kind' = kind BY <1>4, <2>1
    <3>2. PageIn(pages', Current, p.next)
      BY <1>1, <1>3, <1>5, <1>7, <2>1 DEF LinkedOK, Current, PageIn
    <3> QED BY <1>6, <3>1, <3>2 DEF FoundOK, Current, PageIn
  <2>2. CASE p.next = NoOffset /\ kind < 3
    <3>1. offset' = 0 /\ kind' = kind + 1 BY <1>4, <2>2
    <3>2. kind + 1 \in 1 .. 3 BY <1>3, <2>2 DEF TypeOK
    <3>3. PageIn(pages, Kinds[kind + 1], 0) BY <1>1, <1>3, <3>2 DEF FirstOK
    <3> QED BY <1>1, <1>6, <3>1, <3>3 DEF FoundOK, Current, PageIn
  <2>3. CASE p.next = NoOffset /\ ~(kind < 3)
    <3>1. step' = "done" BY <1>4, <2>3
    <3> QED BY <1>6, <3>1 DEF FoundOK
  <2> QED BY <2>1, <2>2, <2>3
<1>12. RejectedForSizeOnly' BY <1>8 DEF RejectedForSizeOnly
<1> QED BY <1>2, <1>9, <1>10, <1>11, <1>12 DEF LinkInv

LEMMA RejectLinks ==
  ASSUME LinkInv, RejectPage, Acceptable
  PROVE  LinkInv'
<1>1. /\ step = "read" /\ step' = "rejected" /\ pages' = pages /\ received' = received
      /\ kind' = kind /\ offset' = offset /\ compiled' = compiled
  BY DEF RejectPage, cutting, reading
<1>2. WholeInv' BY RejectKeeps DEF LinkInv
<1>3. TypeOK /\ IndexOK /\ LinkedOK /\ FirstOK /\ FoundOK BY DEF LinkInv, WholeInv
<1>4. LinkedOK' BY <1>1, <1>3 DEF LinkedOK, PageIn
<1>5. FirstOK' BY <1>1, <1>3 DEF FirstOK, PageIn
<1>6. FoundOK' BY <1>1, <1>3 DEF FoundOK, PageIn, Current
<1>7. PICK p \in Stored : TRUE BY <1>1, <1>3 DEF FoundOK, PageIn, Stored
<1>8. Served(p) /\ Accepted(p, Len(Items)) /\ Fetched(p) \in Nat
  BY <1>3, AlwaysAcceptable DEF FoundOK
<1>9. ~(Fetched(p) <= MAX_RECEIVED_BYTES) BY <1>8 DEF RejectPage
<1>10. Fetched(p) > MAX_RECEIVED_BYTES BY <1>8, <1>9, LimitAssumption
<1>11. RejectedForSizeOnly'
  BY <1>1, <1>8, <1>10
  DEF RejectedForSizeOnly, Stored, Served, Accepted, Fetched, Items, Current
<1> QED BY <1>2, <1>4, <1>5, <1>6, <1>11 DEF LinkInv

LEMMA LinkStutters ==
  ASSUME LinkInv, UNCHANGED pagingVars
  PROVE  LinkInv'
<1>1. WholeInv' BY WholeStutters DEF LinkInv
<1>2. LinkedOK' BY DEF LinkInv, LinkedOK, PageIn, Current, pagingVars, cutting
<1>3. FirstOK' BY DEF LinkInv, FirstOK, PageIn, pagingVars, cutting
<1>4. FoundOK' BY DEF LinkInv, FoundOK, PageIn, Current, pagingVars, cutting, reading
<1>5. RejectedForSizeOnly'
  BY DEF LinkInv, RejectedForSizeOnly, Stored, Served, Accepted, Fetched, Items, Current,
         pagingVars, cutting, reading
<1> QED BY <1>1, <1>2, <1>3, <1>4, <1>5 DEF LinkInv

LEMMA LinkStep ==
  ASSUME LinkInv, Acceptable, [PagingNext]_pagingVars
  PROVE  LinkInv'
BY BeginLinks, ShrinkLinks, TooLargeLinks, WritePageLinks, ReceiveLinks, RejectLinks,
   LinkStutters DEF PagingNext

LEMMA LinkedIsReadable == LinkInv => ReadBack
BY DEF LinkInv, WholeInv, ReadBack

LEMMA StaysAcceptable ==
  ASSUME Acceptable, compiled' = compiled
  PROVE  Acceptable'
BY DEF Acceptable, Things

\* A sequence is one of what it holds.
LEMMA OwnElements ==
  ASSUME NEW S, NEW s \in Seq(S), NEW T, ToSet(s) \subseteq T
  PROVE  s \in Seq(T)
<1>1. \A i \in 1 .. Len(s) : s[i] \in T
  BY DEF ToSet
<1>2. s \in [1 .. Len(s) -> S] /\ Len(s) \in Nat
  OBVIOUS
<1> QED BY <1>1, <1>2

LEMMA ThingsOf ==
  ASSUME NEW S, compiled \in [KindSet -> Seq(S)]
  PROVE  compiled \in [KindSet -> Seq(Things)] /\ Things \subseteq S
<1>1. \A k \in KindSet : ToSet(compiled[k]) \subseteq Things
  BY DEF Things
<1>2. \A k \in KindSet : compiled[k] \in Seq(S)
  OBVIOUS
<1>3. \A k \in KindSet : compiled[k] \in Seq(Things)
  BY <1>1, <1>2, OwnElements
<1>4. \A k \in KindSet : ToSet(compiled[k]) \subseteq S
  BY <1>2 DEF ToSet
<1> QED BY <1>3, <1>4 DEF Things
-----------------------------------------------------------------------------
(* Of the paging alone, for anything the compiler may hand on. *)

ItemsAreFair ==
  /\ \A s \in Seq(Item) : PageBytes(s) \in Nat
  /\ \A k \in KindSet, i \in Item : ValidItem(k, i)

\* A client that completes a refresh has the items of the compiler, all of them, once
\* each and in their order, whatever the limits and the sizes of pages are
\* (persist_snapshot, page_at and the client's refresh).
THEOREM Assembled == PagingSpec => []AssembledWhole
<1>1. PagingInit /\ compiled \in [KindSet -> Seq(Item)] => WholeInv BY ThingsOf, WholeInit
<1>2. WholeInv /\ [PagingNext]_pagingVars => WholeInv' BY WholeStep
<1>3. WholeInv => AssembledWhole BY DEF WholeInv
<1> QED BY <1>1, <1>2, <1>3, PTL DEF PagingSpec

LEMMA FairIsAcceptable ==
  ASSUME ItemsAreFair, compiled \in [KindSet -> Seq(Item)]
  PROVE  Acceptable
<1>1. Things \subseteq Item
  BY ThingsOf
<1>2. \A s \in Seq(Things) : s \in Seq(Item)
  BY <1>1
<1> QED BY <1>2 DEF ItemsAreFair, Acceptable

LEMMA PagingKeepsCompiled == [PagingNext]_pagingVars => compiled' = compiled
BY DEF PagingNext, pagingVars, Begin, Shrink, TooLarge, WritePage, Receive, RejectPage

\* What the companion has committed can be read back: the client assembles it whole, or
\* gives up over the size of all pages, for limits and pages of any size
\* (persist_snapshot, page_at and the client's refresh).
THEOREM CommittedReadable ==
  ASSUME ItemsAreFair
  PROVE  PagingSpec => []ReadBack
<1> DEFINE Inv == LinkInv /\ Acceptable
<1>1. PagingInit /\ compiled \in [KindSet -> Seq(Item)] => Inv
  BY ThingsOf, LinkInit, FairIsAcceptable
<1>2. Inv /\ [PagingNext]_pagingVars => Inv'
  BY LinkStep, PagingKeepsCompiled, StaysAcceptable
<1>3. Inv => ReadBack
  BY LinkedIsReadable
<1> HIDE DEF Inv
<1> QED BY <1>1, <1>2, <1>3, PTL DEF PagingSpec

(* What a line adds to what is gathered, and the compiler's types.          *)

\* The rules of a filter, or the guards it leaves behind.
Given(l) ==
  IF ~IsFilter(l) \/ OnlyHiding(l) THEN {}
  ELSE IF Supported(Translated(l)) THEN Rules(Translated(l))
  ELSE IF l.exception /\ l.pattern \in Valid THEN Guards(l) ELSE {}

TakenBack(l) ==
  IF l.kind = "filter" /\ "badfilter" \in l.options /\ Supported(Target(l))
    THEN Rules(Target(l)) ELSE {}

Unknown(l) ==
  /\ IsFilter(l) /\ ~OnlyHiding(l) /\ ~Supported(Translated(l))
  /\ l.exception /\ l.pattern \notin Valid

Suppressing(l) ==
  (IF IsFilter(l) THEN Unnamed(l) ELSE {}) \cup (IF Unknown(l) THEN {"blocks"} ELSE {})

Hiding(l) == l.kind = "hide" /\ l.selector # None /\ scopes_ok(l.scope)
Unhiding(l) == l.kind = "unhide" /\ l.selector # None

Lifting(l, s) ==
  IF Unhiding(l) /\ l.selector = s /\ OnlyIncludes(l.scope) THEN l.scope.included ELSE {}

Showing(l) == IF Unhiding(l) /\ ~OnlyIncludes(l.scope) THEN {l.selector} ELSE {}

GenericOut(l) ==
  IF IsFilter(l) /\ ExemptsGeneric(l) THEN HostsOrNone(ExemptHosts(l)) ELSE {}

AllOut(l) ==
  IF IsFilter(l)
    THEN HostsOrNone(DocumentHost(l))
           \cup (IF ExemptsAll(l) THEN HostsOrNone(ExemptHosts(l)) ELSE {})
    ELSE {}

\* What is gathered is what the lines read add, in whatever order.
Gathered ==
  /\ network_rules = UNION {Given(l) : l \in LinesRead}
  /\ badfilters = UNION {TakenBack(l) : l \in LinesRead}
  /\ suppress = UNION {Suppressing(l) : l \in LinesRead}
  /\ ToSet(hides) = {l \in LinesRead : Hiding(l)}
  /\ \A s \in Selectors : lifted[s] = UNION {Lifting(l, s) : l \in LinesRead}
  /\ suppressed_selectors = UNION {Showing(l) : l \in LinesRead}
  /\ generic_excluded = UNION {GenericOut(l) : l \in LinesRead}
  /\ all_excluded = UNION {AllOut(l) : l \in LinesRead}

Ids == ToSet(Sources)
Counts == {"network", "cosmetic", "unsupported", "ignored"}
Stats == [network : Nat, cosmetic : Nat, unsupported : Nat, ignored : Nat]
Reasons ==
  {"long", "extended", "hide", "unhide", "badfilter", "exemption", "filter", "guard", "omitted"}

Diagnostics ==
  {d \in [total : Nat, samples : Seq([reason : Reasons])] :
     Len(d.samples) <= MAX_DIAGNOSTICS /\ Len(d.samples) <= d.total}

CompilerType ==
  /\ phase \in {"reading", "compiled", "refused", "returned"}
  /\ budget \in Nat
  /\ source \in 1 .. Len(Sources)
  /\ text \in [Ids -> Seq(Lines)]
  /\ hides \in Seq(Lines)
  /\ lifted \in [Selectors -> SUBSET Hosts]
  /\ IsFiniteSet(network_rules)
  /\ list_stats \in [Ids -> Stats]
  /\ diagnostic \in Diagnostics

\* The rest of the lines is not reported as unsupported.
Reported(l) ==
  \/ l.kind \in {"long", "extended", "unread"}
  \/ l.kind \in {"hide", "unhide"} /\ ~Hiding(l) /\ ~Unhiding(l)
  \/ l.kind = "filter" /\ "badfilter" \in l.options /\ ~Supported(Target(l))
  \/ IsFilter(l) /\ ~OnlyHiding(l) /\ ~Supported(Translated(l))

UnsupportedCounted ==
  \A s \in Ids : list_stats[s].unsupported = 0 => \A l \in ToSet(text[s]) : ~Reported(l)

Result(fit, taken) ==
  [network |-> SetToSeq(fit \ Blocks(fit)) \o SetToSeq(Blocks(fit)),
   cosmetic |-> SetToSeq(taken), diagnostics |-> diagnostic.samples]

\* The result is of what has been gathered, which is still there.
ResultOK ==
  phase = "compiled" =>
    \E fit \in Fitting(Kept), taken \in Taken(CosmeticRules) :
      /\ coverage = Counted(fit, taken)
      /\ compiled = Result(fit, taken)

CompilerInv == CompilerType /\ Gathered /\ EveryLineCounted /\ UnsupportedCounted /\ ResultOK

-----------------------------------------------------------------------------
LEMMA Bounds ==
  /\ Budgets \subseteq Nat
  /\ MAX_COSMETIC \in Nat /\ MAX_DIAGNOSTICS \in Nat /\ PER_REASON \in Nat
  /\ MAX_PACKED \in Nat /\ MAX_PACKED > 0
BY LimitsAssumption

LEMMA SourcesFacts ==
  /\ Sources \in Seq(Ids) /\ Len(Sources) \in Nat /\ Len(Sources) > 0
  /\ \A i \in 1 .. Len(Sources) : Sources[i] \in Ids
<1>1. Sources \in Seq(Ids) /\ Sources # << >>
  BY SourcesAssumption DEF Ids
<1> QED BY <1>1

LEMMA LineFacts ==
  ASSUME NEW l \in Lines
  PROVE  /\ l \in Filter \cup Unread \cup Cosmetic \cup Other
         /\ l.kind = "filter" <=> l \in Filter
         /\ l.kind \in {"hide", "unhide"} <=> l \in Cosmetic
<1>1. l \in Filter \cup Unread \cup Cosmetic \cup Other
  BY LinesAssumption
<1>2. l \in Filter => l.kind = "filter"
  BY DEF Filter
<1>3. l \in Cosmetic => l.kind \in {"hide", "unhide"}
  BY DEF Cosmetic
<1>4. l \in Other => l.kind \in {"ignored", "long", "extended"}
  BY DEF Other
<1>5. l \in Unread => l.kind = "unread"
  BY DEF Unread
<1> QED BY <1>1, <1>2, <1>3, <1>4, <1>5

LEMMA AppendedSet ==
  ASSUME NEW S, NEW s \in Seq(S), NEW x \in S
  PROVE  /\ Append(s, x) \in Seq(S) /\ Len(Append(s, x)) = Len(s) + 1
         /\ ToSet(Append(s, x)) = ToSet(s) \cup {x}
<1> DEFINE t == Append(s, x)
<1>1. /\ t \in Seq(S) /\ Len(t) = Len(s) + 1 /\ t[Len(s) + 1] = x
      /\ \A i \in 1 .. Len(s) : t[i] = s[i]
  OBVIOUS
<1>2. DOMAIN s = 1 .. Len(s) /\ DOMAIN t = 1 .. Len(s) + 1 /\ Len(s) \in Nat
  BY <1>1
<1> HIDE DEF t
<1>3. ToSet(t) \subseteq ToSet(s) \cup {x}
  BY <1>1, <1>2 DEF ToSet
<1>4. ToSet(s) \cup {x} \subseteq ToSet(t)
  <2>1. ToSet(s) \subseteq ToSet(t)
    BY <1>1, <1>2 DEF ToSet
  <2>2. x \in ToSet(t)
    BY <1>1, <1>2 DEF ToSet
  <2> QED BY <2>1, <2>2
<1> QED BY <1>1, <1>3, <1>4 DEF t

\* One more sample, or none.
LEMMA AddFacts ==
  ASSUME NEW d \in Diagnostics, NEW r \in Reasons
  PROVE  Add(d, r) \in Diagnostics
<1>1. /\ d.total \in Nat /\ d.samples \in Seq([reason : Reasons]) /\ Len(d.samples) \in Nat
      /\ Len(d.samples) <= MAX_DIAGNOSTICS /\ Len(d.samples) <= d.total
  BY DEF Diagnostics
<1>2. [reason |-> r] \in [reason : Reasons]
  OBVIOUS
<1> DEFINE more == Append(d.samples, [reason |-> r])
<1>3. more \in Seq([reason : Reasons]) /\ Len(more) = Len(d.samples) + 1
  BY <1>1, <1>2
<1> HIDE DEF more
<1>4. Add(d, r) = [total |-> d.total + 1,
                   samples |-> IF Sampled(d, r) < PER_REASON /\ Len(d.samples) < MAX_DIAGNOSTICS
                                 THEN more ELSE d.samples]
  BY DEF Add, more
<1>5. CASE Sampled(d, r) < PER_REASON /\ Len(d.samples) < MAX_DIAGNOSTICS
  BY <1>1, <1>3, <1>4, <1>5, Bounds DEF Diagnostics
<1>6. CASE ~(Sampled(d, r) < PER_REASON /\ Len(d.samples) < MAX_DIAGNOSTICS)
  BY <1>1, <1>4, <1>6 DEF Diagnostics
<1> QED BY <1>5, <1>6

LEMMA AddAllFacts ==
  ASSUME NEW d \in Diagnostics, NEW reasons \in Seq(Reasons)
  PROVE  AddAll(d, reasons) \in Diagnostics
<1> DEFINE N == Len(reasons)
           V == Diagnostics
           G == [v \in V |-> [n \in 1 .. N |-> Add(v, reasons[n])]]
           after == CHOOSE f : f = [n \in 0 .. N |->
                      IF n = 0 THEN d ELSE Add(f[n - 1], reasons[n])]
<1>1. N \in Nat /\ \A n \in 1 .. N : reasons[n] \in Reasons
  OBVIOUS
<1>2. \A v \in V, n \in 1 .. N : G[v][n] = Add(v, reasons[n]) /\ Add(v, reasons[n]) \in V
  <2> SUFFICES ASSUME NEW v \in V, NEW n \in 1 .. N
               PROVE  G[v][n] = Add(v, reasons[n]) /\ Add(v, reasons[n]) \in V
    OBVIOUS
  <2>1. Add(v, reasons[n]) \in V
    BY <1>1, AddFacts
  <2> HIDE DEF V, N
  <2>2. G[v] = [m \in 1 .. N |-> Add(v, reasons[m])]
    OBVIOUS
  <2> QED BY <2>1, <2>2
<1>3. PICK f : f \in [0 .. N -> V] /\
                f = [n \in 0 .. N |-> IF n = 0 THEN d ELSE Add(f[n - 1], reasons[n])]
  <2> HIDE DEF G, N, V
  <2>0. d \in V
    BY DEF V
  <2>1. Steps(G, V, N)
    BY <1>2 DEF Steps
  <2>2. PICK f : Iterates(f, G, V, d, N)
    BY <1>1, <2>0, <2>1, Recursion
  <2>3. f \in [0 .. N -> V] /\ f[0] = d
    BY <2>2 DEF Iterates
  <2>4. ASSUME NEW n \in 1 .. N PROVE f[n] = Add(f[n - 1], reasons[n])
    <3>1. n - 1 \in 0 .. N
      BY <1>1
    <3>2. f[n - 1] \in V
      BY <2>3, <3>1
    <3>3. G[f[n - 1]][n] = Add(f[n - 1], reasons[n])
      BY <1>2, <3>2
    <3> QED BY <2>2, <3>3 DEF Iterates
  <2>5. \A n \in 0 .. N : f[n] = IF n = 0 THEN d ELSE Add(f[n - 1], reasons[n])
    BY <1>1, <2>3, <2>4
  <2> QED BY <2>3, <2>5
<1>4. after = [n \in 0 .. N |-> IF n = 0 THEN d ELSE Add(after[n - 1], reasons[n])]
  BY <1>3
<1>5. AddAll(d, reasons) = after[N]
  BY DEF AddAll
<1> HIDE DEF after, N, V, G
<1> DEFINE T == {n \in Nat : n <= N => after[n] \in V}
<1>6. 0 \in T
  <2>1. after[0] = d
    BY <1>1, <1>4
  <2> QED BY <2>1 DEF V
<1>7. ASSUME NEW n \in Nat, n \in T PROVE n + 1 \in T
  <2> SUFFICES ASSUME n + 1 <= N PROVE after[n + 1] \in V
    OBVIOUS
  <2>1. after[n] \in V
    BY <1>1, <1>7
  <2>2. n + 1 \in 0 .. N /\ n + 1 # 0 /\ (n + 1) - 1 = n /\ n + 1 \in 1 .. N
    BY <1>1
  <2>3. after[n + 1] = Add(after[n], reasons[n + 1])
    BY <1>4, <2>2
  <2> QED BY <1>1, <2>1, <2>2, <2>3, AddFacts DEF V
<1> HIDE DEF T
<1>8. N \in T
  BY <1>1, <1>6, <1>7, Induction
<1> QED BY <1>1, <1>5, <1>8 DEF T, V

LEMMA AsSequence ==
  ASSUME NEW S, IsFiniteSet(S)
  PROVE  /\ SetToSeq(S) \in Seq(S) /\ Len(SetToSeq(S)) = Cardinality(S)
         /\ ToSet(SetToSeq(S)) = S
<1> DEFINE n == Cardinality(S)
           s == SetToSeq(S)
<1>1. n \in Nat /\ ExistsBijection(1 .. n, S)
  BY FS_CardinalityType
<1>2. \E f \in [1 .. n -> S] : IsInjective(f)
  BY <1>1 DEF ExistsBijection, Bijection, Injection
<1>3. s \in [1 .. n -> S] /\ IsInjective(s)
  BY <1>2 DEF SetToSeq
<1>4. s \in Injection(1 .. n, S)
  BY <1>3 DEF Injection
<1>5. Cardinality(1 .. n) = n /\ IsFiniteSet(1 .. n)
  BY <1>1, FS_Interval
<1>6. s \in Surjection(1 .. n, S)
  BY <1>4, <1>5, FS_Injection
<1>7. \A x \in S : \E i \in 1 .. n : s[i] = x
  BY <1>6 DEF Surjection
<1> HIDE DEF s
<1>8. s \in Seq(S) /\ Len(s) = n /\ DOMAIN s = 1 .. n
  BY <1>1, <1>3
<1>9. ToSet(s) = S
  BY <1>3, <1>7, <1>8 DEF ToSet
<1> QED BY <1>8, <1>9 DEF s

-----------------------------------------------------------------------------
(* Reading a line. *)

\* A line more is read, and counted.
LEMMA ReadLines ==
  ASSUME CompilerType, EveryLineCounted, NEW l \in Lines, NEW count \in Counts,
         NEW reasons \in Seq(Reasons), Read(l, count, reasons)
  PROVE  /\ LinesRead' = LinesRead \cup {l}
         /\ text' \in [Ids -> Seq(Lines)] /\ list_stats' \in [Ids -> Stats]
         /\ diagnostic' \in Diagnostics
         /\ EveryLineCounted'
<1> DEFINE id == Sources[source]
<1>1. id \in Ids
  BY SourcesFacts DEF CompilerType
<1> HIDE DEF id
<1>2. text' = [text EXCEPT ![id] = Append(@, l)]
  BY DEF Read, id
<1>3. list_stats' = [list_stats EXCEPT ![id][count] = @ + 1]
  BY DEF Read, id
<1>4. /\ text[id] \in Seq(Lines) /\ Append(text[id], l) \in Seq(Lines)
      /\ Len(Append(text[id], l)) = Len(text[id]) + 1
      /\ ToSet(Append(text[id], l)) = ToSet(text[id]) \cup {l}
  BY <1>1, AppendedSet DEF CompilerType
<1>5. /\ text' \in [Ids -> Seq(Lines)] /\ text'[id] = Append(text[id], l)
      /\ \A s \in Ids \ {id} : text'[s] = text[s]
  BY <1>1, <1>2, <1>4 DEF CompilerType
<1>6. list_stats[id] \in Stats
  BY <1>1 DEF CompilerType
<1> DEFINE new == [list_stats[id] EXCEPT ![count] = @ + 1]
<1>7. new \in Stats
  BY <1>6 DEF Stats, Counts
<1>8. new.network + new.cosmetic + new.unsupported + new.ignored
        = list_stats[id].network + list_stats[id].cosmetic + list_stats[id].unsupported
            + list_stats[id].ignored + 1
  BY <1>6 DEF Stats, Counts
<1> HIDE DEF new
<1>9. /\ list_stats' \in [Ids -> Stats] /\ list_stats'[id] = new
      /\ \A s \in Ids \ {id} : list_stats'[s] = list_stats[s]
  BY <1>1, <1>3, <1>7 DEF CompilerType, new
<1>10. diagnostic' \in Diagnostics
  BY AddAllFacts DEF CompilerType, Read
<1>11. LinesRead' = LinesRead \cup {l}
  <2>1. LinesRead = UNION {ToSet(text[s]) : s \in Ids}
    BY DEF LinesRead, Ids
  <2>2. LinesRead' = UNION {ToSet(text'[s]) : s \in Ids}
    BY DEF LinesRead, Ids
  <2>3. \A s \in Ids : ToSet(text'[s]) = IF s = id THEN ToSet(text[s]) \cup {l} ELSE ToSet(text[s])
    BY <1>4, <1>5
  <2> QED BY <1>1, <2>1, <2>2, <2>3, Zenon
<1>12. EveryLineCounted'
  <2> SUFFICES ASSUME NEW s \in Ids
               PROVE  Len(text'[s]) = list_stats'[s].network + list_stats'[s].cosmetic
                        + list_stats'[s].unsupported + list_stats'[s].ignored
    BY DEF EveryLineCounted, Ids
  <2>1. Len(text[s]) = list_stats[s].network + list_stats[s].cosmetic
                         + list_stats[s].unsupported + list_stats[s].ignored
    BY DEF EveryLineCounted, Ids
  <2>2. CASE s = id
    BY <1>4, <1>5, <1>8, <1>9, <2>1, <2>2
  <2>3. CASE s # id
    BY <1>5, <1>9, <2>1, <2>3
  <2> QED BY <2>2, <2>3
<1> QED BY <1>5, <1>9, <1>10, <1>11, <1>12

\* A list with an unsupported line has one counted.
LEMMA ReadReported ==
  ASSUME CompilerType, UnsupportedCounted, NEW l \in Lines, NEW count \in Counts,
         NEW reasons, Read(l, count, reasons),
         Reported(l) => count = "unsupported"
  PROVE  UnsupportedCounted'
<1> DEFINE id == Sources[source]
<1>1. id \in Ids
  BY SourcesFacts DEF CompilerType
<1> HIDE DEF id
<1>2. text' = [text EXCEPT ![id] = Append(@, l)]
  BY DEF Read, id
<1>3. list_stats' = [list_stats EXCEPT ![id][count] = @ + 1]
  BY DEF Read, id
<1> SUFFICES ASSUME NEW s \in Ids, list_stats'[s].unsupported = 0, NEW m \in ToSet(text'[s])
             PROVE  ~Reported(m)
  <2>1. (\A s \in Ids : list_stats'[s].unsupported = 0 => \A m \in ToSet(text'[s]) : ~Reported(m))
          => UnsupportedCounted'
    BY DEF UnsupportedCounted, Ids
  <2> QED BY <2>1
<1>4. CASE s = id
  <2>1. list_stats[id] \in Stats /\ list_stats'[id] = [list_stats[id] EXCEPT ![count] = @ + 1]
    BY <1>1, <1>3 DEF CompilerType
  <2>2. list_stats[id].unsupported = 0 /\ count # "unsupported"
    BY <1>4, <2>1 DEF Stats, Counts
  <2>3. text'[id] = Append(text[id], l) /\ text[id] \in Seq(Lines)
    BY <1>1, <1>2 DEF CompilerType
  <2>4. m \in ToSet(text[id]) \cup {l}
    BY <1>4, <2>3, AppendedSet
  <2> QED BY <1>1, <2>2, <2>4 DEF UnsupportedCounted
<1>5. CASE s # id
  <2>1. text'[s] = text[s] /\ list_stats'[s] = list_stats[s]
    BY <1>2, <1>3, <1>5 DEF CompilerType
  <2> QED BY <2>1 DEF UnsupportedCounted
<1> QED BY <1>4, <1>5

\* What a step adds to what is gathered is what the line adds.
LEMMA GatheredMore ==
  ASSUME Gathered, NEW l \in Lines, LinesRead' = LinesRead \cup {l}, hides \in Seq(Lines),
         network_rules' = network_rules \cup Given(l),
         badfilters' = badfilters \cup TakenBack(l),
         suppress' = suppress \cup Suppressing(l),
         hides' = IF Hiding(l) THEN Append(hides, l) ELSE hides,
         \A s \in Selectors : lifted'[s] = lifted[s] \cup Lifting(l, s),
         suppressed_selectors' = suppressed_selectors \cup Showing(l),
         generic_excluded' = generic_excluded \cup GenericOut(l),
         all_excluded' = all_excluded \cup AllOut(l)
  PROVE  Gathered'
<1>1. network_rules' = UNION {Given(m) : m \in LinesRead'}
  BY Zenon DEF Gathered
<1>2. badfilters' = UNION {TakenBack(m) : m \in LinesRead'}
  BY Zenon DEF Gathered
<1>3. suppress' = UNION {Suppressing(m) : m \in LinesRead'}
  BY Zenon DEF Gathered
<1>4. ToSet(hides') = {m \in LinesRead' : Hiding(m)}
  <2>1. ToSet(Append(hides, l)) = ToSet(hides) \cup {l}
    BY AppendedSet
  <2>2. ToSet(hides') = IF Hiding(l) THEN ToSet(hides) \cup {l} ELSE ToSet(hides)
    BY <2>1
  <2>3. ToSet(hides) = {m \in LinesRead : Hiding(m)}
    BY DEF Gathered
  <2> QED BY <2>2, <2>3
<1>5. \A s \in Selectors : lifted'[s] = UNION {Lifting(m, s) : m \in LinesRead'}
  <2> SUFFICES ASSUME NEW s \in Selectors
               PROVE  lifted'[s] = UNION {Lifting(m, s) : m \in LinesRead'}
    OBVIOUS
  <2>1. lifted[s] = UNION {Lifting(m, s) : m \in LinesRead}
    BY DEF Gathered
  <2> QED BY <2>1, Zenon
<1>6. suppressed_selectors' = UNION {Showing(m) : m \in LinesRead'}
  BY Zenon DEF Gathered
<1>7. generic_excluded' = UNION {GenericOut(m) : m \in LinesRead'}
  BY Zenon DEF Gathered
<1>8. all_excluded' = UNION {AllOut(m) : m \in LinesRead'}
  BY Zenon DEF Gathered
<1> QED BY <1>1, <1>2, <1>3, <1>4, <1>5, <1>6, <1>7, <1>8 DEF Gathered

LEMMA GivenFinite ==
  ASSUME NEW l
  PROVE  IsFiniteSet(Given(l))
<1>1. ASSUME NEW m PROVE IsFiniteSet(Rules(m))
  <2> DEFINE frame == {Rule(m, "allowAllRequests", FrameTypes)}
             plain == {Rule(m, IF m.exception THEN "allow" ELSE "block", TypesOf(m))}
  <2>1. IsFiniteSet(frame) /\ IsFiniteSet(plain)
    BY FS_Singleton
  <2> HIDE DEF frame, plain
  <2>2. IsFiniteSet(frame \cup plain)
    BY <2>1, FS_Union
  <2>3. Rules(m) \subseteq frame \cup plain
    BY DEF Rules, frame, plain
  <2> QED BY <2>2, <2>3, FS_Subset
<1>2. IsFiniteSet(Guards(l))
  <2> DEFINE anywhere == [l EXCEPT !.scope = None, !.options = {}]
             frame == {Rule(anywhere, "allowAllRequests", FrameTypes)}
             plain == {Rule(anywhere, "allow", ResourceTypes)}
  <2>1. IsFiniteSet(frame) /\ IsFiniteSet(plain)
    BY FS_Singleton
  <2>2. Guards(l) \subseteq frame \cup plain
    BY DEF Guards
  <2> HIDE DEF frame, plain
  <2>3. IsFiniteSet(frame \cup plain)
    BY <2>1, FS_Union
  <2> QED BY <2>2, <2>3, FS_Subset
<1> QED BY <1>1, <1>2, FS_EmptySet DEF Given

LEMMA NoFilter ==
  ASSUME NEW l, l.kind # "filter"
  PROVE  /\ Given(l) = {} /\ TakenBack(l) = {} /\ Suppressing(l) = {}
         /\ GenericOut(l) = {} /\ AllOut(l) = {}
BY DEF Given, TakenBack, Suppressing, Unknown, GenericOut, AllOut, IsFilter

LEMMA NoCosmetic ==
  ASSUME NEW l
  PROVE  /\ l.kind # "hide" => ~Hiding(l)
         /\ ~Unhiding(l) => Showing(l) = {} /\ \A s \in Selectors : Lifting(l, s) = {}
BY DEF Hiding, Unhiding, Lifting, Showing

LEMMA LineKeeps ==
  ASSUME CompilerInv, NEW l \in Lines, NEW count \in Counts, NEW reasons \in Seq(Reasons),
         Read(l, count, reasons), Reported(l) => count = "unsupported",
         network_rules' = network_rules \cup Given(l),
         badfilters' = badfilters \cup TakenBack(l),
         suppress' = suppress \cup Suppressing(l),
         hides' = IF Hiding(l) THEN Append(hides, l) ELSE hides,
         lifted' \in [Selectors -> SUBSET Hosts],
         \A s \in Selectors : lifted'[s] = lifted[s] \cup Lifting(l, s),
         suppressed_selectors' = suppressed_selectors \cup Showing(l),
         generic_excluded' = generic_excluded \cup GenericOut(l),
         all_excluded' = all_excluded \cup AllOut(l)
  PROVE  CompilerInv'
<1>1. /\ CompilerType /\ Gathered /\ EveryLineCounted /\ UnsupportedCounted
  BY DEF CompilerInv
<1>2. /\ LinesRead' = LinesRead \cup {l}
      /\ text' \in [Ids -> Seq(Lines)] /\ list_stats' \in [Ids -> Stats]
      /\ diagnostic' \in Diagnostics
      /\ EveryLineCounted'
  BY <1>1, ReadLines
<1>3. UnsupportedCounted'
  BY <1>1, ReadReported
<1>4. hides' \in Seq(Lines)
  BY <1>1, AppendedSet DEF CompilerType
<1>5. IsFiniteSet(network_rules')
  BY <1>1, GivenFinite, FS_Union DEF CompilerType
<1>6. phase = "reading" /\ phase' = phase /\ budget' = budget /\ source' = source
  BY DEF Read
<1>7. CompilerType'
  BY <1>1, <1>2, <1>4, <1>5, <1>6 DEF CompilerType
<1>8. Gathered'
  BY <1>1, <1>2, GatheredMore DEF CompilerType
<1>9. ResultOK'
  BY <1>6 DEF ResultOK
<1> QED BY <1>2, <1>3, <1>7, <1>8, <1>9 DEF CompilerInv

LEMMA OneReason ==
  /\ << >> \in Seq(Reasons)
  /\ \A r \in Reasons : <<r>> \in Seq(Reasons)
  /\ \A r, s \in Reasons : <<r, s>> \in Seq(Reasons)
  /\ \A l : ReportHiding(l) \in Seq(Reasons)
<1>1. << >> \in Seq(Reasons) /\ \A r \in Reasons : <<r>> \in Seq(Reasons)
  OBVIOUS
<1>2. \A r, s \in Reasons : <<r, s>> \in Seq(Reasons)
  OBVIOUS
<1>3. \A l : ReportHiding(l) \in Seq(Reasons)
  BY <1>1 DEF ReportHiding, Reasons
<1> QED BY <1>1, <1>2, <1>3

LEMMA QuietLineKeeps ==
  ASSUME CompilerInv, NEW l \in Lines,
         Ignore(l) \/ Reject(l) \/ DropException(l) \/ RejectCosmetic(l)
  PROVE  CompilerInv'
<1>1. PICK count \in Counts, reasons \in Seq(Reasons) :
        Read(l, count, reasons) /\ (Reported(l) => count = "unsupported")
  <2>1. CASE Ignore(l)
    <3>1. ~Reported(l)
      BY <2>1 DEF Ignore, Reported, IsFilter
    <3>2. Read(l, "ignored", << >>) /\ "ignored" \in Counts
      BY <2>1 DEF Ignore, Counts
    <3> QED BY <3>1, <3>2, OneReason
  <2>2. CASE Reject(l)
    <3>1. Read(l, "unsupported", <<l.kind>>) /\ l.kind \in Reasons /\ "unsupported" \in Counts
      BY <2>2 DEF Reject, Reasons, Counts
    <3> QED BY <3>1, OneReason
  <2>3. CASE RejectCosmetic(l)
    <3>1. Read(l, "unsupported", <<l.kind>>) /\ l.kind \in Reasons /\ "unsupported" \in Counts
      BY <2>3 DEF RejectCosmetic, Reasons, Counts
    <3> QED BY <3>1, OneReason
  <2>4. CASE DropException(l)
    <3>1. PICK reason \in {"extended", "hide"} : Read(l, "unsupported", <<reason>>)
      BY <2>4 DEF DropException
    <3>2. reason \in Reasons /\ "unsupported" \in Counts
      BY DEF Reasons, Counts
    <3> QED BY <3>1, <3>2, OneReason
  <2> QED BY <2>1, <2>2, <2>3, <2>4
<1>2. l.kind # "filter" /\ ~Hiding(l) /\ ~Unhiding(l)
  BY DEF Ignore, Reject, DropException, RejectCosmetic, Hiding, Unhiding
<1>3. /\ network_rules' = network_rules /\ badfilters' = badfilters /\ suppress' = suppress
      /\ hides' = hides /\ lifted' = lifted /\ suppressed_selectors' = suppressed_selectors
      /\ generic_excluded' = generic_excluded /\ all_excluded' = all_excluded
  BY DEF Ignore, Reject, DropException, RejectCosmetic, filtering, hiding
<1>4. lifted \in [Selectors -> SUBSET Hosts]
  BY DEF CompilerInv, CompilerType
<1> QED BY <1>1, <1>2, <1>3, <1>4, NoFilter, NoCosmetic, LineKeeps

LEMMA HideKeeps ==
  ASSUME CompilerInv, NEW l \in Lines, Hide(l)
  PROVE  CompilerInv'
<1>1. Read(l, "cosmetic", << >>) /\ "cosmetic" \in Counts /\ << >> \in Seq(Reasons)
  BY OneReason DEF Hide, Counts
<1>2. l.kind = "hide" /\ Hiding(l) /\ ~Unhiding(l) /\ ~Reported(l)
  BY DEF Hide, Hiding, Unhiding, Reported, IsFilter
<1>3. /\ network_rules' = network_rules /\ badfilters' = badfilters /\ suppress' = suppress
      /\ hides' = Append(hides, l) /\ lifted' = lifted
      /\ suppressed_selectors' = suppressed_selectors
      /\ generic_excluded' = generic_excluded /\ all_excluded' = all_excluded
  BY DEF Hide, filtering
<1>4. lifted \in [Selectors -> SUBSET Hosts]
  BY DEF CompilerInv, CompilerType
<1> QED BY <1>1, <1>2, <1>3, <1>4, NoFilter, NoCosmetic, LineKeeps

LEMMA UnhideKeeps ==
  ASSUME CompilerInv, NEW l \in Lines, Unhide(l)
  PROVE  CompilerInv'
<1>1. Read(l, "ignored", << >>) /\ "ignored" \in Counts /\ << >> \in Seq(Reasons)
  BY OneReason DEF Unhide, Counts
<1>2. l.kind = "unhide" /\ Unhiding(l) /\ ~Hiding(l) /\ ~Reported(l)
  BY DEF Unhide, Hiding, Unhiding, Reported, IsFilter
<1>3. /\ network_rules' = network_rules /\ badfilters' = badfilters /\ suppress' = suppress
      /\ hides' = hides
      /\ generic_excluded' = generic_excluded /\ all_excluded' = all_excluded
  BY DEF Unhide, filtering
<1>4. lifted \in [Selectors -> SUBSET Hosts]
  BY DEF CompilerInv, CompilerType
<1>5. l.selector \in Selectors /\ l.scope.included \subseteq Hosts
  BY <1>2, LineFacts DEF Unhiding, Cosmetic, Scope
<1>6. /\ lifted' \in [Selectors -> SUBSET Hosts]
      /\ \A s \in Selectors : lifted'[s] = lifted[s] \cup Lifting(l, s)
      /\ suppressed_selectors' = suppressed_selectors \cup Showing(l)
  <2>1. CASE OnlyIncludes(l.scope)
    <3>1. /\ lifted' = [lifted EXCEPT ![l.selector] = @ \cup l.scope.included]
          /\ suppressed_selectors' = suppressed_selectors
      BY <2>1 DEF Unhide
    <3> QED BY <1>2, <1>4, <1>5, <2>1, <3>1 DEF Lifting, Showing
  <2>2. CASE ~OnlyIncludes(l.scope)
    <3>1. /\ lifted' = lifted
          /\ suppressed_selectors' = suppressed_selectors \cup {l.selector}
      BY <2>2 DEF Unhide
    <3> QED BY <1>2, <1>4, <2>2, <3>1 DEF Lifting, Showing
  <2> QED BY <2>1, <2>2
<1> QED BY <1>1, <1>2, <1>3, <1>6, NoFilter, LineKeeps

LEMMA BadfilterKeeps ==
  ASSUME CompilerInv, NEW l \in Lines, Badfilter(l)
  PROVE  CompilerInv'
<1>1. l.kind = "filter" /\ ~IsFilter(l) /\ ~Hiding(l) /\ ~Unhiding(l)
  BY DEF Badfilter, IsFilter, Hiding, Unhiding
<1>2. Given(l) = {} /\ Suppressing(l) = {} /\ GenericOut(l) = {} /\ AllOut(l) = {}
  BY <1>1 DEF Given, Suppressing, Unknown, GenericOut, AllOut
<1>3. /\ network_rules' = network_rules /\ suppress' = suppress
      /\ hides' = hides /\ lifted' = lifted /\ suppressed_selectors' = suppressed_selectors
      /\ generic_excluded' = generic_excluded /\ all_excluded' = all_excluded
  BY DEF Badfilter, hiding
<1>4. PICK count \in Counts, reasons \in Seq(Reasons) :
        /\ Read(l, count, reasons) /\ (Reported(l) => count = "unsupported")
        /\ badfilters' = badfilters \cup TakenBack(l)
  <2>1. CASE Supported(Target(l))
    <3>1. ~Reported(l)
      BY <1>1, <2>1 DEF Reported, Badfilter
    <3>2. Read(l, "ignored", << >>) /\ "ignored" \in Counts
      BY <2>1 DEF Badfilter, Counts
    <3>3. badfilters' = badfilters \cup TakenBack(l)
      BY <2>1 DEF Badfilter, TakenBack
    <3> QED BY <3>1, <3>2, <3>3, OneReason
  <2>2. CASE ~Supported(Target(l))
    <3>1. Read(l, "unsupported", <<"badfilter">>) /\ "unsupported" \in Counts
          /\ "badfilter" \in Reasons
      BY <2>2 DEF Badfilter, Counts, Reasons
    <3>2. badfilters' = badfilters \cup TakenBack(l)
      BY <2>2 DEF Badfilter, TakenBack
    <3> QED BY <3>1, <3>2, OneReason
  <2> QED BY <2>1, <2>2
<1>5. lifted \in [Selectors -> SUBSET Hosts]
  BY DEF CompilerInv, CompilerType
<1> QED BY <1>1, <1>2, <1>3, <1>4, <1>5, NoCosmetic, LineKeeps

LEMMA FilterKeeps ==
  ASSUME CompilerInv, NEW l \in Lines, HidingExemption(l) \/ Accept(l) \/ Omit(l)
  PROVE  CompilerInv'
<1>1. IsFilter(l) /\ Exempt(l)
  BY DEF HidingExemption, Accept, Omit
<1>2. /\ badfilters' = badfilters /\ hides' = hides /\ lifted' = lifted
      /\ suppressed_selectors' = suppressed_selectors
  BY DEF HidingExemption, Accept, Omit
<1>3. TakenBack(l) = {} /\ ~Hiding(l) /\ ~Unhiding(l)
  BY <1>1 DEF TakenBack, IsFilter, Hiding, Unhiding
<1>4. generic_excluded' = generic_excluded \cup GenericOut(l)
  BY <1>1, Zenon DEF Exempt, GenericOut
<1>5. all_excluded' = all_excluded \cup AllOut(l)
  <2>1. all_excluded' = all_excluded \cup HostsOrNone(DocumentHost(l))
                          \cup (IF ExemptsAll(l) THEN HostsOrNone(ExemptHosts(l)) ELSE {})
    BY <1>1 DEF Exempt
  <2> QED BY <1>1, <2>1 DEF AllOut
<1>6. /\ network_rules' = network_rules \cup Given(l)
      /\ suppress' = suppress \cup Suppressing(l)
  <2>1. CASE HidingExemption(l)
    BY <1>1, <2>1 DEF HidingExemption, Given, Suppressing, Unknown
  <2>2. CASE Accept(l)
    BY <1>1, <2>2 DEF Accept, Given, Suppressing, Unknown
  <2>3. CASE Omit(l)
    BY <1>1, <2>3 DEF Omit, Given, Suppressing, Unknown
  <2> QED BY <2>1, <2>2, <2>3
<1>7. PICK count \in Counts, reasons \in Seq(Reasons) :
        Read(l, count, reasons) /\ (Reported(l) => count = "unsupported")
  <2>0. ReportHiding(l) \in Seq(Reasons)
    BY OneReason
  <2>1. CASE HidingExemption(l)
    <3>1. ~Reported(l)
      BY <1>1, <2>1 DEF Reported, HidingExemption, IsFilter
    <3>2. Read(l, "ignored", ReportHiding(l)) /\ "ignored" \in Counts
      BY <2>1 DEF HidingExemption, Counts
    <3> QED BY <2>0, <3>1, <3>2
  <2>2. CASE Accept(l)
    <3>1. ~Reported(l)
      BY <1>1, <2>2 DEF Reported, Accept, IsFilter
    <3>2. Read(l, "network", ReportHiding(l)) /\ "network" \in Counts
      BY <2>2 DEF Accept, Counts
    <3> QED BY <2>0, <3>1, <3>2
  <2>3. CASE Omit(l)
    <3> DEFINE more == IF l.exception THEN <<"filter", "guard">> ELSE <<"filter">>
    <3>1. more \in Seq(Reasons)
      BY OneReason DEF Reasons
    <3>2. Read(l, "unsupported", ReportHiding(l) \o more) /\ "unsupported" \in Counts
      BY <2>3 DEF Omit, Counts
    <3> HIDE DEF more
    <3>3. ReportHiding(l) \o more \in Seq(Reasons)
      BY <2>0, <3>1
    <3> QED BY <3>2, <3>3
  <2> QED BY <2>1, <2>2, <2>3
<1>8. lifted \in [Selectors -> SUBSET Hosts]
  BY DEF CompilerInv, CompilerType
<1> QED BY <1>2, <1>3, <1>4, <1>5, <1>6, <1>7, <1>8, NoCosmetic, LineKeeps

-----------------------------------------------------------------------------
(* The other steps. *)

LEMMA CompilerStarts == CompilerInit => CompilerInv
<1> SUFFICES ASSUME CompilerInit PROVE CompilerInv
  OBVIOUS
<1>1. NoStats \in Stats
  BY DEF NoStats, Stats
<1>2. [total |-> 0, samples |-> << >>] \in Diagnostics
  <2>1. << >> \in Seq([reason : Reasons]) /\ Len(<< >>) = 0
    OBVIOUS
  <2> QED BY <2>1, Bounds DEF Diagnostics
<1>3. << >> \in Seq(Lines) /\ Len(<< >>) = 0 /\ ToSet(<< >>) = {}
  BY DEF ToSet
<1>4. CompilerType
  <2>1. text \in [Ids -> Seq(Lines)] /\ list_stats \in [Ids -> Stats]
    BY <1>1, <1>3 DEF CompilerInit, Ids
  <2>2. source \in 1 .. Len(Sources) /\ budget \in Nat
    BY SourcesFacts, Bounds DEF CompilerInit
  <2>3. IsFiniteSet(network_rules) /\ hides \in Seq(Lines)
    BY <1>3, FS_EmptySet DEF CompilerInit
  <2> QED BY <1>2, <2>1, <2>2, <2>3 DEF CompilerInit, CompilerType
<1>5. \A s \in Ids : text[s] = << >> /\ list_stats[s] = NoStats
  BY DEF CompilerInit, Ids
<1>6. LinesRead = {}
  BY <1>3, <1>5 DEF LinesRead, Ids
<1>7. Gathered
  BY <1>3, <1>6 DEF CompilerInit, Gathered
<1>8. EveryLineCounted
  BY <1>3, <1>5 DEF EveryLineCounted, NoStats, Ids
<1>9. UnsupportedCounted
  BY <1>3, <1>5 DEF UnsupportedCounted
<1>10. ResultOK
  BY DEF ResultOK, CompilerInit
<1> QED BY <1>4, <1>7, <1>8, <1>9, <1>10 DEF CompilerInv

\* Nothing but the phase or the list changes, or what comes of the compiler.
LEMMA GatheredStays ==
  ASSUME CompilerInv, UNCHANGED <<budget, text, filtering, hiding, list_stats>>,
         source' \in 1 .. Len(Sources),
         phase' \in {"reading", "compiled", "refused", "returned"}, diagnostic' \in Diagnostics,
         ResultOK'
  PROVE  CompilerInv'
<1>1. /\ network_rules' = network_rules /\ badfilters' = badfilters /\ suppress' = suppress
      /\ hides' = hides /\ lifted' = lifted /\ suppressed_selectors' = suppressed_selectors
      /\ generic_excluded' = generic_excluded /\ all_excluded' = all_excluded
      /\ text' = text /\ list_stats' = list_stats /\ budget' = budget
  BY DEF filtering, hiding
<1>2. CompilerType'
  BY <1>1 DEF CompilerInv, CompilerType
<1>3. LinesRead' = LinesRead
  BY <1>1 DEF LinesRead
<1>4. Gathered'
  BY <1>1, <1>3 DEF CompilerInv, Gathered
<1>5. EveryLineCounted' /\ UnsupportedCounted'
  BY <1>1 DEF CompilerInv, EveryLineCounted, UnsupportedCounted
<1> QED BY <1>2, <1>4, <1>5 DEF CompilerInv

LEMMA SourceKeeps ==
  ASSUME CompilerInv, NextSource \/ Refuse
  PROVE  CompilerInv'
<1>1. source \in 1 .. Len(Sources) /\ diagnostic \in Diagnostics /\ Len(Sources) \in Nat
  BY SourcesFacts DEF CompilerInv, CompilerType
<1>2. source' \in 1 .. Len(Sources)
  BY <1>1 DEF NextSource, Refuse
<1>3. phase' \in {"reading", "refused"}
  BY DEF NextSource, Refuse
<1>4. UNCHANGED <<budget, text, filtering, hiding, list_stats>> /\ diagnostic' = diagnostic
  BY DEF NextSource, Refuse
<1> QED BY <1>1, <1>2, <1>3, <1>4, GatheredStays DEF ResultOK

LEMMA OmittedFacts ==
  ASSUME hides \in Seq(Lines)
  PROVE  /\ IsFiniteSet(SafeHides) /\ Cardinality(SafeHides) \in Nat
         /\ Omitted \in Nat
<1>1. DOMAIN hides = 1 .. Len(hides) /\ Len(hides) \in Nat
  OBVIOUS
<1>2. IsFiniteSet(DOMAIN hides) /\ Cardinality(DOMAIN hides) = Len(hides)
  <2> DEFINE n == Len(hides)
  <2>1. n \in Nat /\ DOMAIN hides = 1 .. n
    BY <1>1
  <2> HIDE DEF n
  <2>2. n \in Int /\ 1 \in Int
    BY <2>1
  <2>3. IsFiniteSet(1 .. n) /\ Cardinality(1 .. n) = IF 1 > n THEN 0 ELSE n - 1 + 1
    BY <2>2, FS_Interval
  <2>4. Cardinality(1 .. n) = n
    BY <2>1, <2>3
  <2>5. IsFiniteSet(DOMAIN hides) /\ Cardinality(DOMAIN hides) = n
    BY <2>1, <2>3, <2>4
  <2> QED BY <2>5 DEF n
<1>3. SafeHides \in SUBSET (DOMAIN hides)
  BY DEF SafeHides
<1>4. IsFiniteSet(SafeHides) /\ Cardinality(SafeHides) <= Len(hides)
  BY <1>2, <1>3, FS_Subset
<1>5. Cardinality(SafeHides) \in Nat
  BY <1>4, FS_CardinalityType
<1> QED BY <1>1, <1>4, <1>5 DEF Omitted

\* What the result is made of is not changed by making it.
LEMMA ResultsStay ==
  ASSUME UNCHANGED <<budget, filtering, hiding>>
  PROVE  /\ Kept' = Kept /\ CosmeticRules' = CosmeticRules
         /\ \A rules : Fitting(rules)' = Fitting(rules)
         /\ \A fit, taken : Counted(fit, taken)' = Counted(fit, taken)
<1>1. /\ network_rules' = network_rules /\ badfilters' = badfilters /\ suppress' = suppress
      /\ hides' = hides /\ lifted' = lifted /\ suppressed_selectors' = suppressed_selectors
      /\ generic_excluded' = generic_excluded /\ all_excluded' = all_excluded
      /\ budget' = budget
  BY DEF filtering, hiding
<1>2. Candidates' = Candidates
  BY <1>1 DEF Candidates
<1>3. Suppressed' = Suppressed
  BY <1>1, <1>2 DEF Suppressed
<1>4. Kept' = Kept
  BY <1>2, <1>3 DEF Kept
<1>5. SafeHides' = SafeHides
  BY <1>1 DEF SafeHides, Unsafe, ExcludedFrom
<1>6. CosmeticRules' = CosmeticRules
  BY <1>1, <1>5 DEF CosmeticRules, CosmeticRule, ExcludedFrom
<1>7. Omitted' = Omitted
  BY <1>1, <1>5 DEF Omitted
<1>8. \A fit, taken : Counted(fit, taken)' = Counted(fit, taken)
  BY <1>1, <1>3, <1>4, <1>6, <1>7 DEF Counted
<1>9. \A rules : Fitting(rules)' = Fitting(rules)
  BY <1>1 DEF Fitting
<1> QED BY <1>4, <1>6, <1>8, <1>9

LEMMA EmitKeeps ==
  ASSUME CompilerInv, NEW fit, NEW taken, Emit(fit, taken)
  PROVE  CompilerInv'
<1>1. /\ UNCHANGED <<budget, text, filtering, hiding, list_stats>>
      /\ source' = source /\ phase' = "compiled"
  BY DEF Emit
<1>2. /\ hides \in Seq(Lines) /\ diagnostic \in Diagnostics
      /\ source \in 1 .. Len(Sources)
  BY DEF CompilerInv, CompilerType
<1>3. Omitted \in Nat
  BY <1>2, OmittedFacts
<1>4. [i \in 1 .. Omitted |-> "omitted"] \in Seq(Reasons)
  BY <1>3 DEF Reasons
<1>5. diagnostic' \in Diagnostics
  BY <1>2, <1>4, AddAllFacts DEF Emit
<1>6. fit \in Fitting(Kept) /\ taken \in Taken(CosmeticRules)
      /\ coverage' = Counted(fit, taken)
      /\ compiled' = [network |-> SetToSeq(fit \ Blocks(fit)) \o SetToSeq(Blocks(fit)),
                      cosmetic |-> SetToSeq(taken), diagnostics |-> diagnostic'.samples]
  BY DEF Emit
<1>7. Kept' = Kept /\ CosmeticRules' = CosmeticRules
      /\ Fitting(Kept)' = Fitting(Kept) /\ Counted(fit, taken)' = Counted(fit, taken)
  BY <1>1, ResultsStay
<1>8. ResultOK'
  BY <1>6, <1>7 DEF ResultOK, Result
<1> QED BY <1>1, <1>2, <1>5, <1>8, GatheredStays

LEMMA ReturnedKeeps ==
  ASSUME CompilerInv, Returned, phase' \in {"refused", "returned"}
  PROVE  CompilerInv'
<1>1. NoStats \in Stats
  BY DEF NoStats, Stats
<1>2. [total |-> 0, samples |-> << >>] \in Diagnostics
  <2>1. << >> \in Seq([reason : Reasons]) /\ Len(<< >>) = 0
    OBVIOUS
  <2> QED BY <2>1, Bounds DEF Diagnostics
<1>3. << >> \in Seq(Lines) /\ Len(<< >>) = 0 /\ ToSet(<< >>) = {}
  BY DEF ToSet
<1>4. CompilerType'
  <2>1. text' \in [Ids -> Seq(Lines)] /\ list_stats' \in [Ids -> Stats]
    BY <1>1, <1>3 DEF Returned, Ids
  <2>2. source' \in 1 .. Len(Sources) /\ budget' \in Nat
    BY DEF Returned, CompilerInv, CompilerType
  <2>3. IsFiniteSet(network_rules') /\ hides' \in Seq(Lines)
    BY <1>3, FS_EmptySet DEF Returned
  <2>4. lifted' \in [Selectors -> SUBSET Hosts]
    BY DEF Returned
  <2> QED BY <1>2, <2>1, <2>2, <2>3, <2>4 DEF Returned, CompilerType
<1>5. \A s \in Ids : text'[s] = << >> /\ list_stats'[s] = NoStats
  BY DEF Returned, Ids
<1>6. LinesRead' = {}
  BY <1>3, <1>5 DEF LinesRead, Ids
<1>7. Gathered'
  BY <1>3, <1>6 DEF Returned, Gathered
<1>8. EveryLineCounted'
  BY <1>3, <1>5 DEF EveryLineCounted, NoStats, Ids
<1>9. UnsupportedCounted'
  BY <1>3, <1>5 DEF UnsupportedCounted
<1>10. ResultOK'
  BY DEF ResultOK
<1> QED BY <1>4, <1>7, <1>8, <1>9, <1>10 DEF CompilerInv

LEMMA NothingChanges ==
  ASSUME CompilerInv, UNCHANGED compilerVars
  PROVE  CompilerInv'
<1>1. /\ UNCHANGED <<budget, text, filtering, hiding, list_stats>>
      /\ source' = source /\ phase' = phase /\ diagnostic' = diagnostic
      /\ coverage' = coverage /\ compiled' = compiled
  BY DEF compilerVars, result
<1>2. /\ Kept' = Kept /\ CosmeticRules' = CosmeticRules
      /\ \A rules : Fitting(rules)' = Fitting(rules)
      /\ \A fit, taken : Counted(fit, taken)' = Counted(fit, taken)
  BY <1>1, ResultsStay
<1>3. ResultOK'
  BY <1>1, <1>2 DEF CompilerInv, ResultOK, Result
<1> QED BY <1>1, <1>3, GatheredStays DEF CompilerInv, CompilerType

LEMMA CompilerStep == CompilerInv /\ [Next]_vars => CompilerInv'
<1> SUFFICES ASSUME CompilerInv, [Next]_vars PROVE CompilerInv'
  OBVIOUS
<1>1. CASE Compile
  <2>1. ASSUME NEW l \in Lines,
               \/ Ignore(l) \/ Reject(l) \/ DropException(l)
               \/ Unhide(l) \/ Hide(l) \/ RejectCosmetic(l)
               \/ Badfilter(l) \/ HidingExemption(l) \/ Accept(l) \/ Omit(l)
        PROVE  CompilerInv'
    BY <2>1, QuietLineKeeps, HideKeeps, UnhideKeeps, BadfilterKeeps, FilterKeeps
  <2>2. ASSUME NEW fit, NEW taken, Emit(fit, taken) PROVE CompilerInv'
    BY <2>2, EmitKeeps
  <2> QED BY <1>1, <2>1, <2>2, SourceKeeps DEF Compile, CompilerNext
<1>2. CASE RefuseEmpty \/ RefuseManifest
  BY <1>2, ReturnedKeeps DEF RefuseEmpty, RefuseManifest
<1>3. CASE Persist
  BY <1>3, ReturnedKeeps DEF Persist
<1>4. CASE Store \/ FetchPages \/ UNCHANGED vars
  BY <1>4, NothingChanges DEF Store, FetchPages, vars
<1> QED BY <1>1, <1>2, <1>3, <1>4 DEF Next

LEMMA Compiling == Spec => []CompilerInv
<1>1. Init => CompilerInv
  BY CompilerStarts DEF Init
<1> QED BY <1>1, CompilerStep, PTL DEF Spec

-----------------------------------------------------------------------------
(* Hiding. *)

LEMMA HostFacts ==
  /\ None \notin Hosts /\ None \notin Selectors
  /\ \A url \in Urls : HostOf[url] \in Hosts /\ Covered[HostOf[url]] \subseteq Hosts
BY LinesAssumption

\* A cosmetic rule of the result is made of a line that was read.
LEMMA HidesCome ==
  ASSUME CompilerInv, phase = "compiled", NEW r \in ToSet(compiled["cosmetic"])
  PROVE  \E h \in LinesRead : Hiding(h) /\ ~Unsafe(h) /\ r = CosmeticRule(h)
<1>1. PICK fit \in Fitting(Kept), taken \in Taken(CosmeticRules) : compiled = Result(fit, taken)
  BY DEF CompilerInv, ResultOK
<1>2. hides \in Seq(Lines) /\ ToSet(hides) = {l \in LinesRead : Hiding(l)}
  BY DEF CompilerInv, CompilerType, Gathered
<1>3. IsFiniteSet(SafeHides)
  BY <1>2, OmittedFacts
<1>4. IsFiniteSet(CosmeticRules)
  <2> DEFINE f == [i \in SafeHides |-> CosmeticRule(hides[i])]
  <2>1. f \in Surjection(SafeHides, CosmeticRules)
    BY DEF Surjection, CosmeticRules
  <2> QED BY <1>3, <2>1, FS_Surjection
<1>5. taken \subseteq CosmeticRules /\ IsFiniteSet(taken)
  BY <1>1, <1>4, FS_Subset DEF Taken
<1>6. compiled["cosmetic"] = SetToSeq(taken)
  BY <1>1 DEF Result
<1>7. r \in CosmeticRules
  BY <1>5, <1>6, AsSequence
<1>8. PICK i \in SafeHides : r = CosmeticRule(hides[i])
  BY <1>7 DEF CosmeticRules
<1>9. i \in DOMAIN hides /\ ~Unsafe(hides[i])
  BY <1>8 DEF SafeHides
<1>10. hides[i] \in ToSet(hides)
  BY <1>9 DEF ToSet
<1> QED BY <1>2, <1>8, <1>9, <1>10

\* Where a line hides and is not unsafe, no #@# line protects the selector.
LEMMA NotUnhidden ==
  ASSUME CompilerInv, NEW h \in LinesRead, Hiding(h), ~Unsafe(h), NEW url \in Urls,
         ExcludedFrom(h) \cap Covered[HostOf[url]] = {}
  PROVE  ~Unhidden(url, h.selector)
<1> SUFFICES ASSUME NEW l \in LinesRead, l.kind = "unhide", l.selector = h.selector,
                    ~l.scope.wellformed \/ HoldsAt(l.scope.included, l.scope.excluded, HostOf[url])
             PROVE  FALSE
  BY DEF Unhidden
<1>1. Unhiding(l)
  BY DEF Unhiding, Hiding
<1>2. h \in Lines
  BY DEF CompilerInv, CompilerType, LinesRead, ToSet, Ids
<1>3. h.selector \in Selectors
  BY <1>2, LineFacts DEF Hiding, Cosmetic
<1>4. CASE OnlyIncludes(l.scope)
  <2>1. l.scope.wellformed /\ l.scope.included # {}
    BY <1>4 DEF OnlyIncludes, scopes_ok
  <2>2. l.scope.included \cap Covered[HostOf[url]] # {}
    BY <2>1 DEF HoldsAt
  <2>3. Lifting(l, h.selector) = l.scope.included
    BY <1>1, <1>4 DEF Lifting
  <2>4. Lifting(l, h.selector) \subseteq lifted[h.selector]
    <3>1. lifted[h.selector] = UNION {Lifting(x, h.selector) : x \in LinesRead}
      BY <1>3 DEF CompilerInv, Gathered
    <3> QED BY <3>1, Zenon
  <2> QED BY <2>2, <2>3, <2>4 DEF ExcludedFrom
<1>5. CASE ~OnlyIncludes(l.scope)
  <2>1. h.selector \in Showing(l)
    BY <1>1, <1>5 DEF Showing
  <2>2. h.selector \in suppressed_selectors
    BY <2>1, Zenon DEF CompilerInv, Gathered
  <2> QED BY <2>2 DEF Unsafe
<1> QED BY <1>4, <1>5

\* An exemption whose pages can be named is for hosts that cover the exempt page.
LEMMA ExemptHostsCover ==
  ASSUME NEW l \in Lines, l.kind = "filter", ExemptHosts(l) # None, NEW url \in Urls,
         MayMatch(l, [url |-> url, by |-> HostOf[url]])
  PROVE  HostsOrNone(ExemptHosts(l)) \cap Covered[HostOf[url]] # {}
<1>1. HostsOrNone(ExemptHosts(l)) = ExemptHosts(l)
  BY DEF HostsOrNone
<1>2. HostOf[url] # None
  BY HostFacts
<1>3. CASE l.scope # None
  <2>1. OnlyIncludes(l.scope) /\ ExemptHosts(l) = l.scope.included
    BY <1>3 DEF ExemptHosts
  <2>2. l.scope.wellformed /\ l.scope.included # {}
    BY <2>1 DEF OnlyIncludes, scopes_ok
  <2>3. HoldsAt(l.scope.included, l.scope.excluded, HostOf[url])
    BY <1>2, <1>3, <2>2 DEF MayMatch, ByHost
  <2> QED BY <1>1, <2>1, <2>2, <2>3 DEF HoldsAt
<1>4. CASE l.scope = None
  <2>1. Anchor[l.pattern] # None /\ ExemptHosts(l) = {Anchor[l.pattern]}
    BY <1>4 DEF ExemptHosts
  <2>2. l.pattern \in Patterns
    BY LineFacts DEF Filter
  <2>3. url \in Matched[l.pattern]
    BY <2>2, PatternAssumption DEF MayMatch, PatternMatches
  <2>4. Anchor[l.pattern] \in Covered[HostOf[url]]
    BY <2>1, <2>2, <2>3, PatternAssumption
  <2> QED BY <1>1, <2>1, <2>4
<1> QED BY <1>3, <1>4

LEMMA NotExempt ==
  ASSUME CompilerInv, NEW h \in LinesRead, Hiding(h), ~Unsafe(h), NEW url \in Urls,
         ExcludedFrom(h) \cap Covered[HostOf[url]] = {}
  PROVE  ~PageExempt(LiveExceptions, url, h.scope.included = {})
<1> SUFFICES ASSUME NEW l \in LiveExceptions,
                    ExemptsAll(l) \/ (h.scope.included = {} /\ "generichide" \in l.options),
                    MayMatch(l, [url |-> url, by |-> HostOf[url]])
             PROVE  FALSE
  BY DEF PageExempt
<1>1. l \in LinesRead /\ IsFilter(l) /\ l.exception /\ l.kind = "filter"
  BY DEF LiveExceptions, Live, NotTakenBack, IsFilter
<1>2. l \in Lines
  BY <1>1 DEF CompilerInv, CompilerType, LinesRead, ToSet, Ids
<1>3. Unnamed(l) \subseteq suppress
  <2>1. Suppressing(l) \subseteq suppress
    BY <1>1, Zenon DEF CompilerInv, Gathered
  <2> QED BY <1>1, <2>1 DEF Suppressing
<1>4. AllOut(l) \subseteq all_excluded /\ GenericOut(l) \subseteq generic_excluded
  BY <1>1, Zenon DEF CompilerInv, Gathered
<1>5. CASE ExemptsAll(l)
  <2>1. CASE ExemptHosts(l) = None
    <3>1. "cosmetic" \in Unnamed(l)
      BY <1>5, <2>1 DEF Unnamed
    <3> QED BY <1>3, <3>1 DEF Unsafe
  <2>2. CASE ExemptHosts(l) # None
    <3>1. HostsOrNone(ExemptHosts(l)) \subseteq all_excluded
      BY <1>1, <1>4, <1>5 DEF AllOut
    <3> QED BY <1>1, <1>2, <2>2, <3>1, ExemptHostsCover DEF ExcludedFrom
  <2> QED BY <2>1, <2>2
<1>6. CASE ~ExemptsAll(l)
  <2>0. ExemptsGeneric(l) /\ h.scope.included = {}
    BY <1>1, <1>6 DEF ExemptsGeneric
  <2>1. CASE ExemptHosts(l) = None
    <3>1. "generic" \in Unnamed(l)
      BY <2>0, <2>1 DEF Unnamed
    <3> QED BY <1>3, <2>0, <3>1 DEF Unsafe
  <2>2. CASE ExemptHosts(l) # None
    <3>1. HostsOrNone(ExemptHosts(l)) \subseteq generic_excluded
      BY <1>1, <1>4, <2>0 DEF GenericOut
    <3> QED BY <1>1, <1>2, <2>0, <2>2, <3>1, ExemptHostsCover DEF ExcludedFrom
  <2> QED BY <2>1, <2>2
<1> QED BY <1>5, <1>6

LEMMA HidingIsMeant == CompilerInv => NeverOverhides
<1> SUFFICES ASSUME CompilerInv, phase = "compiled", NEW url \in Urls, NEW s \in Selectors,
                    RulesHide(ToSet(compiled["cosmetic"]), url, s)
             PROVE  ListsHide(LiveExceptions, url, s)
  BY DEF NeverOverhides
<1>1. PICK r \in ToSet(compiled["cosmetic"]) :
        r.selector = s /\ HoldsAt(r.domains, r.excluded, HostOf[url])
  BY DEF RulesHide
<1>2. PICK h \in LinesRead : Hiding(h) /\ ~Unsafe(h) /\ r = CosmeticRule(h)
  BY HidesCome
<1>3. r.selector = h.selector /\ r.domains = h.scope.included /\ r.excluded = ExcludedFrom(h)
  BY <1>2 DEF CosmeticRule
<1>4. h.selector = s /\ ExcludedFrom(h) \cap Covered[HostOf[url]] = {}
  BY <1>1, <1>3 DEF HoldsAt
<1>5. h.scope.excluded \subseteq ExcludedFrom(h)
  BY DEF ExcludedFrom
<1>6. HoldsAt(h.scope.included, h.scope.excluded, HostOf[url])
  BY <1>1, <1>3, <1>5 DEF HoldsAt
<1>7. ~Unhidden(url, s) /\ ~PageExempt(LiveExceptions, url, h.scope.included = {})
  BY <1>2, <1>4, NotUnhidden, NotExempt
<1> QED BY <1>2, <1>4, <1>6, <1>7 DEF ListsHide, Hiding

(* For any lists, in any order: the compiled rules hide nothing that a line of *)
(* any list protects, unless it is an exception with a # in it.                *)
THEOREM HiddenOnlyAsListed == Spec => []NeverOverhides
BY Compiling, HidingIsMeant, PTL

-----------------------------------------------------------------------------
(* The reports. *)

LEMMA ImageFinite ==
  ASSUME NEW S, IsFiniteSet(S), NEW T, NEW f, f \in [S -> T], T = {f[x] : x \in S}
  PROVE  IsFiniteSet(T) /\ Cardinality(T) <= Cardinality(S)
<1>1. f \in Surjection(S, T)
  BY DEF Surjection
<1> QED BY <1>1, FS_Surjection

LEMMA ChunksFinite ==
  ASSUME NEW hosts, IsFiniteSet(hosts)
  PROVE  IsFiniteSet(Chunks(hosts))
<1> DEFINE h == SetToSeq(hosts)
           K == 0 .. (Len(h) - 1) \div MAX_PACKED
           f == [k \in K |-> {h[i] : i \in {j \in DOMAIN h : (j - 1) \div MAX_PACKED = k}}]
<1>1. Len(h) \in Nat
  BY AsSequence, FS_CardinalityType
<1>2. (Len(h) - 1) \div MAX_PACKED \in Int
  BY <1>1, Bounds
<1>3. IsFiniteSet(K)
  BY <1>2, FS_Interval
<1>4. Chunks(hosts) = {f[k] : k \in K}
  BY DEF Chunks
<1>5. f \in [K -> Chunks(hosts)]
  BY DEF Chunks
<1> HIDE DEF f, K
<1> QED BY <1>3, <1>4, <1>5, ImageFinite

LEMMA PackedFinite ==
  ASSUME NEW rules, IsFiniteSet(rules)
  PROVE  IsFiniteSet(Packed(rules))
<1> DEFINE whole == {r \in rules : FullHost[r.pattern] # None /\ ~r.cased}
           template(r) == [r EXCEPT !.pattern = None]
           hostsOf(t) == {FullHost[r.pattern] : r \in {w \in whole : template(w) = t}}
           T == {template(r) : r \in whole}
           pack(t) == {[t EXCEPT !.hosts = chunk] : chunk \in Chunks(hostsOf(t))}
           P == {pack(t) : t \in T}
<1>1. Packed(rules) = (rules \ whole) \cup UNION P
  BY Zenon DEF Packed
<1>2. IsFiniteSet(whole) /\ IsFiniteSet(rules \ whole)
  BY FS_Subset, FS_Difference
<1>3. IsFiniteSet(T)
  <2> DEFINE f == [r \in whole |-> template(r)]
  <2>1. T = {f[r] : r \in whole} /\ f \in [whole -> T]
    OBVIOUS
  <2> HIDE DEF f, T, whole
  <2> QED BY <1>2, <2>1, ImageFinite
<1>4. ASSUME NEW t PROVE IsFiniteSet(pack(t))
  <2> DEFINE W == {w \in whole : template(w) = t}
             f == [r \in W |-> FullHost[r.pattern]]
             C == Chunks(hostsOf(t))
             g == [chunk \in C |-> [t EXCEPT !.hosts = chunk]]
  <2>1. IsFiniteSet(W)
    BY <1>2, FS_Subset
  <2>3. IsFiniteSet(hostsOf(t))
    <3>1. hostsOf(t) = {f[r] : r \in W} /\ f \in [W -> hostsOf(t)]
      OBVIOUS
    <3> HIDE DEF f, W, hostsOf
    <3> QED BY <2>1, <3>1, ImageFinite
  <2>4. IsFiniteSet(C)
    BY <2>3, ChunksFinite
  <2>5. pack(t) = {g[chunk] : chunk \in C} /\ g \in [C -> pack(t)]
    OBVIOUS
  <2> HIDE DEF C, g, pack
  <2> QED BY <2>4, <2>5, ImageFinite
<1>5. IsFiniteSet(P)
  <2> DEFINE f == [t \in T |-> pack(t)]
  <2> HIDE DEF T, pack
  <2>1. P = {f[t] : t \in T} /\ f \in [T -> P]
    OBVIOUS
  <2> HIDE DEF f, P
  <2> QED BY <1>3, <2>1, ImageFinite
<1> HIDE DEF P, pack
<1>6. \A p \in P : IsFiniteSet(p)
  BY <1>4 DEF P
<1>7. IsFiniteSet(UNION P)
  BY <1>5, <1>6, FS_UNION
<1> HIDE DEF whole
<1> QED BY <1>1, <1>2, <1>7, FS_Union

LEMMA ResultFinite ==
  ASSUME CompilerType
  PROVE  /\ IsFiniteSet(Kept) /\ Kept \subseteq Candidates
         /\ IsFiniteSet(CosmeticRules) /\ Cardinality(CosmeticRules) <= Len(hides)
<1>1. IsFiniteSet(network_rules \ badfilters)
  BY FS_Difference DEF CompilerType
<1>2. IsFiniteSet(Candidates)
  BY <1>1, PackedFinite DEF Candidates
<1>3. IsFiniteSet(Kept) /\ Kept \subseteq Candidates
  BY <1>2, FS_Difference DEF Kept
<1>4. hides \in Seq(Lines)
  BY DEF CompilerType
<1>5. IsFiniteSet(SafeHides) /\ Cardinality(SafeHides) <= Len(hides)
      /\ Cardinality(SafeHides) \in Nat
  <2>1. Omitted \in Nat /\ IsFiniteSet(SafeHides) /\ Cardinality(SafeHides) \in Nat
    BY <1>4, OmittedFacts
  <2> QED BY <1>4, <2>1 DEF Omitted
<1>7. IsFiniteSet(CosmeticRules) /\ Cardinality(CosmeticRules) <= Cardinality(SafeHides)
  <2> DEFINE f == [i \in SafeHides |-> CosmeticRule(hides[i])]
  <2>1. CosmeticRules = {f[i] : i \in SafeHides} /\ f \in [SafeHides -> CosmeticRules]
    BY DEF CosmeticRules
  <2> HIDE DEF f
  <2> QED BY <1>5, <2>1, ImageFinite
<1>8. Cardinality(CosmeticRules) \in Nat
  BY <1>7, FS_CardinalityType
<1> QED BY <1>3, <1>4, <1>5, <1>7, <1>8

LEMMA ManifestIsAccepted ==
  CompilerInv /\ phase = "compiled" /\ CountsInBounds => ManifestAccepted
<1> SUFFICES ASSUME CompilerInv, phase = "compiled", CountsInBounds PROVE ManifestAccepted
  OBVIOUS
<1>1. PICK fit \in Fitting(Kept), taken \in Taken(CosmeticRules) :
        coverage = Counted(fit, taken) /\ compiled = Result(fit, taken)
  BY DEF CompilerInv, ResultOK
<1>2. /\ IsFiniteSet(Kept) /\ IsFiniteSet(CosmeticRules)
      /\ Cardinality(CosmeticRules) <= Len(hides) /\ Len(hides) \in Nat /\ budget \in Nat
  BY ResultFinite DEF CompilerInv, CompilerType
<1>3. Cardinality(Kept) \in Nat /\ Cardinality(CosmeticRules) \in Nat
  BY <1>2, FS_CardinalityType
<1>4. IsFiniteSet(fit) /\ Cardinality(fit) \in Nat /\ Cardinality(fit) <= Cardinality(Kept)
      /\ Cardinality(fit) <= budget
  <2>1. fit \in SUBSET Kept
    BY <1>1 DEF Fitting
  <2>2. IsFiniteSet(fit) /\ Cardinality(fit) <= Cardinality(Kept)
    BY <1>2, <2>1, FS_Subset
  <2>3. Cardinality(fit) = IF Cardinality(Kept) < budget THEN Cardinality(Kept) ELSE budget
    BY <1>1 DEF Fitting
  <2> QED BY <1>2, <1>3, <2>2, <2>3
<1>5. IsFiniteSet(taken) /\ Cardinality(taken) \in Nat
      /\ Cardinality(taken) <= Cardinality(CosmeticRules) /\ Cardinality(taken) <= MAX_COSMETIC
  <2>1. taken \in SUBSET CosmeticRules
    BY <1>1 DEF Taken
  <2>2. IsFiniteSet(taken) /\ Cardinality(taken) <= Cardinality(CosmeticRules)
    BY <1>2, <2>1, FS_Subset
  <2>3. Cardinality(taken) = IF Cardinality(CosmeticRules) < MAX_COSMETIC
                               THEN Cardinality(CosmeticRules) ELSE MAX_COSMETIC
    BY <1>1 DEF Taken
  <2> QED BY <1>3, <2>2, <2>3, Bounds
<1>6. Len(compiled["network"]) = Cardinality(fit)
  <2> DEFINE B == Blocks(fit)
  <2>1. B \subseteq fit /\ B \cap fit = B
    BY DEF Blocks
  <2> HIDE DEF B
  <2>2. IsFiniteSet(B) /\ IsFiniteSet(fit \ B)
        /\ Cardinality(fit \ B) = Cardinality(fit) - Cardinality(fit \cap B)
    BY <1>4, <2>1, FS_Subset, FS_Difference
  <2>3. fit \cap B = B
    BY <2>1
  <2>4. Cardinality(B) \in Nat /\ Cardinality(fit \ B) \in Nat
    BY <2>2, FS_CardinalityType
  <2>5. SetToSeq(fit \ B) \in Seq(fit) /\ SetToSeq(B) \in Seq(fit)
        /\ Len(SetToSeq(fit \ B)) = Cardinality(fit \ B) /\ Len(SetToSeq(B)) = Cardinality(B)
    <3>1. SetToSeq(fit \ B) \in Seq(fit \ B) /\ SetToSeq(B) \in Seq(B)
          /\ Len(SetToSeq(fit \ B)) = Cardinality(fit \ B) /\ Len(SetToSeq(B)) = Cardinality(B)
      BY <2>2, AsSequence
    <3> QED BY <2>1, <3>1
  <2>6. compiled["network"] = SetToSeq(fit \ B) \o SetToSeq(B)
    BY <1>1 DEF Result, B
  <2>7. Len(SetToSeq(fit \ B) \o SetToSeq(B)) = Cardinality(fit \ B) + Cardinality(B)
    BY <2>5
  <2>8. Cardinality(fit \ B) = Cardinality(fit) - Cardinality(B)
    BY <2>2, <2>3
  <2> QED BY <1>4, <2>4, <2>6, <2>7, <2>8
<1>7. Len(compiled["cosmetic"]) = Cardinality(taken)
  BY <1>1, <1>5, AsSequence DEF Result
<1>8. compiled["diagnostics"] = diagnostic.samples
  BY <1>1 DEF Result
<1>9. Len(diagnostic.samples) <= MAX_DIAGNOSTICS /\ Len(diagnostic.samples) <= diagnostic.total
  BY DEF CompilerInv, CompilerType, Diagnostics
<1>10. /\ coverage.networkSupported = Cardinality(Kept)
       /\ coverage.networkDropped = Cardinality(Kept) - Cardinality(fit)
       /\ coverage.cosmeticSupported = Len(hides)
       /\ coverage.cosmeticDropped = Cardinality(CosmeticRules) - Cardinality(taken)
  BY <1>1 DEF Counted
<1> QED BY <1>2, <1>3, <1>4, <1>5, <1>6, <1>7, <1>8, <1>9, <1>10 DEF ManifestAccepted

(* Whatever the lists: every line is counted, and the client accepts the counts *)
(* of its own companion, if none is above MAX_COUNT.                            *)
THEOREM ReportsAreConsistent == Spec => []ReportsAddUp
<1>1. CompilerInv => ReportsAddUp
  BY ManifestIsAccepted DEF ReportsAddUp, CompilerInv
<1> QED BY <1>1, Compiling, PTL

-----------------------------------------------------------------------------
(* Packing. *)

Actions == {"block", "allow", "allowAllRequests"}

\* A rule as it is before it is packed.
PlainRule ==
  [action : Actions, pattern : Patterns, hosts : {{}},
   types : SUBSET (ResourceTypes \cup FrameTypes), included : SUBSET Hosts,
   excluded : SUBSET Hosts, cased : BOOLEAN]

\* What asks for what.
Fetch(f) == f.url \in Urls

LEMMA Quotients ==
  ASSUME NEW a \in Nat, NEW b \in Nat, a <= b, NEW m \in Nat, m > 0
  PROVE  a \div m \in Nat /\ b \div m \in Nat /\ a \div m <= b \div m
<1> DEFINE p == a \div m
           q == b \div m
<1>1. p \in Int /\ q \in Int
  OBVIOUS
<1>2. m * p <= a /\ a < m * p + m /\ m * q <= b /\ b < m * q + m
  OBVIOUS
<1> HIDE DEF p, q
<1>3. m * p < m * (q + 1)
  BY <1>1, <1>2
<1>4. p < q + 1
  BY <1>1, <1>3
<1>5. p >= 0 /\ q >= 0
  BY <1>1, <1>2
<1> QED BY <1>1, <1>4, <1>5 DEF p, q

\* Every host is in one of the chunks.
LEMMA ChunksCover ==
  ASSUME NEW hosts, IsFiniteSet(hosts)
  PROVE  /\ \A chunk \in Chunks(hosts) : chunk \subseteq hosts
         /\ \A h \in hosts : \E chunk \in Chunks(hosts) : h \in chunk
<1> DEFINE s == SetToSeq(hosts)
           K == 0 .. (Len(s) - 1) \div MAX_PACKED
           part(k) == {s[i] : i \in {j \in DOMAIN s : (j - 1) \div MAX_PACKED = k}}
<1>1. Chunks(hosts) = {part(k) : k \in K}
  BY DEF Chunks
<1>2. s \in Seq(hosts) /\ ToSet(s) = hosts
  BY AsSequence
<1>3. \A i \in DOMAIN s : s[i] \in hosts
  BY <1>2
<1>4. \A k : part(k) \subseteq hosts
  BY <1>3
<1>5. ASSUME NEW h \in hosts PROVE \E k \in K : h \in part(k)
  <2>1. PICK i \in DOMAIN s : s[i] = h
    BY <1>2 DEF ToSet
  <2>2. i \in 1 .. Len(s) /\ Len(s) \in Nat
    BY <1>2, <2>1
  <2>3. (i - 1) \div MAX_PACKED \in Nat
        /\ (i - 1) \div MAX_PACKED <= (Len(s) - 1) \div MAX_PACKED
        /\ (Len(s) - 1) \div MAX_PACKED \in Nat
    <3>1. i - 1 \in Nat /\ Len(s) - 1 \in Nat /\ i - 1 <= Len(s) - 1
      BY <2>2
    <3> HIDE DEF s
    <3> QED BY <3>1, Quotients, Bounds
  <2>4. (i - 1) \div MAX_PACKED \in K
    BY <2>3
  <2>5. h \in part((i - 1) \div MAX_PACKED)
    BY <2>1
  <2> HIDE DEF K, part
  <2> QED BY <2>4, <2>5
<1> HIDE DEF K, part
<1> QED BY <1>1, <1>4, <1>5

\* A rule for a whole host holds for what its pattern matches.
LEMMA WholeHost ==
  ASSUME NEW w \in PlainRule, FullHost[w.pattern] # None, ~w.cased, NEW f, Fetch(f)
  PROVE  PatternMatches(w.pattern, w.cased, f.url)
           <=> FullHost[w.pattern] \in Covered[HostOf[f.url]]
<1>1. w.pattern \in Patterns
  BY DEF PlainRule
<1>2. Matched[w.pattern] = {u \in Urls : FullHost[w.pattern] \in Covered[HostOf[u]]}
  BY <1>1, PatternAssumption
<1> QED BY <1>2 DEF PatternMatches, Fetch

LEMMA PatternIsNotNone ==
  ASSUME NEW w \in PlainRule
  PROVE  w.pattern # None
BY LinesAssumption DEF PlainRule

\* The parts of Packed.
Whole(rules) == {r \in rules : FullHost[r.pattern] # None /\ ~r.cased}
Template(r) == [r EXCEPT !.pattern = None]
HostsAlike(rules, t) == {FullHost[r.pattern] : r \in {w \in Whole(rules) : Template(w) = t}}
PackedAs(t, chunk) == [t EXCEPT !.hosts = chunk]

LEMMA PackedParts ==
  ASSUME NEW rules
  PROVE  Packed(rules) =
           (rules \ Whole(rules))
             \cup UNION {{PackedAs(t, chunk) : chunk \in Chunks(HostsAlike(rules, t))} :
                          t \in {Template(r) : r \in Whole(rules)}}
BY Zenon DEF Packed, Whole, Template, HostsAlike, PackedAs

LEMMA PackedMembers ==
  ASSUME NEW rules, NEW r
  PROVE  r \in Packed(rules) <=>
           \/ r \in rules \ Whole(rules)
           \/ \E v \in Whole(rules) : \E chunk \in Chunks(HostsAlike(rules, Template(v))) :
                r = PackedAs(Template(v), chunk)
BY PackedParts

LEMMA HostsAlikeFinite ==
  ASSUME NEW rules, IsFiniteSet(rules), NEW t
  PROVE  /\ IsFiniteSet(HostsAlike(rules, t))
         /\ \A chunk \in Chunks(HostsAlike(rules, t)) : chunk \subseteq HostsAlike(rules, t)
         /\ \A h \in HostsAlike(rules, t) : \E chunk \in Chunks(HostsAlike(rules, t)) : h \in chunk
<1> DEFINE W == {w \in Whole(rules) : Template(w) = t}
           g == [w \in W |-> FullHost[w.pattern]]
<1>1. IsFiniteSet(W)
  BY FS_Subset DEF Whole
<1>2. HostsAlike(rules, t) = {g[w] : w \in W} /\ g \in [W -> HostsAlike(rules, t)]
  BY DEF HostsAlike
<1> HIDE DEF W, g
<1>3. IsFiniteSet(HostsAlike(rules, t))
  BY <1>1, <1>2, ImageFinite
<1> QED BY <1>3, ChunksCover

\* What packing keeps of a rule.
LEMMA PackedFields ==
  ASSUME NEW w \in PlainRule, NEW chunk, NEW r, r = PackedAs(Template(w), chunk)
  PROVE  /\ r.pattern = None /\ r.hosts = chunk
         /\ r.action = w.action /\ r.types = w.types /\ r.included = w.included
         /\ r.excluded = w.excluded
BY DEF PlainRule, PackedAs, Template

LEMMA AlikeFields ==
  ASSUME NEW w \in PlainRule, NEW v \in PlainRule, Template(w) = Template(v)
  PROVE  w.action = v.action /\ w.types = v.types /\ w.included = v.included
         /\ w.excluded = v.excluded
<1>1. /\ Template(w).action = w.action /\ Template(w).types = w.types
      /\ Template(w).included = w.included /\ Template(w).excluded = w.excluded
  BY DEF PlainRule, Template
<1>2. /\ Template(v).action = v.action /\ Template(v).types = v.types
      /\ Template(v).included = v.included /\ Template(v).excluded = v.excluded
  BY DEF PlainRule, Template
<1> QED BY <1>1, <1>2

\* What a packed rule matches, a rule it is packed from matches.
LEMMA UnpackedMatches ==
  ASSUME NEW rules, IsFiniteSet(rules), rules \subseteq PlainRule, NEW r \in Packed(rules),
         NEW f, Fetch(f), RuleMatches(r, f)
  PROVE  \E w \in rules : w.action = r.action /\ RuleMatches(w, f)
<1>1. CASE r \in rules
  BY <1>1
<1>2. ASSUME NEW v \in Whole(rules), NEW chunk \in Chunks(HostsAlike(rules, Template(v))),
             r = PackedAs(Template(v), chunk)
      PROVE  \E w \in rules : w.action = r.action /\ RuleMatches(w, f)
  <2>1. v \in PlainRule
    BY DEF Whole
  <2>2. /\ r.pattern = None /\ r.hosts = chunk
        /\ r.action = v.action /\ r.types = v.types /\ r.included = v.included
        /\ r.excluded = v.excluded
    BY <1>2, <2>1, PackedFields
  <2>3. PICK h \in chunk : h \in Covered[HostOf[f.url]]
    BY <2>2 DEF RuleMatches
  <2>4. h \in HostsAlike(rules, Template(v))
    BY <1>2, <2>3, HostsAlikeFinite
  <2>5. PICK w \in Whole(rules) : Template(w) = Template(v) /\ h = FullHost[w.pattern]
    BY <2>4 DEF HostsAlike
  <2>6. w \in PlainRule /\ w \in rules /\ FullHost[w.pattern] # None /\ ~w.cased
    BY <2>5 DEF Whole
  <2>7. w.action = v.action /\ w.types = v.types /\ w.included = v.included
        /\ w.excluded = v.excluded
    BY <2>1, <2>5, <2>6, AlikeFields
  <2>8. PatternMatches(w.pattern, w.cased, f.url) /\ w.pattern # None
    BY <2>3, <2>5, <2>6, WholeHost, PatternIsNotNone
  <2>9. RuleMatches(w, f)
    BY <2>2, <2>7, <2>8 DEF RuleMatches
  <2> QED BY <2>2, <2>6, <2>7, <2>9
<1> QED BY <1>1, <1>2, PackedMembers

\* What a rule matches, a rule it is packed into matches.
LEMMA PackedMatches ==
  ASSUME NEW rules, IsFiniteSet(rules), rules \subseteq PlainRule, NEW w \in rules,
         NEW f, Fetch(f), RuleMatches(w, f)
  PROVE  \E r \in Packed(rules) : r.action = w.action /\ RuleMatches(r, f)
<1>1. CASE w \notin Whole(rules)
  BY <1>1, PackedMembers
<1>2. CASE w \in Whole(rules)
  <2>1. FullHost[w.pattern] \in HostsAlike(rules, Template(w))
    BY <1>2 DEF HostsAlike
  <2>2. PICK chunk \in Chunks(HostsAlike(rules, Template(w))) : FullHost[w.pattern] \in chunk
    BY <2>1, HostsAlikeFinite
  <2> DEFINE r == PackedAs(Template(w), chunk)
  <2>3. r \in Packed(rules)
    BY <1>2, <2>2, PackedMembers
  <2>4. w \in PlainRule /\ FullHost[w.pattern] # None /\ ~w.cased
    BY <1>2 DEF Whole
  <2>5. /\ r.pattern = None /\ r.hosts = chunk
        /\ r.action = w.action /\ r.types = w.types /\ r.included = w.included
        /\ r.excluded = w.excluded
    BY <2>4, PackedFields
  <2>6. FullHost[w.pattern] \in Covered[HostOf[f.url]]
    BY <2>4, WholeHost, PatternIsNotNone DEF RuleMatches
  <2> HIDE DEF r
  <2>7. RuleMatches(r, f)
    BY <2>2, <2>5, <2>6 DEF RuleMatches
  <2> QED BY <2>3, <2>5, <2>7
<1> QED BY <1>1, <1>2

-----------------------------------------------------------------------------
(* A filter and its rules say the same. *)

LEMMA TypesFacts ==
  ASSUME NEW l \in Filter
  PROVE  TypesOf(l) \subseteq ResourceTypes
BY DEF Filter, TypesOf

LEMMA RuleFields ==
  ASSUME NEW l, NEW action, NEW types
  PROVE  /\ Rule(l, action, types).action = action /\ Rule(l, action, types).types = types
         /\ Rule(l, action, types).pattern = l.pattern
         /\ Rule(l, action, types).cased = ("match-case" \in l.options)
         /\ Rule(l, action, types).included = (IF l.scope = None THEN {} ELSE l.scope.included)
         /\ Rule(l, action, types).excluded = (IF l.scope = None THEN {} ELSE l.scope.excluded)
BY DEF Rule

LEMMA RuleIsPlain ==
  ASSUME NEW l \in Filter, NEW action \in Actions,
         NEW types \in SUBSET (ResourceTypes \cup FrameTypes)
  PROVE  Rule(l, action, types) \in PlainRule
<1>1. l.pattern \in Patterns /\ (l.scope = None \/ l.scope \in Scope)
  BY DEF Filter
<1>2. (IF l.scope = None THEN {} ELSE l.scope.included) \in SUBSET Hosts
  BY <1>1 DEF Scope
<1>3. (IF l.scope = None THEN {} ELSE l.scope.excluded) \in SUBSET Hosts
  BY <1>1 DEF Scope
<1>4. ("match-case" \in l.options) \in BOOLEAN
  OBVIOUS
<1> QED BY <1>1, <1>2, <1>3, <1>4 DEF Rule, PlainRule

LEMMA RuleMatchesFilter ==
  ASSUME NEW l \in Filter, l.scope # None => l.scope.wellformed, NEW action, NEW types, NEW f
  PROVE  RuleMatches(Rule(l, action, types), f) <=> f.type \in types /\ MayMatch(l, f)
<1> DEFINE r == Rule(l, action, types)
<1>1. l.pattern # None
  BY LinesAssumption DEF Filter
<1>2. /\ r.types = types /\ r.pattern = l.pattern /\ r.cased = ("match-case" \in l.options)
      /\ r.included = (IF l.scope = None THEN {} ELSE l.scope.included)
      /\ r.excluded = (IF l.scope = None THEN {} ELSE l.scope.excluded)
  BY RuleFields
<1> HIDE DEF r
<1>3. ByHost({}, {}, f.by)
  BY DEF ByHost, HoldsAt
<1>4. ByHost(r.included, r.excluded, f.by)
        <=> l.scope = None \/ ~l.scope.wellformed
              \/ ByHost(l.scope.included, l.scope.excluded, f.by)
  BY <1>2, <1>3
<1>5. PatternMatches(r.pattern, r.cased, f.url)
        <=> PatternMatches(l.pattern, "match-case" \in l.options, f.url)
  BY <1>2
<1>6. RuleMatches(r, f) <=> f.type \in types /\ MayMatch(l, f)
  BY <1>1, <1>2, <1>4, <1>5 DEF RuleMatches, MayMatch
<1> QED BY <1>6 DEF r

\* What is taken out of a filter does not change what it matches.
LEMMA TranslatedFacts ==
  ASSUME NEW l \in Filter
  PROVE  /\ Translated(l) \in Filter /\ Translated(l).exception = l.exception
         /\ Translated(l).types = l.types /\ Translated(l).not = l.not
         /\ Translated(l).scope = l.scope /\ Translated(l).pattern = l.pattern
         /\ Translated(l).options = (IF l.exception THEN l.options \ HidingOptions ELSE l.options)
BY DEF Filter, Translated

LEMMA TranslatedMatches ==
  ASSUME NEW l \in Filter, NEW f
  PROVE  /\ MayMatch(Translated(l), f) <=> MayMatch(l, f)
         /\ TypesOf(Translated(l)) = TypesOf(l)
<1>1. "match-case" \in Translated(l).options <=> "match-case" \in l.options
  BY TranslatedFacts DEF HidingOptions
<1>2. MayMatch(Translated(l), f) <=> MayMatch(l, f)
  <2> DEFINE t == Translated(l)
  <2>1. t.scope = l.scope /\ t.pattern = l.pattern
    BY TranslatedFacts
  <2>2. ("match-case" \in t.options) = ("match-case" \in l.options)
    BY <1>1
  <2> HIDE DEF t
  <2>3. MayMatch(t, f) <=> MayMatch(l, f)
    BY <2>1, <2>2 DEF MayMatch
  <2> QED BY <2>3 DEF t
<1> QED BY <1>2, TranslatedFacts DEF TypesOf

\* The filter without its modifiers, which its guards are made of.
Anywhere(l) == [l EXCEPT !.scope = None, !.options = {}]

LEMMA GuardMatches ==
  ASSUME NEW l \in Filter, NEW f, Fetch(f), MayMatch(l, f), NEW action, NEW types, f.type \in types
  PROVE  RuleMatches(Rule(Anywhere(l), action, types), f)
<1>1. /\ Anywhere(l) \in Filter /\ Anywhere(l).scope = None /\ Anywhere(l).options = {}
      /\ Anywhere(l).pattern = l.pattern
  BY DEF Anywhere, Filter
<1>2. l.pattern \in Patterns
  BY DEF Filter
<1>3. f.url \in Matched[l.pattern]
  BY <1>2, PatternAssumption DEF MayMatch, PatternMatches
<1>4. MayMatch(Anywhere(l), f)
  BY <1>1, <1>3 DEF MayMatch, PatternMatches
<1> QED BY <1>1, <1>4, RuleMatchesFilter

LEMMA GuardsAre ==
  ASSUME NEW l
  PROVE  Guards(l) = {Rule(Anywhere(l), "allow", ResourceTypes)}
                       \cup {Rule(Anywhere(l), "allowAllRequests", FrameTypes) :
                               o \in l.options \cap {"document", "genericblock"}}
BY DEF Guards, Anywhere

LEMMA RulesAre ==
  ASSUME NEW l, NEW w \in Rules(l)
  PROVE  \/ "document" \in l.options /\ w = Rule(l, "allowAllRequests", FrameTypes)
         \/ /\ "document" \notin l.options \/ l.types \cup l.not # {}
            /\ w = Rule(l, IF l.exception THEN "allow" ELSE "block", TypesOf(l))
BY DEF Rules

LEMMA GivenIsPlain ==
  ASSUME NEW l \in Lines, NEW w \in Given(l)
  PROVE  w \in PlainRule
<1>1. l \in Filter
  BY LineFacts DEF Given, IsFilter
<1>2. Anywhere(l) \in Filter
  BY <1>1 DEF Anywhere, Filter
<1>3. CASE w \in Rules(Translated(l))
  <2>1. Translated(l) \in Filter
    BY <1>1, TranslatedFacts
  <2>2. TypesOf(Translated(l)) \in SUBSET (ResourceTypes \cup FrameTypes)
    BY <2>1, TypesFacts
  <2>3. FrameTypes \in SUBSET (ResourceTypes \cup FrameTypes)
    OBVIOUS
  <2>4. {"block", "allow", "allowAllRequests"} = Actions
    BY DEF Actions
  <2>5. (IF Translated(l).exception THEN "allow" ELSE "block") \in Actions
    BY <2>4
  <2> QED BY <1>3, <2>1, <2>2, <2>3, <2>4, <2>5, RulesAre, RuleIsPlain
<1>4. CASE w \in Guards(l)
  <2>1. ResourceTypes \in SUBSET (ResourceTypes \cup FrameTypes)
        /\ FrameTypes \in SUBSET (ResourceTypes \cup FrameTypes)
    OBVIOUS
  <2>2. "allow" \in Actions /\ "allowAllRequests" \in Actions
    BY DEF Actions
  <2>3. w = Rule(Anywhere(l), "allow", ResourceTypes)
        \/ w = Rule(Anywhere(l), "allowAllRequests", FrameTypes)
    BY <1>4, GuardsAre
  <2> QED BY <1>2, <2>1, <2>2, <2>3, RuleIsPlain
<1> QED BY <1>3, <1>4 DEF Given

-----------------------------------------------------------------------------
(* From what was gathered to the result. *)

LEMMA LinesReadAreLines == CompilerType => LinesRead \subseteq Lines
BY DEF CompilerType, LinesRead, ToSet, Ids

Installed == network_rules \ badfilters

LEMMA InstalledFacts ==
  ASSUME CompilerInv
  PROVE  /\ IsFiniteSet(Installed) /\ Installed \subseteq PlainRule
         /\ \A w \in Installed : w \notin badfilters /\ \E l \in LinesRead : w \in Given(l)
<1>1. network_rules = UNION {Given(l) : l \in LinesRead}
  BY DEF CompilerInv, Gathered
<1>2. LinesRead \subseteq Lines
  BY LinesReadAreLines DEF CompilerInv
<1>3. IsFiniteSet(Installed)
  BY FS_Difference DEF Installed, CompilerInv, CompilerType
<1> QED BY <1>1, <1>2, <1>3, GivenIsPlain DEF Installed

LEMMA ConcatenatedSet ==
  ASSUME NEW S, NEW s \in Seq(S), NEW t \in Seq(S)
  PROVE  ToSet(s \o t) = ToSet(s) \cup ToSet(t)
<1> DEFINE u == s \o t
<1>1. /\ Len(s) \in Nat /\ Len(t) \in Nat /\ Len(u) = Len(s) + Len(t)
      /\ DOMAIN s = 1 .. Len(s) /\ DOMAIN t = 1 .. Len(t) /\ DOMAIN u = 1 .. Len(s) + Len(t)
  OBVIOUS
<1>2. \A i \in 1 .. Len(s) + Len(t) : u[i] = IF i <= Len(s) THEN s[i] ELSE t[i - Len(s)]
  OBVIOUS
<1> HIDE DEF u
<1>3. ToSet(u) \subseteq ToSet(s) \cup ToSet(t)
  <2> SUFFICES ASSUME NEW i \in DOMAIN u PROVE u[i] \in ToSet(s) \cup ToSet(t)
    BY DEF ToSet
  <2>1. CASE i <= Len(s)
    BY <1>1, <1>2, <2>1 DEF ToSet
  <2>2. CASE ~(i <= Len(s))
    <3>1. i - Len(s) \in DOMAIN t /\ u[i] = t[i - Len(s)]
      BY <1>1, <1>2, <2>2
    <3> QED BY <3>1 DEF ToSet
  <2> QED BY <2>1, <2>2
<1>4. ToSet(s) \subseteq ToSet(u)
  <2> SUFFICES ASSUME NEW i \in DOMAIN s PROVE s[i] \in ToSet(u)
    BY DEF ToSet
  <2>1. i \in DOMAIN u /\ u[i] = s[i]
    BY <1>1, <1>2
  <2> QED BY <2>1 DEF ToSet
<1>5. ToSet(t) \subseteq ToSet(u)
  <2> SUFFICES ASSUME NEW i \in DOMAIN t PROVE t[i] \in ToSet(u)
    BY DEF ToSet
  <2>1. i + Len(s) \in DOMAIN u /\ u[i + Len(s)] = t[i]
    BY <1>1, <1>2
  <2> QED BY <2>1 DEF ToSet
<1> QED BY <1>3, <1>4, <1>5 DEF u

\* The rules of the result are the ones that fit.
LEMMA NetworkFits ==
  ASSUME CompilerInv, phase = "compiled"
  PROVE  /\ Network \in Fitting(Kept) /\ IsFiniteSet(Network)
         /\ coverage.networkDropped = Cardinality(Kept) - Cardinality(Network)
<1>1. PICK fit \in Fitting(Kept), taken \in Taken(CosmeticRules) :
        coverage = Counted(fit, taken) /\ compiled = Result(fit, taken)
  BY DEF CompilerInv, ResultOK
<1>2. IsFiniteSet(fit)
  BY <1>1, ResultFinite, FS_Subset DEF CompilerInv, Fitting
<1> DEFINE B == Blocks(fit)
<1>3. B \subseteq fit
  BY DEF Blocks
<1> HIDE DEF B
<1>4. IsFiniteSet(B) /\ IsFiniteSet(fit \ B)
  BY <1>2, <1>3, FS_Subset, FS_Difference
<1> DEFINE a == SetToSeq(fit \ B)
           b == SetToSeq(B)
<1>5. a \in Seq(fit \ B) /\ ToSet(a) = fit \ B /\ b \in Seq(B) /\ ToSet(b) = B
  BY <1>4, AsSequence
<1>6. compiled["network"] = a \o b
  BY <1>1 DEF Result, B
<1> HIDE DEF a, b
<1>7. Network = (fit \ B) \cup B
  <2>1. a \in Seq(fit) /\ b \in Seq(fit)
    BY <1>3, <1>5
  <2>2. ToSet(a \o b) = ToSet(a) \cup ToSet(b)
    BY <2>1, ConcatenatedSet
  <2> QED BY <1>5, <1>6, <2>2, Zenon DEF Network
<1>8. Network = fit
  BY <1>3, <1>7
<1>9. coverage.networkDropped = Cardinality(Kept) - Cardinality(fit)
  BY <1>1 DEF Counted
<1> QED BY <1>1, <1>2, <1>8, <1>9

LEMMA NetworkIsSequence ==
  ASSUME CompilerInv, phase = "compiled"
  PROVE  compiled["network"] \in Seq(Network)
<1>1. PICK fit \in Fitting(Kept), taken \in Taken(CosmeticRules) : compiled = Result(fit, taken)
  BY DEF CompilerInv, ResultOK
<1>2. IsFiniteSet(fit)
  BY <1>1, ResultFinite, FS_Subset DEF CompilerInv, Fitting
<1> DEFINE B == Blocks(fit)
           a == SetToSeq(fit \ B)
           b == SetToSeq(B)
<1>3. B \subseteq fit
  BY DEF Blocks
<1>4. compiled["network"] = a \o b
  BY <1>1 DEF Result
<1> HIDE DEF B
<1>5. a \in Seq(fit \ B) /\ b \in Seq(B)
  BY <1>2, <1>3, FS_Subset, FS_Difference, AsSequence
<1> HIDE DEF a, b
<1>6. a \o b \in Seq(fit)
  <2>1. a \in Seq(fit) /\ b \in Seq(fit)
    BY <1>3, <1>5
  <2> QED BY <2>1
<1> QED BY <1>4, <1>6, OwnElements DEF Network

\* What is not a block and is installed is in the result, packed or not.
LEMMA ExceptionsStay ==
  ASSUME CompilerInv, phase = "compiled", NEW w \in Installed, w.action # "block",
         NEW f, Fetch(f), RuleMatches(w, f)
  PROVE  \E r \in Network : r.action = w.action /\ RuleMatches(r, f)
<1>1. PICK r \in Candidates : r.action = w.action /\ RuleMatches(r, f)
  <2>1. \E r \in Packed(Installed) : r.action = w.action /\ RuleMatches(r, f)
    BY InstalledFacts, PackedMatches
  <2> QED BY <2>1 DEF Candidates, Installed
<1>2. r \in Kept \ Blocks(Kept)
  BY <1>1 DEF Kept, Suppressed, Blocks
<1>3. Kept \ Blocks(Kept) \subseteq Network
  BY NetworkFits DEF Fitting
<1> QED BY <1>1, <1>2, <1>3

LEMMA ResultIsInstalled ==
  ASSUME CompilerInv, phase = "compiled", NEW r \in Network, NEW f, Fetch(f), RuleMatches(r, f)
  PROVE  \E w \in Installed : w.action = r.action /\ RuleMatches(w, f)
<1>1. r \in Packed(Installed)
  <2>1. Network \subseteq Candidates
    BY NetworkFits DEF Fitting, Kept
  <2> QED BY <2>1 DEF Candidates, Installed
<1> QED BY <1>1, InstalledFacts, UnpackedMatches

-----------------------------------------------------------------------------
(* Blocking. *)

\* A badfilter line whose target was read, and which is not another filter, takes it back.
LEMMA TakenBackUnlessLive ==
  ASSUME CompilerInv, NEW l \in LinesRead, IsFilter(l), l \notin Live, Supported(l)
  PROVE  Rules(l) \subseteq badfilters
<1>1. PICK b \in LinesRead : b.kind = "filter" /\ b # l /\ Target(b) = l
  BY DEF Live, NotTakenBack, IsFilter
<1>2. b \in Filter
  BY <1>1, LinesReadAreLines, LineFacts DEF CompilerInv
<1>3. "badfilter" \in b.options
  <2> SUFFICES ASSUME "badfilter" \notin b.options PROVE FALSE
    OBVIOUS
  <2>1. b.options \ {"badfilter"} = b.options
    OBVIOUS
  <2>2. Target(b) = b
    BY <1>2, <2>1 DEF Target, Filter
  <2> QED BY <1>1, <2>2
<1>4. TakenBack(b) = Rules(l)
  BY <1>1, <1>3 DEF TakenBack
<1>5. badfilters = UNION {TakenBack(x) : x \in LinesRead}
  BY DEF CompilerInv, Gathered
<1> QED BY <1>4, <1>5

\* A rule that is not an exception's blocks.
LEMMA RulesOfAnException ==
  ASSUME NEW l \in Filter, NEW w \in Given(l)
  PROVE  w.action # "block" <=> l.exception
<1>1. Translated(l).exception = l.exception /\ l.exception \in BOOLEAN
  BY TranslatedFacts DEF Filter
<1>2. CASE w \in Guards(l) /\ l.exception
  <2>1. w.action \in {"allow", "allowAllRequests"}
    BY <1>2, GuardsAre, RuleFields
  <2> QED BY <1>2, <2>1
<1>3. CASE w \in Rules(Translated(l)) /\ Supported(Translated(l))
  <2>1. "document" \in Translated(l).options => l.exception
    BY <1>1, <1>3 DEF Supported
  <2>2. CASE w = Rule(Translated(l), "allowAllRequests", FrameTypes)
             /\ "document" \in Translated(l).options
    BY <2>1, <2>2, RuleFields
  <2>3. CASE w = Rule(Translated(l), IF Translated(l).exception THEN "allow" ELSE "block",
                      TypesOf(Translated(l)))
    BY <1>1, <2>3, RuleFields
  <2> QED BY <1>3, <2>2, <2>3, RulesAre
<1> QED BY <1>2, <1>3 DEF Given

\* A request that a rule of the result blocks is one that a filter names.
LEMMA BlockedByAFilter ==
  ASSUME CompilerInv, phase = "compiled", NEW r \in Network, r.action = "block",
         NEW f, Fetch(f), RuleMatches(r, f)
  PROVE  /\ \E l \in Live \ LiveExceptions :
              Supported(l) /\ f.type \in TypesOf(l) /\ MayMatch(l, f)
         /\ "blocks" \notin suppress
<1>1. "blocks" \notin suppress
  <2>1. r \in Candidates /\ r \notin Suppressed
    BY NetworkFits DEF Fitting, Kept
  <2> QED BY <2>1 DEF Suppressed, Blocks
<1>2. PICK w \in Installed : w.action = "block" /\ RuleMatches(w, f)
  BY ResultIsInstalled
<1>3. PICK l \in LinesRead : w \in Given(l)
  BY InstalledFacts
<1>4. l \in Filter /\ IsFilter(l)
  BY <1>3, LinesReadAreLines, LineFacts DEF CompilerInv, Given, IsFilter
<1>5. ~l.exception
  BY <1>2, <1>3, <1>4, RulesOfAnException
<1>6. Translated(l) = l
  BY <1>5 DEF Translated
<1>7. Supported(l) /\ w \in Rules(l)
  BY <1>3, <1>5, <1>6 DEF Given
<1>8. "document" \notin l.options
  BY <1>5, <1>7 DEF Supported
<1>9. w = Rule(l, "block", TypesOf(l))
  BY <1>5, <1>7, <1>8, RulesAre
<1>10. f.type \in TypesOf(l) /\ MayMatch(l, f)
  BY <1>2, <1>4, <1>7, <1>9, RuleMatchesFilter DEF Supported, scopes_ok
<1>11. l \in Live
  BY <1>3, <1>4, <1>7, InstalledFacts, TakenBackUnlessLive
<1>12. l \notin LiveExceptions
  BY <1>5 DEF LiveExceptions
<1> QED BY <1>1, <1>7, <1>10, <1>11, <1>12

LEMMA EmittedIsInstalled ==
  ASSUME CompilerInv, ~Hit(LiveExceptions), NEW l \in LiveExceptions, ~OnlyHiding(l),
         "blocks" \notin suppress
  PROVE  /\ Emitted(l) \subseteq Installed
         /\ ~Supported(Translated(l)) => Emitted(l) = Guards(l)
<1>1. l \in LinesRead /\ IsFilter(l) /\ l.exception
  BY DEF LiveExceptions, Live, NotTakenBack, IsFilter
<1>2. Emitted(l) \cap badfilters = {}
  BY DEF Hit
<1>3. Given(l) \subseteq network_rules /\ Suppressing(l) \subseteq suppress
  BY <1>1, Zenon DEF CompilerInv, Gathered
<1>4. ~Unknown(l)
  BY <1>3 DEF Suppressing
<1>5. Emitted(l) = Given(l)
  BY <1>1, <1>4 DEF Emitted, Given, Unknown
<1> QED BY <1>2, <1>3, <1>5 DEF Installed, Emitted

\* What an exception allows, a rule of the result allows, if anything is blocked.
LEMMA AllowedByARule ==
  ASSUME CompilerInv, phase = "compiled", ~Hit(LiveExceptions), "blocks" \notin suppress,
         NEW l \in LiveExceptions, NEW f, Fetch(f), MayMatch(l, f)
  PROVE  /\ AboutRequests(l) /\ f.type \in TypesOf(l)
              => \E r \in Network : r.action = "allow" /\ RuleMatches(r, f)
         /\ l.options \cap {"document", "genericblock"} # {} /\ f.type \in FrameTypes
              => \E r \in Network : r.action = "allowAllRequests" /\ RuleMatches(r, f)
<1> DEFINE t == Translated(l)
<1>1. l \in Filter /\ IsFilter(l) /\ l.exception
  BY LinesReadAreLines, LineFacts DEF CompilerInv, LiveExceptions, Live, NotTakenBack, IsFilter
<1>2. /\ t \in Filter /\ t.exception /\ t.types = l.types /\ t.not = l.not
      /\ t.options = l.options \ HidingOptions
  BY <1>1, TranslatedFacts
<1>3. (MayMatch(t, f) <=> MayMatch(l, f)) /\ TypesOf(t) = TypesOf(l)
  BY <1>1, TranslatedMatches
<1>4. Supported(t) => (t.scope # None => t.scope.wellformed)
  BY DEF Supported, scopes_ok
<1>5. "document" \in t.options <=> "document" \in l.options
  BY <1>2 DEF HidingOptions
<1>6. TypesOf(l) \subseteq ResourceTypes
  BY <1>1, TypesFacts
<1>7. ASSUME ~OnlyHiding(l)
      PROVE  /\ Supported(t) => Rules(t) \subseteq Installed
             /\ ~Supported(t) => Guards(l) \subseteq Installed
  BY <1>7, EmittedIsInstalled DEF Emitted
<1> HIDE DEF t
<1>8. ASSUME AboutRequests(l), f.type \in TypesOf(l)
      PROVE  \E r \in Network : r.action = "allow" /\ RuleMatches(r, f)
  <2>1. ~OnlyHiding(l)
    <3>1. l.types \cup l.not = {} => l.options \cap HidingOptions = {}
      BY <1>8 DEF AboutRequests
    <3> QED BY <3>1 DEF OnlyHiding, AboutHiding
  <2>2. \E w \in Installed : w.action = "allow" /\ RuleMatches(w, f)
    <3>1. CASE Supported(t)
      <4> DEFINE w == Rule(t, "allow", TypesOf(t))
      <4>1. "document" \notin t.options \/ t.types \cup t.not # {}
        BY <1>2, <1>5, <1>8 DEF AboutRequests
      <4>2. w \in Rules(t)
        BY <1>2, <4>1 DEF Rules
      <4>3. RuleMatches(w, f)
        BY <1>2, <1>3, <1>4, <1>8, <3>1, RuleMatchesFilter
      <4>4. w.action = "allow"
        BY RuleFields
      <4> QED BY <1>7, <2>1, <3>1, <4>2, <4>3, <4>4
    <3>2. CASE ~Supported(t)
      <4> DEFINE w == Rule(Anywhere(l), "allow", ResourceTypes)
      <4>1. w \in Guards(l)
        BY GuardsAre
      <4>2. RuleMatches(w, f)
        BY <1>1, <1>6, <1>8, GuardMatches
      <4>3. w.action = "allow"
        BY RuleFields
      <4> QED BY <1>7, <2>1, <3>2, <4>1, <4>2, <4>3
    <3> QED BY <3>1, <3>2
  <2> QED BY <2>2, ExceptionsStay
<1>9. ASSUME l.options \cap {"document", "genericblock"} # {}, f.type \in FrameTypes
      PROVE  \E r \in Network : r.action = "allowAllRequests" /\ RuleMatches(r, f)
  <2>0. t.options \cap {"document", "genericblock"} # {}
    BY <1>2, <1>9 DEF HidingOptions
  <2>1. ~OnlyHiding(l)
    <3>1. ~(t.options \subseteq {"match-case"})
      BY <2>0
    <3> QED BY <3>1 DEF OnlyHiding, t
  <2>2. \E w \in Installed : w.action = "allowAllRequests" /\ RuleMatches(w, f)
    <3>1. CASE Supported(t)
      <4> DEFINE w == Rule(t, "allowAllRequests", FrameTypes)
      <4>1. "document" \in t.options
        BY <2>0, <3>1 DEF Supported
      <4>2. w \in Rules(t)
        BY <4>1 DEF Rules
      <4>3. RuleMatches(w, f)
        BY <1>2, <1>3, <1>4, <1>9, <3>1, RuleMatchesFilter
      <4>4. w.action = "allowAllRequests"
        BY RuleFields
      <4> QED BY <1>7, <2>1, <3>1, <4>2, <4>3, <4>4
    <3>2. CASE ~Supported(t)
      <4> DEFINE w == Rule(Anywhere(l), "allowAllRequests", FrameTypes)
      <4>1. w \in Guards(l)
        BY <1>9, GuardsAre
      <4>2. RuleMatches(w, f)
        BY <1>1, <1>9, GuardMatches
      <4>3. w.action = "allowAllRequests"
        BY RuleFields
      <4> QED BY <1>7, <2>1, <3>2, <4>1, <4>2, <4>3
    <3> QED BY <3>1, <3>2
  <2> QED BY <2>2, ExceptionsStay
<1> QED BY <1>8, <1>9

\* What is asked for, and in what.
LEMMA LoadFacts ==
  ASSUME NEW q \in Loads
  PROVE  /\ Fetch(q.fetch)
         /\ \A n \in q.within : Fetch(n) /\ n.type \in FrameTypes
<1>1. PICK url \in Urls, type \in ResourceTypes, top \in Urls, frame \in Urls \cup {None} :
        q = Load(url, type, top, frame)
  BY DEF Loads
<1>2. q.fetch.url = url
  BY <1>1 DEF Load, Asked
<1>3. ASSUME NEW n \in q.within PROVE n.url \in Urls /\ n.type \in FrameTypes
  <2> DEFINE document == IF frame = None THEN top ELSE frame
  <2>1. \/ n = Asked(top, "main_frame", None)
        \/ frame # None /\ n = Asked(frame, "sub_frame", top)
        \/ type = "sub_frame" /\ n = Asked(url, type, document)
    BY <1>1 DEF Load
  <2> QED BY <2>1 DEF Asked, FrameTypes
<1> QED BY <1>2, <1>3 DEF Fetch

LEMMA BlockingIsMeant == CompilerInv => NeverOverblocks
<1> SUFFICES ASSUME CompilerInv, phase = "compiled", ~Hit(LiveExceptions),
                    NEW q \in Loads, RulesBlock(Network, q)
             PROVE  ListsBlock(Live \ LiveExceptions, LiveExceptions, q)
  BY DEF NeverOverblocks
<1>1. Fetch(q.fetch) /\ \A n \in q.within : Fetch(n) /\ n.type \in FrameTypes
  BY LoadFacts
<1>2. /\ \E l \in Live \ LiveExceptions :
           Supported(l) /\ q.fetch.type \in TypesOf(l) /\ MayMatch(l, q.fetch)
      /\ "blocks" \notin suppress
  BY <1>1, BlockedByAFilter DEF RulesBlock
<1>3. ~ListsAllow(LiveExceptions, q)
  BY <1>1, <1>2, AllowedByARule DEF RulesBlock, ListsAllow
<1>4. ~GenericAllowed(LiveExceptions, q)
  BY <1>1, <1>2, AllowedByARule DEF RulesBlock, GenericAllowed
<1> QED BY <1>2, <1>3, <1>4 DEF ListsBlock

(* For any lists and budgets: what the compiled rules block, the lists block, and *)
(* no exception of any list that the compiler reads allows it.                    *)
THEOREM BlockedOnlyAsListed == Spec => []NeverOverblocks
BY Compiling, BlockingIsMeant, PTL

-----------------------------------------------------------------------------
(* Exactness. *)

NothingReported == \A s \in Ids : list_stats[s].unsupported = 0

LEMMA AllExpressed ==
  ASSUME CompilerInv, NothingReported, NEW l \in LinesRead
  PROVE  ~Reported(l)
BY DEF CompilerInv, NothingReported, UnsupportedCounted, LinesRead, Ids

\* An exception in the result is one of the lists', and no badfilter line names it.
LEMMA AllowedByAFilter ==
  ASSUME CompilerInv, NothingReported, NEW w \in Installed, w.action # "block",
         NEW f, RuleMatches(w, f)
  PROVE  \E l \in LiveExceptions :
           /\ MayMatch(l, f)
           /\ \/ w.action = "allow" /\ AboutRequests(l) /\ f.type \in TypesOf(l)
              \/ w.action = "allowAllRequests" /\ "document" \in l.options
<1>1. PICK l \in LinesRead : w \in Given(l)
  BY InstalledFacts
<1>2. l \in Filter /\ IsFilter(l) /\ ~OnlyHiding(l)
  BY <1>1, LinesReadAreLines, LineFacts DEF CompilerInv, Given, IsFilter
<1> DEFINE t == Translated(l)
<1>3. Supported(t)
  BY <1>2, AllExpressed DEF Reported
<1>4. l.exception
  BY <1>1, <1>2, RulesOfAnException
<1>5. w \in Rules(t)
  BY <1>1, <1>3 DEF Given
<1>6. /\ t \in Filter /\ t.exception /\ t.types = l.types /\ t.not = l.not
      /\ t.options = l.options \ HidingOptions
  BY <1>2, <1>4, TranslatedFacts
<1>7. (MayMatch(t, f) <=> MayMatch(l, f)) /\ TypesOf(t) = TypesOf(l)
  BY <1>2, TranslatedMatches
<1>8. t.scope # None => t.scope.wellformed
  BY <1>3 DEF Supported, scopes_ok
<1>9. t.options \subseteq {"match-case", "document"}
  BY <1>3 DEF Supported
<1>10. l \in LiveExceptions
  <2> SUFFICES ASSUME l \notin Live PROVE FALSE
    BY <1>4 DEF LiveExceptions
  <2>1. PICK b \in LinesRead : b.kind = "filter" /\ b # l /\ Target(b) = l
    BY <1>2 DEF Live, NotTakenBack, IsFilter
  <2>2. b \in Filter
    BY <2>1, LinesReadAreLines, LineFacts DEF CompilerInv
  <2>3. "badfilter" \in b.options
    <3> SUFFICES ASSUME "badfilter" \notin b.options PROVE FALSE
      OBVIOUS
    <3>1. b.options \ {"badfilter"} = b.options
      OBVIOUS
    <3>2. Target(b) = b
      BY <2>2, <3>1 DEF Target, Filter
    <3> QED BY <2>1, <3>2
  <2>4. Supported(l)
    BY <2>1, <2>3, AllExpressed DEF Reported
  <2>5. l.options \ HidingOptions = l.options
    BY <2>4 DEF Supported, HidingOptions
  <2>6. t = l
    BY <1>2, <1>4, <2>5 DEF Translated, Filter
  <2>7. w \in badfilters
    BY <1>2, <1>5, <2>4, <2>6, TakenBackUnlessLive
  <2> QED BY <2>7, InstalledFacts
<1> HIDE DEF t
<1>11. CASE w = Rule(t, "allowAllRequests", FrameTypes) /\ "document" \in t.options
  <2>1. w.action = "allowAllRequests" /\ "document" \in l.options
    BY <1>6, <1>11, RuleFields
  <2>2. MayMatch(l, f)
    BY <1>6, <1>7, <1>8, <1>11, RuleMatchesFilter
  <2> QED BY <1>10, <2>1, <2>2
<1>12. CASE /\ "document" \notin t.options \/ t.types \cup t.not # {}
            /\ w = Rule(t, "allow", TypesOf(t))
  <2>1. w.action = "allow"
    BY <1>12, RuleFields
  <2>2. MayMatch(l, f) /\ f.type \in TypesOf(l)
    BY <1>6, <1>7, <1>8, <1>12, RuleMatchesFilter
  <2>3. AboutRequests(l)
    <3>1. CASE l.types \cup l.not # {}
      BY <3>1 DEF AboutRequests
    <3>2. CASE l.types \cup l.not = {}
      <4>1. t.options \subseteq {"match-case"}
        BY <1>6, <1>9, <1>12, <3>2
      <4>2. l.options \cap HidingOptions = {}
        BY <1>2, <1>4, <3>2, <4>1 DEF OnlyHiding, AboutHiding, t
      <4>3. l.options = t.options
        BY <1>6, <4>2
      <4> QED BY <4>1, <4>2, <4>3 DEF AboutRequests
    <3> QED BY <3>1, <3>2
  <2> QED BY <1>10, <2>1, <2>2, <2>3
<1> QED BY <1>5, <1>6, <1>11, <1>12, RulesAre DEF t

\* A filter that no badfilter line names is in the result, if nothing was left out.
LEMMA FilterIsInstalled ==
  ASSUME CompilerInv, phase = "compiled", ~Hit(Live), coverage.networkDropped = 0,
         Suppressed = {}, NEW l \in Live \ LiveExceptions, Supported(l),
         NEW f, Fetch(f), f.type \in TypesOf(l), MayMatch(l, f)
  PROVE  \E r \in Network : r.action = "block" /\ RuleMatches(r, f)
<1>1. l \in LinesRead /\ l \in Filter /\ IsFilter(l) /\ ~l.exception
  <2>1. l \in LinesRead /\ IsFilter(l)
    BY DEF Live, NotTakenBack, IsFilter
  <2>2. l \in Filter
    BY <2>1, LinesReadAreLines, LineFacts DEF CompilerInv, IsFilter
  <2> QED BY <2>1, <2>2 DEF LiveExceptions
<1>2. Translated(l) = l /\ ~OnlyHiding(l) /\ "document" \notin l.options
  BY <1>1 DEF Translated, OnlyHiding, AboutHiding, Supported
<1> DEFINE w == Rule(l, "block", TypesOf(l))
<1>3. w \in Rules(l)
  BY <1>1, <1>2 DEF Rules
<1>4. Given(l) = Rules(l) /\ Emitted(l) = Rules(l)
  BY <1>1, <1>2 DEF Given, Emitted
<1>5. Given(l) \subseteq network_rules
  BY <1>1, Zenon DEF CompilerInv, Gathered
<1>6. Emitted(l) \cap badfilters = {}
  BY <1>2 DEF Hit
<1>7. w \in Installed
  BY <1>3, <1>4, <1>5, <1>6 DEF Installed
<1>8. RuleMatches(w, f) /\ w.action = "block"
  BY <1>1, RuleMatchesFilter, RuleFields DEF Supported, scopes_ok
<1> HIDE DEF w
<1>9. \E r \in Candidates : r.action = "block" /\ RuleMatches(r, f)
  <2>1. \E r \in Packed(Installed) : r.action = w.action /\ RuleMatches(r, f)
    BY <1>7, <1>8, InstalledFacts, PackedMatches
  <2> QED BY <1>8, <2>1 DEF Candidates, Installed
<1>10. Network = Kept /\ Kept = Candidates
  <2>1. Network \subseteq Kept /\ IsFiniteSet(Kept) /\ IsFiniteSet(Network)
    BY NetworkFits, ResultFinite DEF Fitting, CompilerInv
  <2>2. Cardinality(Kept) \in Nat /\ Cardinality(Network) \in Nat
    BY <2>1, FS_CardinalityType
  <2>3. Cardinality(Network) = Cardinality(Kept)
    BY <2>2, NetworkFits
  <2> QED BY <2>1, <2>3, FS_Subset DEF Kept
<1> QED BY <1>9, <1>10

\* An exception that is not read is reported.
LEMMA NothingLost ==
  ASSUME CompilerInv, NothingReported
  PROVE  LiveExceptions \cup LostExceptions = LiveExceptions
<1>1. \A l \in LostExceptions : l \in LinesRead /\ Reported(l)
  BY DEF LostExceptions, NotTakenBack, Reported
<1> QED BY <1>1, AllExpressed

LEMMA BlockingIsExact == CompilerInv => ExactUnlessReported
<1> SUFFICES ASSUME CompilerInv, phase = "compiled", ~Hit(Live), coverage.networkDropped = 0,
                    Suppressed = {}, NothingReported, NEW q \in Loads
             PROVE  RulesBlock(Network, q)
                      <=> ListsBlock(Live \ LiveExceptions, LiveExceptions, q)
  <2>1. CompilerInv /\ NothingReported => LiveExceptions \cup LostExceptions = LiveExceptions
    BY NothingLost
  <2> QED BY <2>1 DEF ExactUnlessReported, NothingReported, Ids
<1>1. RulesBlock(Network, q) => ListsBlock(Live \ LiveExceptions, LiveExceptions, q)
  <2>1. ~Hit(LiveExceptions)
    BY DEF Hit, LiveExceptions
  <2> QED BY <2>1, BlockingIsMeant DEF NeverOverblocks
<1>2. ASSUME ListsBlock(Live \ LiveExceptions, LiveExceptions, q)
      PROVE  RulesBlock(Network, q)
  <2>1. Fetch(q.fetch) /\ \A n \in q.within : Fetch(n)
    BY LoadFacts
  <2>2. \E r \in Network : r.action = "block" /\ RuleMatches(r, q.fetch)
    BY <1>2, <2>1, FilterIsInstalled DEF ListsBlock
  <2>3. ~\E r \in Network : r.action = "allow" /\ RuleMatches(r, q.fetch)
    <3> SUFFICES ASSUME NEW r \in Network, r.action = "allow", RuleMatches(r, q.fetch)
                 PROVE  FALSE
      OBVIOUS
    <3>1. PICK w \in Installed : w.action = "allow" /\ RuleMatches(w, q.fetch)
      BY <2>1, ResultIsInstalled
    <3>2. \E l \in LiveExceptions :
            MayMatch(l, q.fetch) /\ AboutRequests(l) /\ q.fetch.type \in TypesOf(l)
      BY <3>1, AllowedByAFilter
    <3> QED BY <1>2, <3>2 DEF ListsBlock, ListsAllow
  <2>4. ~\E r \in Network, n \in q.within : r.action = "allowAllRequests" /\ RuleMatches(r, n)
    <3> SUFFICES ASSUME NEW r \in Network, NEW n \in q.within, r.action = "allowAllRequests",
                        RuleMatches(r, n)
                 PROVE  FALSE
      OBVIOUS
    <3>1. PICK w \in Installed : w.action = "allowAllRequests" /\ RuleMatches(w, n)
      BY <2>1, ResultIsInstalled
    <3>2. \E l \in LiveExceptions : MayMatch(l, n) /\ "document" \in l.options
      BY <3>1, AllowedByAFilter
    <3> QED BY <1>2, <3>2 DEF ListsBlock, ListsAllow
  <2> QED BY <2>2, <2>3, <2>4 DEF RulesBlock
<1> QED BY <1>1, <1>2

(* For any lists: if nothing is reported as unsupported, dropped or suppressed, the *)
(* compiled rules, packed and merged, block exactly what the lists block.           *)
THEOREM ExactlyAsListed == Spec => []ExactUnlessReported
BY Compiling, BlockingIsExact, PTL

-----------------------------------------------------------------------------
(* What the compiler hands on is what the client accepts. *)

NetworkItem ==
  [action : Actions, pattern : Patterns \cup {None}, hosts : SUBSET Hosts,
   types : SUBSET (ResourceTypes \cup FrameTypes), included : SUBSET Hosts,
   excluded : SUBSET Hosts, cased : BOOLEAN]
CosmeticItem == [domains : SUBSET Hosts, excluded : SUBSET Hosts, selector : Selectors]
Emittable == NetworkItem \cup CosmeticItem \cup [reason : Reasons]

\* What the client demands of a rule, packed or not.
Lawful(w) ==
  /\ w.types # {}
  /\ IF w.action = "allowAllRequests" THEN w.types \subseteq FrameTypes
                                      ELSE w.types \subseteq ResourceTypes
  /\ Cardinality(w.included) <= MAX_SCOPE /\ Cardinality(w.excluded) <= MAX_SCOPE

LEMMA NoneIsWithinLimit == Cardinality({}) <= MAX_SCOPE /\ MAX_SCOPE \in Nat
<1>1. Cardinality({}) = 0
  BY FS_EmptySet
<1>2. MAX_SCOPE \in Nat
  BY LimitsAssumption
<1> QED BY <1>1, <1>2

LEMMA RuleIsLawful ==
  ASSUME NEW l \in Filter, l.scope # None => WithinLimit(l.scope), NEW action, NEW types,
         types # {},
         IF action = "allowAllRequests" THEN types \subseteq FrameTypes
                                        ELSE types \subseteq ResourceTypes
  PROVE  Lawful(Rule(l, action, types))
<1>1. Cardinality(IF l.scope = None THEN {} ELSE l.scope.included) <= MAX_SCOPE
  BY NoneIsWithinLimit DEF WithinLimit
<1>2. Cardinality(IF l.scope = None THEN {} ELSE l.scope.excluded) <= MAX_SCOPE
  BY NoneIsWithinLimit DEF WithinLimit
<1> DEFINE r == Rule(l, action, types)
<1>3. /\ r.action = action /\ r.types = types
      /\ r.included = (IF l.scope = None THEN {} ELSE l.scope.included)
      /\ r.excluded = (IF l.scope = None THEN {} ELSE l.scope.excluded)
  BY RuleFields
<1> HIDE DEF r
<1>4. Lawful(r)
  BY <1>1, <1>2, <1>3 DEF Lawful
<1> QED BY <1>4 DEF r

LEMMA GivenIsLawful ==
  ASSUME NEW l \in Lines, NEW w \in Given(l)
  PROVE  Lawful(w)
<1>1. l \in Filter
  BY LineFacts DEF Given, IsFilter
<1>2. Anywhere(l) \in Filter /\ Anywhere(l).scope = None
  BY <1>1 DEF Anywhere, Filter
<1>3. FrameTypes # {} /\ ResourceTypes # {}
  BY LinesAssumption DEF FrameTypes
<1>4. CASE w \in Rules(Translated(l)) /\ Supported(Translated(l))
  <2> DEFINE t == Translated(l)
  <2>1. t \in Filter
    BY <1>1, TranslatedFacts
  <2>2. TypesOf(t) # {} /\ (t.scope # None => WithinLimit(t.scope))
    BY <1>4 DEF Supported, scopes_ok
  <2>3. TypesOf(t) \subseteq ResourceTypes
    BY <2>1, TypesFacts
  <2> HIDE DEF t
  <2>4. Lawful(Rule(t, "allowAllRequests", FrameTypes))
    BY <1>3, <2>1, <2>2, RuleIsLawful
  <2>5. Lawful(Rule(t, IF t.exception THEN "allow" ELSE "block", TypesOf(t)))
    <3>1. (IF t.exception THEN "allow" ELSE "block") # "allowAllRequests"
      OBVIOUS
    <3> QED BY <2>1, <2>2, <2>3, <3>1, RuleIsLawful
  <2> QED BY <1>4, <2>4, <2>5, RulesAre DEF t
<1>5. CASE w \in Guards(l)
  <2>1. Lawful(Rule(Anywhere(l), "allow", ResourceTypes))
    BY <1>2, <1>3, RuleIsLawful
  <2>2. Lawful(Rule(Anywhere(l), "allowAllRequests", FrameTypes))
    BY <1>2, <1>3, RuleIsLawful
  <2> QED BY <1>5, <2>1, <2>2, GuardsAre
<1> QED BY <1>4, <1>5 DEF Given

\* The k-th part of m things begins and ends where the others do.
LEMMA PartBounds ==
  ASSUME NEW m \in Nat, m > 0, NEW j \in Int, NEW k \in Int
  PROVE  j \div m = k <=> m * k <= j /\ j < m * k + m
<1> DEFINE q == j \div m
<1>1. q \in Int /\ m * q <= j /\ j < m * q + m
  OBVIOUS
<1> HIDE DEF q
<1>2. ASSUME m * k <= j, j < m * k + m PROVE q = k
  <2>1. m * k < m * (q + 1) /\ m * q < m * (k + 1)
    BY <1>1, <1>2
  <2>2. k < q + 1 /\ q < k + 1
    BY <1>1, <2>1
  <2> QED BY <1>1, <2>2
<1> QED BY <1>1, <1>2 DEF q

\* No chunk is empty or too large.
LEMMA ChunkSize ==
  ASSUME NEW hosts, IsFiniteSet(hosts), NEW chunk \in Chunks(hosts)
  PROVE  chunk # {} /\ Cardinality(chunk) <= MAX_PACKED
<1> DEFINE s == SetToSeq(hosts)
           M == MAX_PACKED
           part(k) == {j \in DOMAIN s : (j - 1) \div M = k}
<1>1. PICK k \in 0 .. (Len(s) - 1) \div M : chunk = {s[i] : i \in part(k)}
  BY DEF Chunks
<1>2. s \in Seq(hosts) /\ M \in Nat /\ M > 0
  BY AsSequence, Bounds
<1>3. Len(s) \in Nat /\ DOMAIN s = 1 .. Len(s)
  BY <1>2
<1> DEFINE q == (Len(s) - 1) \div M
<1> HIDE DEF s, M
<1>4. q \in Int /\ k \in Nat /\ k <= q /\ M * q <= Len(s) - 1
  <2>1. q \in Int
    BY <1>2, <1>3
  <2>2. M * q <= Len(s) - 1
    BY <1>2, <1>3, <2>1, PartBounds
  <2> QED BY <1>1, <2>1, <2>2
<1> HIDE DEF q
<1> DEFINE first == M * k + 1
<1>5. M * k <= M * q
  BY <1>2, <1>4
<1>6. M * k \in Nat /\ first \in 1 .. Len(s)
  BY <1>2, <1>3, <1>4, <1>5
<1>7. first \in part(k)
  <2>1. first - 1 = M * k /\ first - 1 \in Int /\ k \in Int
    BY <1>4, <1>6
  <2>2. M * k <= first - 1 /\ first - 1 < M * k + M
    BY <1>2, <1>6, <2>1
  <2>3. (first - 1) \div M = k
    BY <1>2, <2>1, <2>2, PartBounds
  <2> QED BY <1>3, <1>6, <2>3
<1>8. part(k) \subseteq first .. first + M - 1
  <2> SUFFICES ASSUME NEW j \in part(k) PROVE j \in first .. first + M - 1
    OBVIOUS
  <2>1. j \in Nat /\ (j - 1) \div M = k /\ j - 1 \in Int /\ k \in Int
    BY <1>3, <1>4
  <2>2. M * k <= j - 1 /\ j - 1 < M * k + M
    BY <1>2, <2>1, PartBounds
  <2> QED BY <1>2, <1>6, <2>1, <2>2
<1> DEFINE J == part(k)
<1>9. IsFiniteSet(J) /\ Cardinality(J) <= M
  <2> DEFINE last == first + M - 1
             I == first .. last
  <2>1. first \in Int /\ last \in Int /\ first <= last /\ last - first + 1 = M
    BY <1>2, <1>6
  <2> HIDE DEF first, last
  <2>2. IsFiniteSet(I) /\ Cardinality(I) = last - first + 1
    BY <2>1, FS_Interval
  <2>3. Cardinality(I) = M
    BY <2>1, <2>2
  <2> HIDE DEF I, J
  <2>4. J \subseteq I
    BY <1>8 DEF I, J, last
  <2> QED BY <2>2, <2>3, <2>4, FS_Subset
<1>10. chunk # {}
  BY <1>1, <1>7
<1>11. Cardinality(chunk) <= Cardinality(J)
  <2> DEFINE f == [i \in J |-> s[i]]
  <2>1. f \in [J -> chunk] /\ chunk = {f[i] : i \in J}
    BY <1>1
  <2> HIDE DEF f, J
  <2> QED BY <1>9, <2>1, ImageFinite
<1>12. Cardinality(J) \in Nat /\ Cardinality(chunk) \in Nat
  <2> DEFINE f == [i \in J |-> s[i]]
  <2>1. f \in [J -> chunk] /\ chunk = {f[i] : i \in J}
    BY <1>1
  <2> HIDE DEF f, J
  <2>2. IsFiniteSet(chunk)
    BY <1>9, <2>1, ImageFinite
  <2> QED BY <1>9, <2>2, FS_CardinalityType
<1> HIDE DEF J
<1> QED BY <1>2, <1>9, <1>10, <1>11, <1>12 DEF M

LEMMA KeptIsValid ==
  ASSUME CompilerInv, NEW r \in Kept
  PROVE  r \in NetworkItem /\ Validated("network", r)
<1>1. ASSUME NEW w \in Installed
      PROVE  w \in PlainRule /\ Lawful(w)
  <2>1. PICK l \in LinesRead : w \in Given(l)
    BY InstalledFacts
  <2>2. l \in Lines
    BY LinesReadAreLines DEF CompilerInv
  <2> QED BY <2>1, <2>2, GivenIsLawful, InstalledFacts
<1>2. r \in Packed(Installed)
  BY DEF Kept, Candidates, Installed
<1>3. CASE r \in Installed
  <2>1. r \in PlainRule /\ Lawful(r) /\ r.pattern # None
    BY <1>1, <1>3, PatternIsNotNone
  <2>2. r \in NetworkItem /\ r.hosts = {}
    BY <2>1 DEF PlainRule, NetworkItem
  <2> QED BY <2>1, <2>2 DEF Validated, Lawful
<1>4. ASSUME NEW v \in Whole(Installed), NEW chunk \in Chunks(HostsAlike(Installed, Template(v))),
             r = PackedAs(Template(v), chunk)
      PROVE  r \in NetworkItem /\ Validated("network", r)
  <2>1. v \in Installed /\ v \in PlainRule /\ Lawful(v)
    BY <1>1 DEF Whole
  <2>2. IsFiniteSet(HostsAlike(Installed, Template(v)))
        /\ chunk \subseteq HostsAlike(Installed, Template(v))
    BY <1>4, InstalledFacts, HostsAlikeFinite
  <2>3. chunk # {} /\ Cardinality(chunk) <= MAX_PACKED
    BY <2>2, ChunkSize
  <2>4. chunk \subseteq Hosts
    <3> SUFFICES ASSUME NEW w \in Whole(Installed) PROVE FullHost[w.pattern] \in Hosts
      BY <2>2 DEF HostsAlike
    <3>1. w \in PlainRule /\ FullHost[w.pattern] # None
      BY <1>1 DEF Whole
    <3>2. FullHost \in [Patterns -> Hosts \cup {None}] /\ w.pattern \in Patterns
      BY <3>1, LinesAssumption DEF PlainRule
    <3> QED BY <3>1, <3>2
  <2>5. /\ r.pattern = None /\ r.hosts = chunk
        /\ r.action = v.action /\ r.types = v.types /\ r.included = v.included
        /\ r.excluded = v.excluded
    BY <1>4, <2>1, PackedFields
  <2>6. r \in NetworkItem
    <3>1. Template(v) \in [action : Actions, pattern : {None}, hosts : {{}},
                           types : SUBSET (ResourceTypes \cup FrameTypes),
                           included : SUBSET Hosts, excluded : SUBSET Hosts, cased : BOOLEAN]
      BY <2>1 DEF PlainRule, Template
    <3> QED BY <1>4, <2>4, <3>1 DEF PackedAs, NetworkItem
  <2> QED BY <2>1, <2>3, <2>5, <2>6 DEF Validated, Lawful
<1> QED BY <1>2, <1>3, <1>4, PackedMembers

LEMMA ExemptHostsAreHosts ==
  ASSUME NEW l \in Lines
  PROVE  AllOut(l) \subseteq Hosts /\ GenericOut(l) \subseteq Hosts
<1> SUFFICES ASSUME IsFilter(l)
             PROVE  AllOut(l) \subseteq Hosts /\ GenericOut(l) \subseteq Hosts
  BY DEF AllOut, GenericOut
<1>1. l \in Filter
  BY LineFacts DEF IsFilter
<1>2. Anchor[l.pattern] # None => Anchor[l.pattern] \in Hosts
  <2>1. Anchor \in [Patterns -> Hosts \cup {None}] /\ l.pattern \in Patterns
    BY <1>1, LinesAssumption DEF Filter
  <2> QED BY <2>1
<1>3. l.scope # None => l.scope.included \subseteq Hosts
  BY <1>1 DEF Filter, Scope
<1>4. HostsOrNone(ExemptHosts(l)) \subseteq Hosts
  BY <1>2, <1>3 DEF HostsOrNone, ExemptHosts
<1>5. HostsOrNone(DocumentHost(l)) \subseteq Hosts
  BY <1>2 DEF HostsOrNone, DocumentHost
<1> QED BY <1>4, <1>5 DEF AllOut, GenericOut

LEMMA CosmeticIsValid ==
  ASSUME CompilerInv, NEW r \in CosmeticRules
  PROVE  r \in CosmeticItem /\ Validated("cosmetic", r)
<1>1. LinesRead \subseteq Lines
  BY LinesReadAreLines DEF CompilerInv
<1>2. PICK h \in LinesRead : Hiding(h) /\ ~Unsafe(h) /\ r = CosmeticRule(h)
  <2>1. PICK i \in SafeHides : r = CosmeticRule(hides[i])
    BY DEF CosmeticRules
  <2>2. i \in DOMAIN hides /\ ~Unsafe(hides[i])
    BY <2>1 DEF SafeHides
  <2>3. hides[i] \in ToSet(hides)
    BY <2>2 DEF ToSet
  <2> QED BY <2>1, <2>2, <2>3 DEF CompilerInv, Gathered
<1>3. h \in Cosmetic /\ h.selector \in Selectors /\ scopes_ok(h.scope)
  BY <1>1, <1>2, LineFacts DEF Hiding, Cosmetic
<1>4. h.scope.included \subseteq Hosts /\ h.scope.excluded \subseteq Hosts
  BY <1>3 DEF Cosmetic, Scope
<1>5. all_excluded \subseteq Hosts /\ generic_excluded \subseteq Hosts
  <2>1. /\ generic_excluded = UNION {GenericOut(l) : l \in LinesRead}
        /\ all_excluded = UNION {AllOut(l) : l \in LinesRead}
    BY DEF CompilerInv, Gathered
  <2> QED BY <1>1, <2>1, ExemptHostsAreHosts
<1>6. lifted[h.selector] \subseteq Hosts
  BY <1>3 DEF CompilerInv, CompilerType
<1>7. ExcludedFrom(h) \subseteq Hosts
  BY <1>4, <1>5, <1>6 DEF ExcludedFrom
<1>8. Cardinality(ExcludedFrom(h)) <= MAX_SCOPE
  <2>1. Cardinality(ExcludedFrom(h)) \in Nat
    BY <1>7, LinesAssumption, FS_Subset, FS_CardinalityType
  <2>2. ~(Cardinality(ExcludedFrom(h)) > MAX_SCOPE)
    BY <1>2 DEF Unsafe
  <2> QED BY <2>1, <2>2, NoneIsWithinLimit
<1>9. Cardinality(h.scope.included) <= MAX_SCOPE
  BY <1>3 DEF scopes_ok, WithinLimit
<1>10. /\ r.domains = h.scope.included /\ r.excluded = ExcludedFrom(h)
       /\ r \in CosmeticItem
  BY <1>2, <1>3, <1>4, <1>7 DEF CosmeticRule, CosmeticItem
<1> QED BY <1>8, <1>9, <1>10 DEF Validated

\* Every item of the result, of each kind.
Handed ==
  /\ compiled \in [KindSet -> Seq(Things)]
  /\ \A k \in KindSet :
       /\ compiled[k] \in Seq(Emittable)
       /\ \A i \in 1 .. Len(compiled[k]) : Validated(k, compiled[k][i])

LEMMA KindsAre == KindSet = {"network", "cosmetic", "diagnostics"}
<1>1. \A i \in 1 .. 3 : i = 1 \/ i = 2 \/ i = 3
  OBVIOUS
<1> QED BY <1>1 DEF KindSet, Kinds

LEMMA ElementsOf ==
  ASSUME NEW S, NEW s \in Seq(S), NEW i \in 1 .. Len(s)
  PROVE  s[i] \in ToSet(s)
BY DEF ToSet

LEMMA ResultIsHanded == CompilerInv /\ phase = "compiled" => Handed
<1> SUFFICES ASSUME CompilerInv, phase = "compiled"
             PROVE  Handed
  OBVIOUS
<1>1. PICK fit \in Fitting(Kept), taken \in Taken(CosmeticRules) :
        coverage = Counted(fit, taken) /\ compiled = Result(fit, taken)
  BY DEF CompilerInv, ResultOK
<1>2. compiled["network"] \in Seq(NetworkItem)
      /\ \A i \in 1 .. Len(compiled["network"]) : Validated("network", compiled["network"][i])
  <2>1. \A r \in Network : r \in NetworkItem /\ Validated("network", r)
    BY NetworkFits, KeptIsValid DEF Fitting
  <2>2. compiled["network"] \in Seq(Network)
    BY NetworkIsSequence
  <2>3. compiled["network"] \in Seq(NetworkItem)
    BY <2>1, <2>2
  <2> QED BY <2>1, <2>2, <2>3
<1>3. compiled["cosmetic"] \in Seq(CosmeticItem)
      /\ \A i \in 1 .. Len(compiled["cosmetic"]) : Validated("cosmetic", compiled["cosmetic"][i])
  <2>1. taken \subseteq CosmeticRules /\ IsFiniteSet(taken)
    BY <1>1, ResultFinite, FS_Subset DEF Taken, CompilerInv
  <2>2. \A r \in taken : r \in CosmeticItem /\ Validated("cosmetic", r)
    BY <2>1, CosmeticIsValid
  <2>3. compiled["cosmetic"] = SetToSeq(taken)
    BY <1>1 DEF Result
  <2>4. compiled["cosmetic"] \in Seq(taken)
    BY <2>1, <2>3, AsSequence
  <2> QED BY <2>2, <2>4
<1>4. compiled["diagnostics"] \in Seq([reason : Reasons])
  BY <1>1 DEF Result, CompilerInv, CompilerType, Diagnostics
<1>5. \A i : Validated("diagnostics", i)
  BY DEF Validated
<1>6. compiled["network"] \in Seq(Emittable) /\ compiled["cosmetic"] \in Seq(Emittable)
      /\ compiled["diagnostics"] \in Seq(Emittable)
  <2>1. /\ NetworkItem \subseteq Emittable /\ CosmeticItem \subseteq Emittable
        /\ [reason : Reasons] \subseteq Emittable
    BY Zenon DEF Emittable
  <2>2. \A S, T : S \subseteq T => Seq(S) \subseteq Seq(T)
    OBVIOUS
  <2> QED BY <1>2, <1>3, <1>4, <2>1, <2>2
<1>7. \A k \in KindSet : compiled[k] \in Seq(Emittable)
  BY <1>6, KindsAre
<1>8. compiled \in [KindSet -> Seq(Emittable)]
  <2>1. compiled = [k \in {"network", "cosmetic", "diagnostics"} |-> compiled[k]]
    BY <1>1 DEF Result
  <2> QED BY <1>7, <2>1, KindsAre
<1>9. compiled \in [KindSet -> Seq(Things)]
  BY <1>8, ThingsOf
<1> QED BY <1>2, <1>3, <1>5, <1>7, <1>9, KindsAre DEF Handed

-----------------------------------------------------------------------------
(* The compiler, the store and the client together. *)

\* A page has a length, and the client takes what Validated says is valid.
PagesAreMeasured ==
  /\ \A items \in Seq(Emittable) : PageBytes(items) \in Nat
  /\ \A k \in KindSet, i \in Emittable : Validated(k, i) => ValidItem(k, i)

\* Nothing is cut before the compiler has returned.
RefreshInv ==
  /\ CompilerInv /\ Handed /\ LinkInv
  /\ phase # "returned" => step = "new"

LEMMA HandedFacts ==
  ASSUME Handed
  PROVE  Things \subseteq Emittable /\ \A s \in Seq(Things) : s \in Seq(Emittable)
<1>1. \A k \in KindSet : ToSet(compiled[k]) \subseteq Emittable
  BY DEF Handed, ToSet
<1>2. Things \subseteq Emittable
  BY <1>1 DEF Things
<1> QED BY <1>2

LEMMA HandedIsAcceptable ==
  ASSUME PagesAreMeasured, Handed
  PROVE  Acceptable
<1>1. \A s \in Seq(Things) : PageBytes(s) \in Nat
  BY HandedFacts DEF PagesAreMeasured
<1>2. ASSUME NEW k \in KindSet, NEW i \in 1 .. Len(compiled[k])
      PROVE  ValidItem(k, compiled[k][i])
  <2>1. compiled[k] \in Seq(Emittable) /\ Validated(k, compiled[k][i])
    BY <1>2 DEF Handed
  <2>2. compiled[k][i] \in Emittable
    BY <2>1
  <2> QED BY <2>1, <2>2 DEF PagesAreMeasured
<1> QED BY <1>1, <1>2 DEF Acceptable

LEMMA RefreshStarts == Init => RefreshInv
<1> SUFFICES ASSUME Init
             PROVE  RefreshInv
  OBVIOUS
<1>1. CompilerInv
  BY CompilerStarts DEF Init
<1>2. compiled = [k \in KindSet |-> << >>]
  <2>1. ToSet(Kinds) = KindSet
    BY DEF ToSet, Kinds, KindSet
  <2> QED BY <2>1 DEF Init, CompilerInit, NoItems
<1>3. compiled \in [KindSet -> Seq({})]
  BY <1>2
<1>4. Handed
  BY <1>2, <1>3, ThingsOf DEF Handed
<1>5. LinkInv
  BY <1>3, ThingsOf, LinkInit DEF Init
<1>6. step = "new"
  BY DEF Init, PagingInit
<1> QED BY <1>1, <1>4, <1>5, <1>6 DEF RefreshInv

\* Before anything is cut, the result may change.
LEMMA CompilingLinks ==
  ASSUME LinkInv, step = "new", UNCHANGED <<step, kind, offset, cutting, reading>>,
         Handed'
  PROVE  LinkInv'
<1>1. /\ step' = "new" /\ kind' = kind /\ offset' = offset /\ end' = end /\ pages' = pages
      /\ received' = received /\ got' = got
  BY DEF cutting, reading
<1>2. kind = 1 /\ offset = 0 /\ pages = {} /\ got = [k \in KindSet |-> << >>]
  BY DEF LinkInv, WholeInv, ReadOK
<1>3. TypeOK'
  <2>0. compiled' \in [KindSet -> Seq(Things')]
    BY DEF Handed
  <2>1. << >> \in Seq(Things')
    OBVIOUS
  <2>2. got' \in [KindSet -> Seq(Things')]
    BY <1>1, <1>2, <2>1
  <2> QED BY <1>1, <2>0, <2>2 DEF LinkInv, WholeInv, TypeOK
<1>4. CutOK' /\ AssembledWhole' /\ IndexOK'
  BY <1>1, <1>2 DEF CutOK, AssembledWhole, IndexOK
<1>5. ReadOK'
  BY <1>1, <1>2 DEF ReadOK
<1>6. LinkedOK' /\ FirstOK' /\ RejectedForSizeOnly'
  BY <1>1 DEF LinkedOK, FirstOK, RejectedForSizeOnly
<1>7. FoundOK'
  BY <1>1 DEF LinkInv, FoundOK
<1> QED BY <1>3, <1>4, <1>5, <1>6, <1>7 DEF LinkInv, WholeInv

HandedOnceCompiled == CompilerInv /\ phase = "compiled" => Handed

LEMMA HandedStays ==
  ASSUME Handed, compiled' = compiled
  PROVE  Handed'
BY DEF Handed, Things

\* Only the compiler's last step changes the result.
LEMMA CompileSteps ==
  ASSUME Compile
  PROVE  /\ phase = "reading" /\ phase' \in {"reading", "compiled", "refused"}
         /\ compiled' = compiled \/ phase' = "compiled"
<1>1. ASSUME NEW l \in Lines,
             \/ Ignore(l) \/ Reject(l) \/ DropException(l)
             \/ Unhide(l) \/ Hide(l) \/ RejectCosmetic(l)
             \/ Badfilter(l) \/ HidingExemption(l) \/ Accept(l) \/ Omit(l)
      PROVE  phase = "reading" /\ phase' = phase /\ compiled' = compiled
  BY <1>1 DEF Ignore, Reject, DropException, Unhide, Hide, RejectCosmetic, Badfilter,
              HidingExemption, Accept, Omit, Read, result
<1>2. ASSUME NEW fit, NEW taken, Emit(fit, taken)
      PROVE  phase = "reading" /\ phase' = "compiled"
  BY <1>2 DEF Emit
<1>3. NextSource \/ Refuse =>
        phase = "reading" /\ phase' \in {"reading", "refused"} /\ compiled' = compiled
  BY DEF NextSource, Refuse, result
<1> QED BY <1>1, <1>2, <1>3 DEF Compile, CompilerNext

LEMMA RefreshStep ==
  ASSUME PagesAreMeasured, RefreshInv, [Next]_vars, HandedOnceCompiled'
  PROVE  RefreshInv'
<1>1. CompilerInv' /\ CompilerInv /\ Handed /\ LinkInv
  BY CompilerStep DEF RefreshInv
<1>2. Acceptable
  BY <1>1, HandedIsAcceptable
<1>3. CASE Compile
  <2>1. phase # "returned" /\ phase' # "returned" /\ step = "new" /\ step' = "new"
    BY <1>3, CompileSteps DEF Compile, RefreshInv
  <2>2. Handed'
    BY <1>1, <1>3, CompileSteps, HandedStays DEF HandedOnceCompiled
  <2>3. LinkInv'
    BY <1>1, <1>3, <2>1, <2>2, CompilingLinks DEF Compile
  <2> QED BY <1>1, <2>1, <2>2, <2>3 DEF RefreshInv
<1>4. CASE RefuseEmpty \/ RefuseManifest
  <2>1. compiled' = compiled /\ step' = step /\ phase # "returned"
    BY <1>4 DEF RefuseEmpty, RefuseManifest
  <2>2. Handed'
    BY <1>1, <2>1, HandedStays
  <2>3. LinkInv'
    BY <1>1, <1>4, <2>1, <2>2, CompilingLinks DEF RefuseEmpty, RefuseManifest, RefreshInv
  <2> QED BY <1>1, <2>1, <2>2, <2>3 DEF RefreshInv
<1>5. CASE Persist
  <2>1. phase' = "returned" /\ Begin /\ compiled' = compiled
    BY <1>5 DEF Persist, Begin
  <2> QED BY <1>1, <2>1, BeginLinks, HandedStays DEF RefreshInv
<1>6. CASE Store \/ FetchPages
  <2>1. PagingNext /\ compiled' = compiled /\ phase' = phase /\ step # "new"
    BY <1>6 DEF Store, FetchPages, PagingNext, compilerVars, result, Shrink, TooLarge, WritePage,
                Receive, RejectPage
  <2>2. LinkInv'
    BY <1>1, <1>2, <2>1, LinkStep
  <2> QED BY <1>1, <2>1, <2>2, HandedStays DEF RefreshInv
<1>7. CASE UNCHANGED vars
  <2>1. UNCHANGED pagingVars /\ compiled' = compiled /\ phase' = phase /\ step' = step
    BY <1>7 DEF vars, compilerVars, result, pagingVars
  <2> QED BY <1>1, <2>1, LinkStutters, HandedStays DEF RefreshInv
<1> QED BY <1>3, <1>4, <1>5, <1>6, <1>7 DEF Next

(* A refresh from end to end: the client takes every rule of its companion for valid,  *)
(* whatever the lists, and what it then has is what was compiled, or the pages were    *)
(* too many bytes.  Pages have a length, and ValidItem is what Validated says.         *)
THEOREM RefreshedWhole ==
  ASSUME PagesAreMeasured
  PROVE  Spec => []ReadBack
<1>1. RefreshInv /\ [Next]_vars /\ HandedOnceCompiled' => RefreshInv'
  BY RefreshStep
<1>2. HandedOnceCompiled
  BY ResultIsHanded DEF HandedOnceCompiled
<1>3. RefreshInv => ReadBack
  BY LinkedIsReadable DEF RefreshInv
<1> QED BY <1>1, <1>2, <1>3, RefreshStarts, PTL DEF Spec
=============================================================================
