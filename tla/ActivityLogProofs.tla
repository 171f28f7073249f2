--------------------------- MODULE ActivityLogProofs ---------------------------
(***************************************************************************)
(* What is proved of ActivityLog, for any tabs, requests and limits and    *)
(* any number of events, failed calls and restarts.                        *)
(*                                                                         *)
(* The invariant has a part for each property: IdsOK and ClearsOK (rows a  *)
(* clear dooms are told from later ones by worker and ID, and no write     *)
(* after the clear has them), SavesOK, LogOK, TabsOK.                      *)
(***************************************************************************)
EXTENDS ActivityLog, WellFoundedInduction, TLAPS

\* The keys remembered are the newest of those recorded.
Remembers(seen, recorded) ==
  /\ Len(seen) <= Len(recorded)
  /\ Len(seen) = Len(recorded) \/ Len(seen) = 2 * LIMIT
  /\ \A k \in 1 .. Len(seen) : seen[k] = recorded[Len(recorded) - Len(seen) + k]

RecordsOnce(recorded) ==
  \A i, j \in 1 .. Len(recorded) : (i < j /\ recorded[i] = recorded[j]) => j - i > 2 * LIMIT

LogOK(l) ==
  /\ l \in LogStates /\ Len(l.rows) <= LIMIT /\ Len(l.seen) <= 2 * LIMIT
  /\ Remembers(l.seen, l.recorded) /\ RecordsOnce(l.recorded)

\* Before storage is read the log is empty and nothing is written; afterwards nothing waits.
PhaseOK ==
  /\ ~alive => ~initialized /\ pending = << >> /\ knownTabs = {} /\ lookups = {}
               /\ tabsQuery = "asked" /\ tabsTouchedDuringStartup = {} /\ resurrected = {}
  /\ ~initialized => /\ log = EmptyLog /\ saving = None /\ ~dirty /\ ~timer
                     /\ doomed = {} /\ tabsQuery # "done"
  /\ initialized => pending = << >> /\ removals = {}

AllRows == RowsOf(log.rows) \cup WrittenRows \cup doomed \cup gone

\* IDs stay below the number of events, and only a worker that has read storage has made
\* rows, with IDs up to its sequence.
IdsOK ==
  /\ events <= MaxEvents
  /\ log.sequence + Len(pending) <= events
  /\ \A row \in RowsOf(log.rows) \cup WrittenRows : row.id + Len(pending) <= events
  /\ \A row \in AllRows : row.life <= life
  /\ \A row \in AllRows : (alive /\ row.life = life) => initialized /\ row.id <= log.sequence

\* Doomed rows are out of memory, and out of storage after the write that answers.
ClearsOK ==
  /\ ClearedForGood
  /\ doomed \cap RowsOf(log.rows) = {}
  /\ dirty \/ saving = None \/ doomed \cap RowsOf(saving) = {}

\* What is in memory is being written, or will be, or is written, or an error shows.
SavesOK ==
  initialized =>
    /\ saving # None => saving = log.rows \/ dirty
    /\ (saving = None /\ ~storageError) => stored = log.rows \/ (dirty /\ timer)

\* Tabs that may still be taken over are permitted or known to be closed.
TabsOK ==
  /\ ClosedTabsForgotten
  /\ (alive /\ tabsQuery = "asked") => queried \ tabsTouchedDuringStartup \subseteq open
  /\ (~initialized /\ tabsQuery = "answered") => queried \ removals \subseteq Permitted
  /\ \A i \in DOMAIN pending : pending[i].tabId \in Permitted \cup removals

LogInv ==
  /\ TypeOK /\ LogOK(log) /\ PhaseOK /\ IdsOK /\ ClearsOK /\ SavesOK /\ TabsOK
-----------------------------------------------------------------------------
(* Sequences. *)

LEMMA Limits ==
  LIMIT \in Nat /\ LIMIT > 0 /\ MaxSequence \in Nat /\ MaxSequence > 0 /\ MaxEvents \in Nat
  /\ MaxFaults \in Nat /\ MaxEvents <= MaxSequence
BY LogAssumption, IdsAssumption

LEMMA Least ==
  ASSUME NEW X \in SUBSET Nat, X # {}
  PROVE  \E x \in X : \A y \in X : x <= y
<1> DEFINE R == OpToRel(<, Nat)
<1>1. \A x, y \in Nat : x < y => <<x, y>> \in R BY DEF OpToRel
<1>2. IsWellFoundedOn(R, Nat) BY NatLessThanWellFounded
<1> HIDE DEF R
<1>3. PICK x \in X : \A y \in X : ~(<<y, x>> \in R) BY <1>2, WFMin
<1>4. \A y \in X : ~(y < x) BY <1>1, <1>3
<1> QED BY <1>3, <1>4

LEMMA Induction ==
  ASSUME NEW S, 0 \in S, \A n \in Nat : n \in S => n + 1 \in S
  PROVE  Nat \subseteq S
<1> SUFFICES ASSUME Nat \ S # {} PROVE FALSE OBVIOUS
<1>1. PICK x \in Nat \ S : \A y \in Nat \ S : x <= y BY Least
<1>2. x # 0 /\ x - 1 \in Nat BY <1>1
<1>3. x - 1 \in S BY <1>1, <1>2
<1> QED BY <1>1, <1>2, <1>3

\* Of some IDs one is the greatest.
LEMMA Greatest ==
  ASSUME NEW ids \in SUBSET (1 .. MaxSequence), ids # {}
  PROVE  \E i \in ids : \A j \in ids : j <= i
<1> DEFINE X == {n \in Nat : MaxSequence - n \in ids}
<1>1. \A i \in ids : i \in Int /\ MaxSequence - i \in X
  <2> SUFFICES ASSUME NEW i \in ids PROVE i \in Int /\ MaxSequence - i \in X OBVIOUS
  <2>1. i \in Int /\ MaxSequence - i \in Nat /\ MaxSequence - (MaxSequence - i) = i BY Limits
  <2> QED BY <2>1
<1>2. PICK x \in X : \A y \in X : x <= y
  <2>1. X \in SUBSET Nat /\ X # {} BY <1>1
  <2> HIDE DEF X
  <2> QED BY <2>1, Least
<1>3. \A j \in ids : j <= MaxSequence - x
  <2> SUFFICES ASSUME NEW j \in ids PROVE j <= MaxSequence - x OBVIOUS
  <2>1. x <= MaxSequence - j BY <1>1, <1>2
  <2> QED BY <1>1, <1>2, <2>1, Limits
<1> QED BY <1>2, <1>3

\* A first value and a step make a function.
Steps(G, V, N) == \A v \in V, n \in 1 .. N : G[v][n] \in V
Iterates(f, G, V, b, N) ==
  f \in [0 .. N -> V] /\ f[0] = b /\ \A n \in 1 .. N : f[n] = G[f[n - 1]][n]

LEMMA Recursion ==
  ASSUME NEW V, NEW b \in V, NEW N \in Nat, NEW G, Steps(G, V, N)
  PROVE  \E f : Iterates(f, G, V, b, N)
<1> USE DEF Steps
<1> DEFINE Upto(k) == \E f \in [0 .. k -> V] :
                        \A n \in 0 .. k : f[n] = IF n = 0 THEN b ELSE G[f[n - 1]][n]
           S == {k \in Nat : k <= N => Upto(k)}
<1>1. 0 \in S
  <2> DEFINE f == [n \in 0 .. 0 |-> b]
  <2>1. f \in [0 .. 0 -> V] /\ \A n \in 0 .. 0 : f[n] = b /\ n = 0 OBVIOUS
  <2> HIDE DEF f
  <2>2. Upto(0) BY <2>1
  <2> QED BY <2>2
<1>2. ASSUME NEW k \in Nat, k \in S PROVE k + 1 \in S
  <2> SUFFICES ASSUME k + 1 <= N PROVE Upto(k + 1) OBVIOUS
  <2>1. PICK f \in [0 .. k -> V] : \A n \in 0 .. k : f[n] = IF n = 0 THEN b ELSE G[f[n - 1]][n]
    BY <1>2
  <2> DEFINE g == [n \in 0 .. k + 1 |-> IF n = k + 1 THEN G[f[k]][k + 1] ELSE f[n]]
  <2>2. g \in [0 .. k + 1 -> V] BY <2>1
  <2>3. \A n \in 0 .. k + 1 : g[n] = IF n = 0 THEN b ELSE G[g[n - 1]][n]
    <3> SUFFICES ASSUME NEW n \in 0 .. k + 1 PROVE g[n] = IF n = 0 THEN b ELSE G[g[n - 1]][n]
      OBVIOUS
    <3>1. CASE n = k + 1
      <4>1. g[n] = G[f[k]][n] /\ n # 0 /\ n - 1 = k BY <3>1
      <4>2. g[k] = f[k] OBVIOUS
      <4> QED BY <4>1, <4>2
    <3>2. CASE n # k + 1
      <4>1. n \in 0 .. k /\ g[n] = f[n] BY <3>2
      <4>2. n # 0 => g[n - 1] = f[n - 1] BY <4>1
      <4> HIDE DEF g
      <4> QED BY <2>1, <4>1, <4>2
    <3> QED BY <3>1, <3>2
  <2> HIDE DEF g
  <2> QED BY <2>2, <2>3
<1> HIDE DEF S
<1>3. N \in S BY <1>1, <1>2, Induction
<1>4. PICK f \in [0 .. N -> V] : \A n \in 0 .. N : f[n] = IF n = 0 THEN b ELSE G[f[n - 1]][n]
  <2> HIDE DEF Upto
  <2>1. Upto(N) BY <1>3 DEF S
  <2> QED BY <2>1 DEF Upto
<1>5. f[0] = b
  <2>1. 0 \in 0 .. N OBVIOUS
  <2> QED BY <1>4, <2>1
<1>6. \A n \in 1 .. N : f[n] = G[f[n - 1]][n]
  <2>1. \A n \in 1 .. N : n \in 0 .. N /\ n # 0 OBVIOUS
  <2> QED BY <1>4, <2>1
<1> QED BY <1>4, <1>5, <1>6 DEF Iterates

LEMMA LastRowsFacts ==
  ASSUME NEW S, NEW s \in Seq(S)
  PROVE  /\ LastRows(s) \in Seq(S) /\ Len(LastRows(s)) <= LIMIT /\ Len(LastRows(s)) <= Len(s)
         /\ ToSet(LastRows(s)) \subseteq ToSet(s)
<1> DEFINE first == IF Len(s) > LIMIT THEN Len(s) - LIMIT + 1 ELSE 1
<1>1. first \in Nat /\ first >= 1 /\ first <= Len(s) + 1 /\ Len(s) - first + 1 <= LIMIT BY Limits
<1>2. LastRows(s) = SubSeq(s, first, Len(s)) BY DEF LastRows
<1> HIDE DEF first
<1>3. LastRows(s) \in Seq(S) /\ Len(LastRows(s)) = Len(s) - first + 1 BY <1>1, <1>2
<1>4. \A i \in DOMAIN LastRows(s) : LastRows(s)[i] = s[first + i - 1] /\ first + i - 1 \in DOMAIN s
  BY <1>1, <1>2, <1>3
<1>5. ToSet(LastRows(s)) \subseteq ToSet(s) BY <1>4 DEF ToSet
<1> QED BY <1>1, <1>3, <1>5

LEMMA Sets ==
  ASSUME NEW S, NEW s \in Seq(S)
  PROVE  ToSet(s) \subseteq S
BY DEF ToSet

LEMMA AppendSet ==
  ASSUME NEW S, NEW s \in Seq(S), NEW e \in S
  PROVE  ToSet(Append(s, e)) = ToSet(s) \cup {e}
<1> DEFINE t == Append(s, e)
           N == Len(s)
<1>1. /\ N \in Nat /\ DOMAIN s = 1 .. N /\ DOMAIN t = 1 .. N + 1
      /\ \A i \in 1 .. N : t[i] = s[i]
      /\ t[N + 1] = e
  OBVIOUS
<1> HIDE DEF t, N
<1>2. ToSet(t) = {t[i] : i \in 1 .. N + 1} /\ ToSet(s) = {s[i] : i \in 1 .. N}
  BY <1>1 DEF ToSet
<1>3. \A i \in 1 .. N + 1 : i \in 1 .. N \/ i = N + 1 BY <1>1
<1>4. \A i \in 1 .. N : i \in 1 .. N + 1 BY <1>1
<1>5. N + 1 \in 1 .. N + 1 BY <1>1
<1>6. ToSet(t) = ToSet(s) \cup {e} BY <1>1, <1>2, <1>3, <1>4, <1>5
<1> QED BY <1>6 DEF t

LEMMA EmptySet == ToSet(<< >>) = {}
BY DEF ToSet

\* The rows that are left, in a log of kept tabs.
LEMMA RowsOfTabsFacts ==
  ASSUME NEW rows \in Seq(Rows), NEW kept
  PROVE  /\ RowsOfTabs(rows, kept) \in Seq(Rows)
         /\ Len(RowsOfTabs(rows, kept)) <= Len(rows)
         /\ \A row \in ToSet(RowsOfTabs(rows, kept)) :
              row \in ToSet(rows) /\ row.match.tabId \in kept
<1> DEFINE N == Len(rows)
           Step(v, n) == IF rows[n].match.tabId \in kept THEN Append(v, rows[n]) ELSE v
           G == [v \in Seq(Rows) |-> [n \in 1 .. N |-> Step(v, n)]]
           taken == CHOOSE f : f = [n \in 0 .. N |->
                      IF n = 0 THEN << >>
                      ELSE IF rows[n].match.tabId \in kept THEN Append(f[n - 1], rows[n])
                           ELSE f[n - 1]]
           Good(n) == /\ taken[n] \in Seq(Rows) /\ Len(taken[n]) <= n
                      /\ \A row \in ToSet(taken[n]) :
                           row \in ToSet(rows) /\ row.match.tabId \in kept
<1>1. N \in Nat /\ << >> \in Seq(Rows) OBVIOUS
<1>0. \A n \in 1 .. N : rows[n] \in Rows /\ rows[n] \in ToSet(rows) BY DEF ToSet
<1>2. \A v \in Seq(Rows), n \in 1 .. N : G[v][n] = Step(v, n) /\ Step(v, n) \in Seq(Rows)
  <2> SUFFICES ASSUME NEW v \in Seq(Rows), NEW n \in 1 .. N
               PROVE  G[v][n] = Step(v, n) /\ Step(v, n) \in Seq(Rows)
    OBVIOUS
  <2>1. Step(v, n) \in Seq(Rows) BY <1>0
  <2> HIDE DEF Step, N
  <2>2. G[v] = [m \in 1 .. N |-> Step(v, m)] OBVIOUS
  <2> QED BY <2>1, <2>2
<1>3. \E f : f = [n \in 0 .. N |->
                  IF n = 0 THEN << >>
                  ELSE IF rows[n].match.tabId \in kept THEN Append(f[n - 1], rows[n]) ELSE f[n - 1]]
  <2> HIDE DEF G, N, Step, taken, Good
  <2>1. Steps(G, Seq(Rows), N) BY <1>2 DEF Steps
  <2>2. PICK f : Iterates(f, G, Seq(Rows), << >>, N) BY <1>1, <2>1, Recursion
  <2>3. f \in [0 .. N -> Seq(Rows)] /\ f[0] = << >> BY <2>2 DEF Iterates
  <2>4. ASSUME NEW n \in 1 .. N PROVE f[n] = Step(f[n - 1], n)
    <3>1. n - 1 \in 0 .. N BY <1>1
    <3>2. f[n - 1] \in Seq(Rows) BY <2>3, <3>1
    <3>3. G[f[n - 1]][n] = Step(f[n - 1], n) BY <1>2, <3>2
    <3> QED BY <2>2, <3>3 DEF Iterates
  <2>5. \A n \in 0 .. N : f[n] = IF n = 0 THEN << >> ELSE Step(f[n - 1], n)
    BY <1>1, <2>3, <2>4
  <2>6. f = [n \in 0 .. N |-> IF n = 0 THEN << >> ELSE Step(f[n - 1], n)] BY <2>3, <2>5
  <2> QED BY <2>6 DEF Step
<1>4. taken = [n \in 0 .. N |->
                 IF n = 0 THEN << >>
                 ELSE IF rows[n].match.tabId \in kept THEN Append(taken[n - 1], rows[n])
                      ELSE taken[n - 1]]
  BY <1>3
<1>5. RowsOfTabs(rows, kept) = taken[N] BY DEF RowsOfTabs
<1> HIDE DEF taken, N
<1> DEFINE T == {n \in Nat : n <= N => Good(n)}
<1>6. 0 \in T
  <2>1. taken[0] = << >> BY <1>1, <1>4
  <2>2. Good(0) BY <2>1, EmptySet
  <2> QED BY <2>2
<1>7. ASSUME NEW n \in Nat, n \in T PROVE n + 1 \in T
  <2> SUFFICES ASSUME n + 1 <= N PROVE Good(n + 1) OBVIOUS
  <2>1. Good(n) BY <1>1, <1>7
  <2>2. n + 1 \in 1 .. Len(rows) /\ rows[n + 1] \in Rows /\ rows[n + 1] \in ToSet(rows)
    BY <1>0, <1>1 DEF N
  <2>3. taken[n + 1] = IF rows[n + 1].match.tabId \in kept THEN Append(taken[n], rows[n + 1])
                       ELSE taken[n]
    <3>1. n + 1 \in 0 .. N /\ n + 1 # 0 /\ (n + 1) - 1 = n BY <1>1
    <3> QED BY <1>4, <3>1
  <2>4. CASE rows[n + 1].match.tabId \in kept
    <3>1. taken[n + 1] = Append(taken[n], rows[n + 1]) BY <2>3, <2>4
    <3>2. ToSet(taken[n + 1]) = ToSet(taken[n]) \cup {rows[n + 1]}
      <4>1. taken[n] \in Seq(Rows) BY <2>1
      <4> HIDE DEF Good
      <4>2. ToSet(Append(taken[n], rows[n + 1])) = ToSet(taken[n]) \cup {rows[n + 1]}
        BY <2>2, <4>1, AppendSet
      <4> QED BY <3>1, <4>2
    <3> QED BY <2>1, <2>2, <2>4, <3>1, <3>2
  <2>5. CASE rows[n + 1].match.tabId \notin kept
    <3>1. taken[n + 1] = taken[n] BY <2>3, <2>5
    <3> QED BY <2>1, <3>1
  <2> QED BY <2>4, <2>5
<1> HIDE DEF T
<1>8. N \in T BY <1>1, <1>6, <1>7, Induction
<1>9. Good(N) BY <1>1, <1>8 DEF T
<1> QED BY <1>5, <1>9 DEF N

LEMMA KeepingFacts ==
  ASSUME NEW l, LogOK(l), NEW kept
  PROVE  LET new == Keeping(l, kept)
         IN  /\ LogOK(new)
             /\ new.sequence = l.sequence
             /\ \A row \in ToSet(new.rows) : row \in ToSet(l.rows) /\ row.match.tabId \in kept
<1> DEFINE new == Keeping(l, kept)
           r == RowsOfTabs(l.rows, kept)
<1>1. l.rows \in Seq(Rows) /\ l \in LogStates BY DEF LogOK, LogStates
<1>2. new = [rows |-> r, seen |-> l.seen, sequence |-> l.sequence, recorded |-> l.recorded]
  BY <1>1 DEF Keeping, LogStates
<1> HIDE DEF r, new
<1>3. /\ r \in Seq(Rows) /\ Len(r) <= Len(l.rows)
      /\ \A row \in ToSet(r) : row \in ToSet(l.rows) /\ row.match.tabId \in kept
  BY <1>1, RowsOfTabsFacts DEF r
<1>4. new \in LogStates BY <1>1, <1>2, <1>3 DEF LogStates
<1>5. new.rows = r /\ new.seen = l.seen /\ new.recorded = l.recorded /\ new.sequence = l.sequence
  BY <1>2
<1>6. Len(new.rows) <= LIMIT BY <1>1, <1>3, <1>5, Limits DEF LogOK
<1>7. Remembers(new.seen, new.recorded) /\ RecordsOnce(new.recorded) BY <1>5 DEF LogOK
<1> QED BY <1>3, <1>4, <1>5, <1>6, <1>7 DEF LogOK, new
-----------------------------------------------------------------------------
(* append, for one match and for those observed before storage was read. *)

\* The rows are old ones, or this worker's, with higher IDs.
Grown(l, new, matches) ==
  /\ l.sequence <= new.sequence
  /\ \A row \in ToSet(new.rows) \ ToSet(l.rows) :
       /\ row.life = life /\ row.match \in matches
       /\ l.sequence < row.id /\ row.id <= new.sequence

LEMMA Window ==
  ASSUME NEW S, NEW s \in Seq(S), NEW r \in Seq(S), NEW e \in S, ~Contains(s, e),
         Len(s) <= 2 * LIMIT, Remembers(s, r), RecordsOnce(r)
  PROVE  LET keys == Append(s, e)
             seen == IF Len(keys) > 2 * LIMIT THEN Tail(keys) ELSE keys
             recorded == Append(r, e)
         IN  /\ seen \in Seq(S) /\ recorded \in Seq(S) /\ Len(seen) <= 2 * LIMIT
             /\ Remembers(seen, recorded) /\ RecordsOnce(recorded)
<1> DEFINE L == 2 * LIMIT
           n == Len(s)
           m == Len(r)
           keys == Append(s, e)
           seen == IF Len(keys) > L THEN Tail(keys) ELSE keys
           recorded == Append(r, e)
<1>1. L \in Nat /\ L > 0 /\ n \in Nat /\ m \in Nat BY Limits
<1>2. /\ n <= L /\ n <= m
      /\ n = m \/ n = L
      /\ \A k \in 1 .. n : s[k] = r[m - n + k]
  BY DEF Remembers
<1>3. /\ keys \in Seq(S) /\ Len(keys) = n + 1 /\ keys[n + 1] = e
      /\ \A k \in 1 .. n : keys[k] = s[k]
  OBVIOUS
<1>4. /\ recorded \in Seq(S) /\ Len(recorded) = m + 1 /\ recorded[m + 1] = e
      /\ \A k \in 1 .. m : recorded[k] = r[k]
  OBVIOUS
<1>5. \A i, j \in 1 .. m : (i < j /\ r[i] = r[j]) => j - i > L BY DEF RecordsOnce
<1>6. \A k \in 1 .. n : s[k] # e BY DEF Contains
<1>7. Len(keys) > L => /\ Tail(keys) \in Seq(S) /\ Len(Tail(keys)) = n
                       /\ \A k \in 1 .. n : Tail(keys)[k] = keys[k + 1]
  BY <1>1, <1>3
<1> HIDE DEF L, n, m, keys, recorded
<1>8. \A k \in 1 .. n + 1 : keys[k] = recorded[m - n + k]
  <2> SUFFICES ASSUME NEW k \in 1 .. n + 1 PROVE keys[k] = recorded[m - n + k] OBVIOUS
  <2>1. CASE k = n + 1
    <3>1. m - n + k = m + 1 BY <1>1, <2>1
    <3> QED BY <1>3, <1>4, <2>1, <3>1
  <2>2. CASE k # n + 1
    <3>1. k \in 1 .. n /\ m - n + k \in 1 .. m BY <1>1, <1>2, <2>2
    <3> QED BY <1>2, <1>3, <1>4, <3>1
  <2> QED BY <2>1, <2>2
<1>9. /\ seen \in Seq(S) /\ Len(seen) <= L /\ Len(seen) <= Len(recorded)
      /\ Len(seen) = Len(recorded) \/ Len(seen) = L
      /\ \A k \in 1 .. Len(seen) : seen[k] = recorded[Len(recorded) - Len(seen) + k]
  <2>1. CASE n + 1 > L
    <3>1. n = L /\ seen = Tail(keys) BY <1>1, <1>2, <1>3, <2>1
    <3>2. Len(seen) = n /\ seen \in Seq(S) /\ \A k \in 1 .. n : seen[k] = keys[k + 1]
      BY <1>3, <1>7, <2>1, <3>1
    <3> HIDE DEF seen
    <3>3. ASSUME NEW k \in 1 .. n PROVE seen[k] = recorded[Len(recorded) - Len(seen) + k]
      <4>1. k + 1 \in 1 .. n + 1 /\ m - n + (k + 1) = Len(recorded) - Len(seen) + k
        BY <1>1, <1>4, <3>2
      <4> QED BY <1>8, <3>2, <4>1
    <3>4. \A k \in 1 .. Len(seen) : seen[k] = recorded[Len(recorded) - Len(seen) + k]
      BY <3>2, <3>3
    <3>5. Len(seen) = L /\ L <= Len(recorded) BY <1>1, <1>2, <1>4, <3>1, <3>2
    <3> QED BY <1>1, <3>2, <3>4, <3>5
  <2>2. CASE ~(n + 1 > L)
    <3>1. n + 1 <= L /\ n = m BY <1>1, <1>2, <2>2
    <3>2. seen = keys BY <1>3, <2>2
    <3> HIDE DEF seen
    <3>3. Len(seen) = n + 1 /\ Len(recorded) = n + 1 /\ seen \in Seq(S) BY <1>3, <1>4, <3>1, <3>2
    <3>4. ASSUME NEW k \in 1 .. Len(seen)
          PROVE  seen[k] = recorded[Len(recorded) - Len(seen) + k]
      <4>1. k \in 1 .. n + 1 /\ m - n + k = Len(recorded) - Len(seen) + k
        BY <1>1, <3>1, <3>3
      <4> QED BY <1>8, <3>2, <4>1
    <3> QED BY <1>1, <3>1, <3>3, <3>4
  <2> QED BY <2>1, <2>2
<1> HIDE DEF seen
<1>10. ASSUME NEW i \in 1 .. m + 1, NEW j \in 1 .. m + 1, i < j, recorded[i] = recorded[j]
       PROVE  j - i > L
  <2>1. i \in 1 .. m /\ recorded[i] = r[i] BY <1>1, <1>4, <1>10
  <2>2. CASE j \in 1 .. m BY <1>4, <1>5, <1>10, <2>1, <2>2
  <2>3. CASE j = m + 1
    <3> SUFFICES ASSUME ~(j - i > L) PROVE FALSE OBVIOUS
    <3> DEFINE k == i - (m - n)
    <3>1. r[i] = e BY <1>4, <1>10, <2>1, <2>3
    <3>2. k \in 1 .. n /\ m - n + k = i BY <1>1, <1>2, <2>1, <2>3
    <3> HIDE DEF k
    <3> QED BY <1>2, <1>6, <3>1, <3>2
  <2> QED BY <1>1, <2>2, <2>3
<1>11. Remembers(seen, recorded) BY <1>9, Zenon DEF Remembers, L
<1>12. RecordsOnce(recorded)
  <2>1. Len(recorded) = m + 1 BY <1>4
  <2> QED BY <1>10, <2>1 DEF RecordsOnce, L
<1> QED BY <1>4, <1>9, <1>11, <1>12 DEF seen, recorded, keys, L

LEMMA AppendFacts ==
  ASSUME NEW l, LogOK(l), NEW match \in Matches, life \in Nat
  PROVE  LET new == append(l, match)
         IN  /\ LogOK(new)
             /\ l.sequence < MaxSequence =>
                  /\ Grown(l, new, {match})
                  /\ new.sequence <= l.sequence + 1
<1> DEFINE new == append(l, match)
           id == IF l.sequence >= MaxSequence THEN 1 ELSE l.sequence + 1
           row == [id |-> id, match |-> match, life |-> life]
           keys == Append(l.seen, match)
           rows == LastRows(Append(l.rows, row))
           seen == IF Len(keys) > 2 * LIMIT THEN Tail(keys) ELSE keys
           recorded == Append(l.recorded, match)
<1>1. /\ l \in LogStates /\ l.rows \in Seq(Rows) /\ l.seen \in Seq(Matches)
      /\ l.sequence \in 0 .. MaxSequence /\ l.recorded \in Seq(Matches)
      /\ Len(l.rows) <= LIMIT /\ Len(l.seen) <= 2 * LIMIT
      /\ Remembers(l.seen, l.recorded) /\ RecordsOnce(l.recorded)
  BY DEF LogOK, LogStates
<1>2. CASE Contains(l.seen, match)
  <2>1. new = l BY <1>2 DEF append
  <2> QED BY <1>1, <2>1, Limits DEF Grown
<1>3. CASE ~Contains(l.seen, match)
  <2>1. new = [rows |-> rows, seen |-> seen, sequence |-> id, recorded |-> recorded]
    BY <1>3 DEF append
  <2>2. id \in 1 .. MaxSequence /\ (l.sequence < MaxSequence => id = l.sequence + 1)
    BY <1>1, Limits
  <2> HIDE DEF id
  <2>3. row \in Rows /\ row.id = id /\ row.match = match /\ row.life = life BY <2>2 DEF Rows
  <2> HIDE DEF row
  <2>4. Append(l.rows, row) \in Seq(Rows) /\ ToSet(Append(l.rows, row)) = ToSet(l.rows) \cup {row}
    BY <1>1, <2>3, AppendSet
  <2>5. /\ rows \in Seq(Rows) /\ Len(rows) <= LIMIT
        /\ ToSet(rows) \subseteq ToSet(l.rows) \cup {row}
    BY <2>4, LastRowsFacts
  <2> HIDE DEF rows
  <2>6. /\ seen \in Seq(Matches) /\ recorded \in Seq(Matches) /\ Len(seen) <= 2 * LIMIT
        /\ Remembers(seen, recorded) /\ RecordsOnce(recorded)
    BY <1>1, <1>3, Window
  <2> HIDE DEF seen, recorded
  <2>7. /\ new.rows = rows /\ new.seen = seen /\ new.sequence = id /\ new.recorded = recorded
        /\ new \in LogStates
    BY <2>1, <2>2, <2>5, <2>6 DEF LogStates
  <2>8. LogOK(new) BY <2>5, <2>6, <2>7 DEF LogOK
  <2>9. ASSUME l.sequence < MaxSequence
        PROVE  Grown(l, new, {match}) /\ new.sequence <= l.sequence + 1
    BY <1>1, <2>2, <2>3, <2>5, <2>7, <2>9 DEF Grown
  <2> HIDE DEF new
  <2> QED BY <2>8, <2>9 DEF new
<1> QED BY <1>2, <1>3

LEMMA GrownTransitive ==
  ASSUME NEW l, NEW v, NEW w, NEW some, NEW more, LogOK(l), LogOK(v), LogOK(w),
         Grown(l, v, some), Grown(v, w, more)
  PROVE  Grown(l, w, some \cup more)
<1>1. /\ l.sequence \in Nat /\ v.sequence \in Nat /\ w.sequence \in Nat
      /\ v.rows \in Seq(Rows) /\ w.rows \in Seq(Rows)
  BY Limits DEF LogOK, LogStates
<1>2. ToSet(v.rows) \subseteq Rows /\ ToSet(w.rows) \subseteq Rows BY <1>1, Sets
<1>3. l.sequence <= w.sequence BY <1>1 DEF Grown
<1>4. ASSUME NEW row \in ToSet(w.rows) \ ToSet(l.rows)
      PROVE  /\ row.life = life /\ row.match \in some \cup more
             /\ l.sequence < row.id /\ row.id <= w.sequence
  <2>1. row.id \in Nat BY <1>2 DEF Rows
  <2>2. CASE row \in ToSet(v.rows)
    <3>1. /\ row.life = life /\ row.match \in some
          /\ l.sequence < row.id /\ row.id <= v.sequence
      BY <1>4, <2>2 DEF Grown
    <3> QED BY <1>1, <2>1, <3>1 DEF Grown
  <2>3. CASE row \notin ToSet(v.rows)
    <3>1. /\ row.life = life /\ row.match \in more
          /\ v.sequence < row.id /\ row.id <= w.sequence
      BY <1>4, <2>3 DEF Grown
    <3> QED BY <1>1, <2>1, <3>1 DEF Grown
  <2> QED BY <2>2, <2>3
<1> QED BY <1>3, <1>4 DEF Grown

LEMMA AppendAllFacts ==
  ASSUME NEW l, LogOK(l), NEW matches \in Seq(Matches), life \in Nat,
         l.sequence + Len(matches) <= MaxSequence
  PROVE  LET new == appendAll(l, matches)
         IN  /\ LogOK(new) /\ Grown(l, new, ToSet(matches))
             /\ new.sequence <= l.sequence + Len(matches)
<1> DEFINE N == Len(matches)
           V == {v \in LogStates : LogOK(v)}
           G == [v \in V |-> [n \in 1 .. N |-> append(v, matches[n])]]
           after == CHOOSE f : f = [n \in 0 .. N |->
                      IF n = 0 THEN l ELSE append(f[n - 1], matches[n])]
           Good(n) == /\ LogOK(after[n]) /\ Grown(l, after[n], ToSet(matches))
                      /\ after[n].sequence <= l.sequence + n
<1>1. /\ N \in Nat /\ l \in V /\ l.sequence \in 0 .. MaxSequence
      /\ \A n \in 1 .. N : matches[n] \in Matches /\ matches[n] \in ToSet(matches)
  BY DEF LogOK, LogStates, ToSet
<1>2. \A v \in V, n \in 1 .. N : G[v][n] = append(v, matches[n]) /\ append(v, matches[n]) \in V
  <2> SUFFICES ASSUME NEW v \in V, NEW n \in 1 .. N
               PROVE  G[v][n] = append(v, matches[n]) /\ append(v, matches[n]) \in V
    OBVIOUS
  <2>1. LogOK(append(v, matches[n])) BY <1>1, AppendFacts
  <2>2. append(v, matches[n]) \in V BY <2>1 DEF LogOK
  <2> HIDE DEF V, N
  <2>3. G[v] = [m \in 1 .. N |-> append(v, matches[m])] OBVIOUS
  <2> QED BY <2>2, <2>3
<1>3. \E f : f = [n \in 0 .. N |-> IF n = 0 THEN l ELSE append(f[n - 1], matches[n])]
  <2> HIDE DEF G, N, V, after, Good
  <2>1. Steps(G, V, N) BY <1>2 DEF Steps
  <2>2. PICK f : Iterates(f, G, V, l, N) BY <1>1, <2>1, Recursion
  <2>3. f \in [0 .. N -> V] /\ f[0] = l BY <2>2 DEF Iterates
  <2>4. ASSUME NEW n \in 1 .. N PROVE f[n] = append(f[n - 1], matches[n])
    <3>1. n - 1 \in 0 .. N BY <1>1
    <3>2. f[n - 1] \in V BY <2>3, <3>1
    <3>3. G[f[n - 1]][n] = append(f[n - 1], matches[n]) BY <1>2, <3>2
    <3> QED BY <2>2, <3>3 DEF Iterates
  <2>5. \A n \in 0 .. N : f[n] = IF n = 0 THEN l ELSE append(f[n - 1], matches[n])
    BY <1>1, <2>3, <2>4
  <2> QED BY <2>3, <2>5
<1>4. after = [n \in 0 .. N |-> IF n = 0 THEN l ELSE append(after[n - 1], matches[n])]
  BY <1>3
<1>5. appendAll(l, matches) = after[N] BY DEF appendAll
<1> HIDE DEF after, N
<1> DEFINE T == {n \in Nat : n <= N => Good(n)}
<1>6. 0 \in T
  <2>1. after[0] = l BY <1>1, <1>4
  <2>2. Good(0) BY <1>1, <2>1 DEF Grown
  <2> QED BY <2>2
<1>7. ASSUME NEW n \in Nat, n \in T PROVE n + 1 \in T
  <2> SUFFICES ASSUME n + 1 <= N PROVE Good(n + 1) OBVIOUS
  <2> DEFINE v == after[n]
             w == after[n + 1]
  <2>1. Good(n) BY <1>1, <1>7
  <2>2. n + 1 \in 0 .. N /\ n + 1 # 0 /\ (n + 1) - 1 = n /\ n + 1 \in 1 .. N BY <1>1
  <2>3. w = append(v, matches[n + 1]) BY <1>4, <2>2
  <2> HIDE DEF w
  <2>4. LogOK(v) /\ v.sequence < MaxSequence /\ v.sequence \in Nat
    <3>1. LogOK(v) /\ v.sequence <= l.sequence + n BY <2>1
    <3>2. v.sequence \in 0 .. MaxSequence BY <3>1 DEF LogOK, LogStates
    <3>3. l.sequence + N <= MaxSequence BY DEF N
    <3> HIDE DEF v
    <3> QED BY <1>1, <3>1, <3>2, <3>3, Limits
  <2>5. LogOK(w) /\ Grown(v, w, {matches[n + 1]}) /\ w.sequence <= v.sequence + 1
    BY <1>1, <2>2, <2>3, <2>4, AppendFacts
  <2>6. w.sequence \in Nat BY <2>5, Limits DEF LogOK, LogStates
  <2>7. Grown(l, v, ToSet(matches)) BY <2>1
  <2>8. Grown(l, w, ToSet(matches) \cup {matches[n + 1]})
    BY <2>4, <2>5, <2>7, GrownTransitive
  <2>9. Grown(l, w, ToSet(matches))
    <3>1. ToSet(matches) \cup {matches[n + 1]} = ToSet(matches) BY <1>1, <2>2
    <3> QED BY <2>8, <3>1
  <2>10. w.sequence <= l.sequence + (n + 1) BY <1>1, <2>1, <2>4, <2>5, <2>6
  <2> QED BY <2>5, <2>9, <2>10 DEF w
<1> HIDE DEF T
<1>8. N \in T BY <1>1, <1>6, <1>7, Induction
<1>9. Good(N) BY <1>1, <1>8 DEF T
<1> QED BY <1>5, <1>9 DEF N

\* The sequence goes on after the greatest ID that is stored.
LEMMA RestoredFacts ==
  ASSUME NEW rows \in Seq(Rows), Len(rows) <= LIMIT
  PROVE  LET ids == {row.id : row \in RowsOf(rows)}
             restored == [EmptyLog EXCEPT
               !.rows = rows,
               !.sequence = IF ids = {} THEN 0 ELSE CHOOSE i \in ids : \A j \in ids : j <= i]
         IN  /\ LogOK(restored) /\ restored.rows = rows
             /\ \A row \in RowsOf(rows) : row.id <= restored.sequence
             /\ restored.sequence = 0 \/ \E row \in RowsOf(rows) : restored.sequence = row.id
<1> DEFINE ids == {row.id : row \in RowsOf(rows)}
           greatest == IF ids = {} THEN 0 ELSE CHOOSE i \in ids : \A j \in ids : j <= i
           restored == [EmptyLog EXCEPT !.rows = rows, !.sequence = greatest]
<1>1. ToSet(rows) \subseteq Rows BY Sets
<1>2. ids \in SUBSET (1 .. MaxSequence) BY <1>1 DEF RowsOf, Rows
<1>3. /\ greatest \in 0 .. MaxSequence /\ \A i \in ids : i <= greatest
      /\ greatest = 0 \/ greatest \in ids
  <2> HIDE DEF ids
  <2>1. CASE ids = {} BY <2>1, Limits
  <2>2. CASE ids # {}
    <3>1. \E i \in ids : \A j \in ids : j <= i BY <1>2, <2>2, Greatest
    <3>2. greatest = CHOOSE i \in ids : \A j \in ids : j <= i BY <2>2
    <3>3. greatest \in ids /\ \A j \in ids : j <= greatest BY <3>1, <3>2
    <3> HIDE DEF greatest
    <3> QED BY <1>2, <3>3, Limits
  <2> QED BY <2>1, <2>2
<1>4. \A row \in RowsOf(rows) : row.id \in ids OBVIOUS
<1>5. greatest \in ids => \E row \in RowsOf(rows) : greatest = row.id OBVIOUS
<1> HIDE DEF ids, greatest
<1>6. /\ restored.rows = rows /\ restored.seen = << >>
      /\ restored.sequence = greatest /\ restored.recorded = << >>
  BY DEF EmptyLog
<1>7. restored \in LogStates
  <2>1. EmptyLog \in LogStates BY Limits DEF EmptyLog, LogStates
  <2>2. \A l \in LogStates, i \in 0 .. MaxSequence :
          [l EXCEPT !.rows = rows, !.sequence = i] \in LogStates
    BY DEF LogStates
  <2> HIDE DEF LogStates
  <2> QED BY <1>3, <2>1, <2>2
<1> HIDE DEF restored
<1>8. Remembers(<< >>, << >>) /\ RecordsOnce(<< >>) BY DEF Remembers, RecordsOnce
<1>9. LogOK(restored) BY <1>6, <1>7, <1>8, Limits DEF LogOK
<1>10. restored.rows = rows /\ restored.sequence = greatest BY <1>6
<1> QED BY <1>3, <1>4, <1>5, <1>9, <1>10 DEF restored, greatest, ids
-----------------------------------------------------------------------------
(* The first state, the startup query's failure and the worker's start. *)

LEMMA RowFacts ==
  /\ \A row \in Rows : /\ row.id \in Nat /\ row.id > 0 /\ row.life \in Nat
                       /\ row.match \in Matches /\ row.match.tabId \in Tabs
  /\ \A s \in Seq(Rows) : RowsOf(s) \subseteq Rows
  /\ RowsOf(<< >>) = {}
  /\ EmptyLog.rows = << >> /\ EmptyLog.sequence = 0 /\ LogOK(EmptyLog)
<1>1. \A row \in Rows : /\ row.id \in Nat /\ row.id > 0 /\ row.life \in Nat
                        /\ row.match \in Matches /\ row.match.tabId \in Tabs
  BY DEF Rows, Matches
<1>2. \A s \in Seq(Rows) : RowsOf(s) \subseteq Rows BY Sets DEF RowsOf
<1>3. RowsOf(<< >>) = {} BY EmptySet DEF RowsOf
<1>4. EmptyLog.rows = << >> /\ EmptyLog.sequence = 0 /\ EmptyLog.seen = << >>
      /\ EmptyLog.recorded = << >>
  BY DEF EmptyLog
<1>5. EmptyLog \in LogStates BY Limits DEF EmptyLog, LogStates
<1>6. Remembers(<< >>, << >>) /\ RecordsOnce(<< >>) BY DEF Remembers, RecordsOnce
<1>7. LogOK(EmptyLog) BY <1>4, <1>5, <1>6, Limits DEF LogOK
<1> QED BY <1>1, <1>2, <1>3, <1>4, <1>7

LEMMA InitOK == Init => LogInv
<1> SUFFICES ASSUME Init PROVE LogInv OBVIOUS
<1> USE DEF Init, Fresh
<1>1. LogOK(log) BY RowFacts
<1>2. TypeOK
  <2>1. log \in LogStates /\ Len(log.rows) <= LIMIT /\ Len(log.seen) <= 2 * LIMIT
    BY <1>1 DEF LogOK
  <2>2. stored \in Seq(Rows) /\ Len(stored) <= LIMIT /\ pending \in Seq(Matches)
        /\ Len(pending) <= LIMIT
    BY Limits
  <2> QED BY <2>1, <2>2, Zenon DEF TypeOK
<1>3. PhaseOK BY DEF PhaseOK
<1>4. IdsOK BY RowFacts, Limits DEF IdsOK, AllRows, WrittenRows
<1>5. ClearsOK BY RowFacts DEF ClearsOK, ClearedForGood, WrittenRows
<1>6. SavesOK BY DEF SavesOK
<1>7. TabsOK BY DEF TabsOK, ClosedTabsForgotten
<1> QED BY <1>1, <1>2, <1>3, <1>4, <1>5, <1>6, <1>7 DEF LogInv

\* A step that touches no rows.
LEMMA RowsUntouched ==
  ASSUME LogInv, events' \in Nat, events <= events', events' <= MaxEvents,
         UNCHANGED <<alive, log, pending, initialized, dirty, timer, saving, storageError, stored,
                     history>>
  PROVE  LogOK(log)' /\ IdsOK' /\ ClearsOK' /\ SavesOK'
<1> USE DEF history
<1>1. LogOK(log)' BY DEF LogInv, LogOK, LogStates, Remembers, RecordsOnce
<1>2. AllRows' = AllRows /\ WrittenRows' = WrittenRows
  BY DEF AllRows, WrittenRows, RowsOf
<1>3. IdsOK'
  <2>1. /\ log.sequence \in Nat /\ Len(pending) \in Nat /\ events \in Nat
        /\ RowsOf(log.rows) \cup WrittenRows \subseteq Rows
    BY RowFacts, Limits DEF LogInv, TypeOK, LogStates, WrittenRows
  <2> QED BY <1>2, <2>1, RowFacts DEF LogInv, IdsOK, RowsOf
<1>4. ClearsOK' BY <1>2 DEF LogInv, ClearsOK, ClearedForGood, RowsOf
<1>5. SavesOK' BY DEF LogInv, SavesOK
<1> QED BY <1>1, <1>3, <1>4, <1>5

LEMMA TabsFailOK == ASSUME LogInv, TabsFail PROVE LogInv'
<1> USE DEF TabsFail, Fails, browser
<1>1. LogOK(log)' /\ IdsOK' /\ ClearsOK' /\ SavesOK'
  BY RowsUntouched, Limits DEF batch, LogInv, TypeOK, IdsOK
<1>2. TypeOK' BY DEF LogInv, TypeOK, batch, history
<1>3. PhaseOK' BY DEF LogInv, PhaseOK, batch, history
<1>4. TabsOK' BY DEF LogInv, TabsOK, ClosedTabsForgotten, Permitted, batch, history, RowsOf
<1> QED BY <1>1, <1>2, <1>3, <1>4 DEF LogInv

LEMMA StutteringOK == ASSUME LogInv, UNCHANGED vars PROVE LogInv'
<1> USE DEF vars, browser, tabs
<1>1. LogOK(log)' /\ IdsOK' /\ ClearsOK' /\ SavesOK'
  BY RowsUntouched, Limits DEF batch, LogInv, TypeOK, IdsOK
<1>2. TypeOK' BY DEF LogInv, TypeOK, batch, history
<1>3. PhaseOK' BY DEF LogInv, PhaseOK, batch, history
<1>4. TabsOK' BY DEF LogInv, TabsOK, ClosedTabsForgotten, Permitted, batch, history, RowsOf
<1> QED BY <1>1, <1>2, <1>3, <1>4 DEF LogInv

LEMMA StartOK == ASSUME LogInv, Start PROVE LogInv'
<1> USE DEF Start, browser, batch
<1>1. TypeOK' BY DEF LogInv, TypeOK
<1>2. LogOK(log)' BY DEF LogInv, LogOK, LogStates, Remembers, RecordsOnce
<1>3. PhaseOK' BY DEF LogInv, PhaseOK
<1>4. AllRows' = AllRows /\ WrittenRows' = WrittenRows
  BY DEF AllRows, WrittenRows, RowsOf
<1>5. IdsOK'
  <2>1. AllRows \subseteq Rows /\ life \in Nat
    BY RowFacts DEF LogInv, TypeOK, LogStates, AllRows, WrittenRows
  <2>2. \A row \in AllRows : row.life \in Nat /\ row.life <= life
    BY <2>1, RowFacts DEF LogInv, IdsOK
  <2>3. \A row \in AllRows : row.life <= life' /\ row.life # life' BY <2>1, <2>2
  <2> QED BY <1>4, <2>3 DEF LogInv, IdsOK, RowsOf
<1>6. ClearsOK' BY <1>4 DEF LogInv, ClearsOK, ClearedForGood, RowsOf
<1>7. SavesOK' BY DEF LogInv, SavesOK
<1>8. TabsOK' BY DEF LogInv, TabsOK, PhaseOK, ClosedTabsForgotten, TypeOK
<1> QED BY <1>1, <1>2, <1>3, <1>5, <1>6, <1>7, <1>8 DEF LogInv
-----------------------------------------------------------------------------
(* The steps of tabs. *)

LEMMA RetainOK ==
  ASSUME LogInv, NEW kept, Retain(kept), initialized,
         UNCHANGED <<alive, pending, initialized, history>>,
         events' \in Nat, events <= events', events' <= MaxEvents
  PROVE  /\ LogOK(log)' /\ IdsOK' /\ ClearsOK' /\ SavesOK'
         /\ dirty' \in BOOLEAN /\ timer' \in BOOLEAN
         /\ \A row \in RowsOf(log.rows)' : row \in RowsOf(log.rows) /\ row.match.tabId \in kept
<1> USE DEF history
<1>1. /\ log' = Keeping(log, kept) /\ UNCHANGED <<saving, clearing, storageError, stored>>
      /\ \/ log' # log /\ dirty' = TRUE /\ timer' = TRUE
         \/ log' = log /\ UNCHANGED <<dirty, timer>>
  BY DEF Retain, Changed
<1>2. /\ LogOK(log') /\ log'.sequence = log.sequence
      /\ \A row \in RowsOf(log'.rows) : row \in RowsOf(log.rows) /\ row.match.tabId \in kept
  BY <1>1, KeepingFacts DEF LogInv, RowsOf
<1>3. LogOK(log)' BY <1>2 DEF LogOK, LogStates, Remembers, RecordsOnce
<1>4. /\ RowsOf(log.rows)' \subseteq RowsOf(log.rows) /\ WrittenRows' = WrittenRows
      /\ AllRows' \subseteq AllRows
  BY <1>1, <1>2 DEF AllRows, WrittenRows, RowsOf
<1>5. IdsOK'
  <2>1. /\ log.sequence \in Nat /\ Len(pending) \in Nat /\ events \in Nat
        /\ RowsOf(log.rows) \cup WrittenRows \subseteq Rows
    BY RowFacts, Limits DEF LogInv, TypeOK, LogStates, WrittenRows
  <2>2. log.sequence' + Len(pending') <= events' BY <1>2, <2>1 DEF LogInv, IdsOK
  <2>3. \A row \in RowsOf(log.rows) \cup WrittenRows : row.id + Len(pending) <= events'
    BY <2>1, RowFacts DEF LogInv, IdsOK
  <2> QED BY <1>2, <1>4, <2>2, <2>3 DEF LogInv, IdsOK
<1>6. ClearsOK' BY <1>1, <1>4 DEF LogInv, ClearsOK, ClearedForGood, RowsOf
<1>7. SavesOK' BY <1>1 DEF LogInv, SavesOK
<1>8. dirty' \in BOOLEAN /\ timer' \in BOOLEAN BY <1>1 DEF LogInv, TypeOK
<1> QED BY <1>2, <1>3, <1>5, <1>6, <1>7, <1>8 DEF RowsOf

\* What a step of a tab may change besides what is known of it.
TabStep ==
  /\ UNCHANGED <<alive, tabsQuery, queried, pending, initialized, history>>
  /\ events' \in Nat /\ events <= events' /\ events' <= MaxEvents /\ faults' \in Nat
  /\ open' \in SUBSET Tabs /\ fresh' \in SUBSET (Tabs \ open')
  /\ resurrected' \in SUBSET Tabs
  /\ lookups' \in SUBSET (Tabs \X Purposes)
  /\ ~alive => UNCHANGED <<lookups, resurrected>>

LEMMA UnheardOK ==
  ASSUME LogInv, TabStep, Unheard,
         ~alive \/ (open \subseteq open' /\ resurrected \subseteq resurrected')
  PROVE  LogInv'
<1> USE DEF TabStep, Unheard, Heard
<1>1. LogOK(log)' /\ IdsOK' /\ ClearsOK' /\ SavesOK' BY RowsUntouched DEF batch
<1>2. TypeOK' BY DEF LogInv, TypeOK, batch, history
<1>3. PhaseOK' BY DEF LogInv, PhaseOK, batch, history
<1>4. TabsOK'
  <2>1. CASE alive
    BY <2>1 DEF LogInv, TabsOK, ClosedTabsForgotten, Permitted, batch, history, RowsOf
  <2>2. CASE ~alive
    <3>1. ~initialized /\ pending = << >> /\ knownTabs = {} /\ tabsQuery = "asked"
      BY <2>2 DEF LogInv, PhaseOK
    <3> QED BY <2>2, <3>1 DEF TabsOK, ClosedTabsForgotten
  <2> QED BY <2>1, <2>2
<1> QED BY <1>1, <1>2, <1>3, <1>4 DEF LogInv

LEMMA ForgottenOK ==
  ASSUME LogInv, TabStep, alive, NEW tab \in Tabs, Forget(tab), open \ {tab} \subseteq open',
         resurrected \ {tab} \subseteq resurrected',
         Touch(tab) \/ (UNCHANGED tabsTouchedDuringStartup /\ open \subseteq open')
  PROVE  LogInv'
<1> USE DEF TabStep, Forget
<1>1. /\ queried \ tabsTouchedDuringStartup \subseteq open =>
           (tabsQuery = "asked" => queried \ tabsTouchedDuringStartup' \subseteq open')
      /\ tabsTouchedDuringStartup' \in SUBSET Tabs
  BY DEF LogInv, TypeOK, Touch
<1>2. Permitted \ {tab} \subseteq Permitted' BY DEF Permitted
<1>3. knownTabs' \subseteq Permitted' BY <1>2 DEF LogInv, TabsOK, ClosedTabsForgotten
<1>4. CASE initialized
  <2>1. /\ LogOK(log)' /\ IdsOK' /\ ClearsOK' /\ SavesOK'
        /\ dirty' \in BOOLEAN /\ timer' \in BOOLEAN
        /\ \A row \in RowsOf(log.rows)' :
             row \in RowsOf(log.rows) /\ row.match.tabId \in Tabs \ {tab}
    BY <1>4, RetainOK
  <2>2. TypeOK' BY <1>1, <1>4, <2>1 DEF LogInv, TypeOK, Retain, LogOK, history
  <2>3. PhaseOK' BY <1>4 DEF LogInv, PhaseOK
  <2>4. TabsOK'
    <3>1. ClosedTabsForgotten'
      BY <1>2, <1>3, <1>4, <2>1 DEF LogInv, TabsOK, ClosedTabsForgotten, history
    <3>2. pending' = << >> BY <1>4 DEF LogInv, PhaseOK
    <3> QED BY <1>1, <1>4, <3>1, <3>2 DEF LogInv, TabsOK
  <2> QED BY <2>1, <2>2, <2>3, <2>4 DEF LogInv
<1>5. CASE ~initialized
  <2>1. LogOK(log)' /\ IdsOK' /\ ClearsOK' /\ SavesOK' BY <1>5, RowsUntouched DEF batch
  <2>2. TypeOK' BY <1>1, <1>5 DEF LogInv, TypeOK, batch, history
  <2>3. PhaseOK' BY <1>5 DEF LogInv, PhaseOK, batch, history
  <2>4. TabsOK'
    <3>1. \A i \in DOMAIN pending : pending[i].tabId \in Permitted' \cup removals'
      BY <1>2, <1>5 DEF LogInv, TabsOK
    <3>2. tabsQuery = "answered" => queried \ removals' \subseteq Permitted'
      BY <1>2, <1>5 DEF LogInv, TabsOK
    <3> QED BY <1>1, <1>3, <1>5, <3>1, <3>2 DEF LogInv, TabsOK, ClosedTabsForgotten
  <2> QED BY <2>1, <2>2, <2>3, <2>4 DEF LogInv
<1> QED BY <1>4, <1>5 DEF LogInv, TypeOK

LEMMA RememberedOK ==
  ASSUME LogInv, TabStep, alive, NEW tab \in Tabs, Remember(tab), open \subseteq open',
         resurrected \subseteq resurrected', tab \in open' \cup resurrected'
  PROVE  LogInv'
<1> USE DEF TabStep, Remember
<1>1. CASE tab \in Private BY <1>1, ForgottenOK
<1>2. CASE tab \notin Private
  <2>1. knownTabs' = knownTabs \cup {tab} /\ UNCHANGED <<removals, log, batch>> BY <1>2
  <2>2. LogOK(log)' /\ IdsOK' /\ ClearsOK' /\ SavesOK' BY <2>1, RowsUntouched DEF batch
  <2>3. TypeOK' BY <2>1 DEF LogInv, TypeOK, Touch, batch, history
  <2>4. PhaseOK' BY <2>1 DEF LogInv, PhaseOK, batch, history
  <2>5. TabsOK'
    <3>1. Permitted \cup {tab} \subseteq Permitted' BY <1>2 DEF Permitted
    <3>2. ClosedTabsForgotten'
      BY <2>1, <3>1 DEF LogInv, TabsOK, ClosedTabsForgotten, batch, history, RowsOf
    <3>3. tabsTouchedDuringStartup \subseteq tabsTouchedDuringStartup' BY DEF Touch
    <3> QED BY <2>1, <3>1, <3>2, <3>3 DEF LogInv, TabsOK
  <2> QED BY <2>2, <2>3, <2>4, <2>5 DEF LogInv
<1> QED BY <1>1, <1>2

\* The steps of tabs.
LEMMA TabEventsOK ==
  ASSUME LogInv, NEW tab \in Tabs, TabOpened(tab) \/ TabUpdated(tab) \/ TabRemoved(tab)
  PROVE  LogInv'
<1>1. TabStep
  BY Limits DEF TabOpened, TabUpdated, TabRemoved, Event, browser, TabStep, LogInv, TypeOK
<1>2. CASE TabOpened(tab)
  <2>1. /\ IF alive THEN Remember(tab) ELSE Unheard
        /\ open' = open \cup {tab} /\ resurrected' = resurrected
    BY <1>2 DEF TabOpened
  <2> QED BY <1>1, <2>1, RememberedOK, UnheardOK
<1>3. CASE TabUpdated(tab)
  <2>1. alive /\ Remember(tab) /\ tab \in open /\ open' = open /\ resurrected' = resurrected
    BY <1>3 DEF TabUpdated, browser
  <2> QED BY <1>1, <2>1, RememberedOK
<1>4. CASE TabRemoved(tab)
  <2>1. /\ IF alive THEN Touch(tab) /\ Forget(tab) ELSE Unheard
        /\ open' = open \ {tab} /\ resurrected' = resurrected
    BY <1>4 DEF TabRemoved
  <2> QED BY <1>1, <2>1, ForgottenOK, UnheardOK
<1> QED BY <1>2, <1>3, <1>4

LEMMA TabReplacedOK ==
  ASSUME LogInv, NEW added \in Tabs, NEW removed \in Tabs, TabReplaced(added, removed)
  PROVE  LogInv'
<1>1. /\ open' = (open \ {removed}) \cup {added} /\ resurrected' = resurrected
      /\ IF alive THEN Touch(removed) /\ Forget(removed) ELSE Unheard /\ UNCHANGED lookups
      /\ lookups' = lookups \/ lookups' = lookups \cup {<<added, "replaced">>}
  BY DEF TabReplaced
<1>2. TabStep
  <2>1. lookups' \in SUBSET (Tabs \X Purposes) BY <1>1 DEF LogInv, TypeOK, Purposes
  <2> QED BY <1>1, <2>1, Limits DEF TabReplaced, Event, TabStep, LogInv, TypeOK
<1> QED BY <1>1, <1>2, ForgottenOK, UnheardOK

LEMMA ViewOK == ASSUME LogInv, NEW tab \in Tabs, View(tab) \/ Counted(tab) PROVE LogInv'
<1> USE DEF View, Counted, browser
<1>1. lookups' \in SUBSET (Tabs \X Purposes) BY DEF LogInv, TypeOK, Purposes
<1>2. TabStep BY <1>1, Limits DEF Event, TabStep, LogInv, TypeOK, IdsOK
<1>3. Unheard /\ open' = open /\ resurrected' = resurrected OBVIOUS
<1> QED BY <1>2, <1>3, UnheardOK

LEMMA LookupAnsweredOK ==
  ASSUME LogInv, NEW tab \in Tabs, NEW purpose \in Purposes, LookupAnswered(tab, purpose)
  PROVE  LogInv'
<1> USE DEF LookupAnswered, browser
<1>1. lookups' \in SUBSET (Tabs \X Purposes) BY DEF LogInv, TypeOK, Purposes
<1>2. resurrected' = resurrected \cup (IF tab \in open THEN {} ELSE {tab}) OBVIOUS
<1>3. TabStep BY <1>1, <1>2, Limits DEF TabStep, LogInv, TypeOK, IdsOK
<1>4. alive /\ Remember(tab) /\ open' = open /\ tab \in open' \cup resurrected' BY <1>2
<1> QED BY <1>3, <1>4, RememberedOK

LEMMA LookupFailsOK ==
  ASSUME LogInv, NEW tab \in Tabs, NEW purpose \in Purposes, LookupFails(tab, purpose)
  PROVE  LogInv'
<1> USE DEF LookupFails, Sought, browser
<1>1. lookups' \in SUBSET (Tabs \X Purposes) /\ faults' \in Nat
  BY DEF LogInv, TypeOK, Succeeds, Fails
<1>2. TabStep BY <1>1, Limits DEF TabStep, LogInv, TypeOK, IdsOK
<1>3. /\ alive /\ open' = open /\ UNCHANGED tabsTouchedDuringStartup
      /\ \/ Unheard /\ resurrected' = resurrected
         \/ Forget(tab) /\ resurrected' = resurrected \ {tab}
  BY DEF Unheard
<1> QED BY <1>2, <1>3, UnheardOK, ForgottenOK

LEMMA TabsAnsweredOK == ASSUME LogInv, TabsAnswered PROVE LogInv'
<1> USE DEF TabsAnswered, Succeeds, browser
<1>1. events' \in Nat /\ events <= events' /\ events' <= MaxEvents
  BY Limits DEF LogInv, TypeOK, IdsOK
<1>2. knownTabs' \subseteq Permitted' BY DEF LogInv, TabsOK, ClosedTabsForgotten, Permitted
<1>3. CASE initialized
  <2>1. /\ LogOK(log)' /\ IdsOK' /\ ClearsOK' /\ SavesOK'
        /\ dirty' \in BOOLEAN /\ timer' \in BOOLEAN
        /\ \A row \in RowsOf(log.rows)' : row.match.tabId \in knownTabs'
    BY <1>1, <1>3, RetainOK
  <2>2. TypeOK' BY <1>3, <2>1 DEF LogInv, TypeOK, Retain, LogOK, history
  <2>3. PhaseOK' BY <1>3 DEF LogInv, PhaseOK
  <2>4. TabsOK' BY <1>2, <1>3, <2>1 DEF LogInv, TabsOK, PhaseOK, ClosedTabsForgotten
  <2> QED BY <2>1, <2>2, <2>3, <2>4 DEF LogInv
<1>4. CASE ~initialized
  <2>1. LogOK(log)' /\ IdsOK' /\ ClearsOK' /\ SavesOK' BY <1>1, <1>4, RowsUntouched DEF batch
  <2>2. TypeOK' BY <1>4 DEF LogInv, TypeOK, batch, history
  <2>3. PhaseOK' BY <1>4 DEF LogInv, PhaseOK, batch, history
  <2>4. TabsOK' BY <1>2, <1>4 DEF LogInv, TabsOK, PhaseOK, ClosedTabsForgotten, Permitted
  <2> QED BY <2>1, <2>2, <2>3, <2>4 DEF LogInv
<1> QED BY <1>3, <1>4 DEF LogInv, TypeOK
-----------------------------------------------------------------------------
(* Matches, clears and writes. *)

LEMMA RecordOK == ASSUME LogInv, NEW match \in Matches, Record(match) PROVE LogInv'
<1> USE DEF Record, Event, browser
<1>1. /\ events \in Nat /\ events' = events + 1 /\ events' <= MaxEvents
      /\ events' \in Nat /\ events <= events'
  BY Limits DEF LogInv, TypeOK
<1>2. match.tabId \in Permitted /\ Permitted' = Permitted
  BY DEF LogInv, TabsOK, ClosedTabsForgotten, Permitted, tabs
<1>3. /\ log.sequence \in Nat /\ Len(pending) \in Nat /\ life \in Nat
      /\ RowsOf(log.rows) \cup WrittenRows \subseteq Rows /\ AllRows \subseteq Rows
  BY RowFacts, Limits DEF LogInv, TypeOK, LogStates, WrittenRows, AllRows
<1>4. CASE initialized
  <2>1. pending = << >> /\ Len(pending) = 0 /\ pending' = pending BY <1>4 DEF LogInv, PhaseOK
  <2>2. log.sequence <= events /\ log.sequence < MaxSequence
    BY <1>1, <1>3, <2>1, Limits DEF LogInv, IdsOK
  <2>3. log' = append(log, match) BY <1>4
  <2>4. LogOK(log') /\ Grown(log, log', {match}) /\ log'.sequence <= log.sequence + 1
    BY <1>3, <2>2, <2>3, AppendFacts DEF LogInv
  <2>5. LogOK(log)' BY <2>4 DEF LogOK, LogStates, Remembers, RecordsOnce
  <2>6. UNCHANGED <<saving, stored, storageError>> /\ Changed(log') BY <1>4
  <2>7. /\ log'.sequence \in Nat /\ log.sequence <= log'.sequence /\ log'.sequence <= events'
        /\ RowsOf(log'.rows) \subseteq Rows
    <3>1. log'.sequence \in 0 .. MaxSequence /\ log'.rows \in Seq(Rows)
      BY <2>4 DEF LogOK, LogStates
    <3>2. log.sequence <= log'.sequence BY <2>4 DEF Grown
    <3>3. log.sequence + 1 <= events'
      BY <1>1, <1>3, <2>2
    <3> QED BY <1>1, <1>3, <2>4, <3>1, <3>2, <3>3, RowFacts, Limits
  <2>8. \A row \in RowsOf(log'.rows) \ RowsOf(log.rows) :
          /\ row.life = life /\ row.match = match
          /\ log.sequence < row.id /\ row.id <= log'.sequence
    BY <2>4 DEF Grown, RowsOf
  <2>9. WrittenRows' = WrittenRows /\ doomed' = doomed /\ gone' = gone /\ life' = life
    BY <2>6 DEF WrittenRows, RowsOf, history
  <2>10. IdsOK'
    <3>1. log'.sequence + Len(pending') <= events' BY <2>1, <2>7
    <3>2. \A row \in RowsOf(log'.rows) \cup WrittenRows : row.id + Len(pending') <= events'
      <4> SUFFICES ASSUME NEW row \in RowsOf(log'.rows) \cup WrittenRows
                   PROVE  row.id <= events' /\ row.id \in Nat
        BY <2>1
      <4>1. row.id \in Nat BY <1>3, <2>7, RowFacts
      <4>2. row \in RowsOf(log.rows) \cup WrittenRows => row.id <= events
        BY <2>1, <4>1 DEF LogInv, IdsOK
      <4> QED BY <1>1, <2>7, <2>8, <4>1, <4>2
    <3>3. \A row \in AllRows' : row \in AllRows \/ row \in RowsOf(log'.rows) \ RowsOf(log.rows)
      BY <2>9 DEF AllRows, RowsOf
    <3>4. \A row \in AllRows' : row.life <= life' BY <1>3, <2>8, <2>9, <3>3 DEF LogInv, IdsOK
    <3>5. \A row \in AllRows' : (alive /\ row.life = life) => row.id <= log'.sequence
      BY <1>3, <2>7, <2>8, <3>3, RowFacts DEF LogInv, IdsOK
    <3> QED BY <1>1, <1>4, <2>9, <3>1, <3>2, <3>4, <3>5 DEF IdsOK, RowsOf
  <2>11. ClearsOK'
    <3>1. (gone \cup doomed) \cap RowsOf(log'.rows) = {}
      <4> SUFFICES ASSUME NEW row \in gone \cup doomed, row \in RowsOf(log'.rows) PROVE FALSE
        OBVIOUS
      <4>1. row \notin RowsOf(log.rows) BY DEF LogInv, ClearsOK, ClearedForGood
      <4>2. row.life = life /\ log.sequence < row.id BY <2>8, <4>1
      <4>3. row \in AllRows /\ row.id \in Nat BY <1>3, RowFacts DEF AllRows
      <4>4. row.id <= log.sequence BY <4>2, <4>3 DEF LogInv, IdsOK
      <4> QED BY <1>3, <4>2, <4>3, <4>4
    <3> QED BY <2>6, <2>9, <3>1 DEF LogInv, ClearsOK, ClearedForGood, RowsOf, Changed
  <2>12. SavesOK' BY <1>4, <2>6 DEF LogInv, SavesOK, Changed
  <2>13. TypeOK'
    <3>1. log' \in LogStates /\ Len(log'.rows) <= LIMIT /\ Len(log'.seen) <= 2 * LIMIT
      BY <2>4 DEF LogOK
    <3>2. dirty' \in BOOLEAN /\ timer' \in BOOLEAN BY <2>6 DEF LogInv, TypeOK, Changed
    <3> QED BY <1>1, <2>1, <3>1, <3>2 DEF LogInv, TypeOK, tabs, history
  <2>14. PhaseOK' BY <1>4, <2>1 DEF LogInv, PhaseOK, tabs
  <2>15. TabsOK'
    BY <1>2, <1>4, <2>1, <2>8, <2>9 DEF LogInv, TabsOK, PhaseOK, ClosedTabsForgotten, tabs, RowsOf
  <2> QED BY <2>5, <2>10, <2>11, <2>12, <2>13, <2>14, <2>15 DEF LogInv
<1>5. CASE ~initialized
  <2>1. pending' = LastRows(Append(pending, match)) /\ UNCHANGED <<log, dirty, timer>> BY <1>5
  <2>2. /\ pending \in Seq(Matches) /\ Append(pending, match) \in Seq(Matches)
        /\ Len(Append(pending, match)) = Len(pending) + 1
        /\ ToSet(Append(pending, match)) = ToSet(pending) \cup {match}
    BY AppendSet DEF LogInv, TypeOK
  <2>3. /\ pending' \in Seq(Matches) /\ Len(pending') <= LIMIT /\ Len(pending') <= Len(pending) + 1
        /\ ToSet(pending') \subseteq ToSet(pending) \cup {match}
    BY <2>1, <2>2, LastRowsFacts
  <2>4. LogOK(log)' BY <2>1 DEF LogInv, LogOK, LogStates, Remembers, RecordsOnce
  <2>5. AllRows' = AllRows /\ WrittenRows' = WrittenRows
    BY <2>1 DEF AllRows, WrittenRows, RowsOf, history
  <2>6. IdsOK'
    <3>1. Len(pending') \in Nat BY <2>3
    <3>2. log'.sequence + Len(pending') <= events' BY <1>1, <1>3, <2>1, <2>3, <3>1 DEF LogInv, IdsOK
    <3>3. \A row \in RowsOf(log.rows) \cup WrittenRows : row.id + Len(pending') <= events'
      BY <1>1, <1>3, <2>3, <3>1, RowFacts DEF LogInv, IdsOK
    <3> QED BY <1>1, <2>1, <2>5, <3>2, <3>3 DEF LogInv, IdsOK, RowsOf, history
  <2>7. ClearsOK' BY <2>1, <2>5 DEF LogInv, ClearsOK, ClearedForGood, RowsOf, history
  <2>8. SavesOK' BY <1>5 DEF SavesOK
  <2>9. TypeOK' BY <1>1, <2>1, <2>3 DEF LogInv, TypeOK, tabs, history
  <2>10. PhaseOK' BY <1>5, <2>1 DEF LogInv, PhaseOK, tabs, history
  <2>11. TabsOK'
    <3>1. \A m \in ToSet(pending') : m.tabId \in Permitted \cup removals
      BY <1>2, <2>3 DEF LogInv, TabsOK, ToSet
    <3>2. \A i \in DOMAIN pending' : pending'[i] \in ToSet(pending') BY DEF ToSet
    <3> QED BY <1>5, <3>1, <3>2 DEF LogInv, TabsOK, ClosedTabsForgotten, Permitted, tabs, history
  <2> QED BY <2>4, <2>6, <2>7, <2>8, <2>9, <2>10, <2>11 DEF LogInv
<1> QED BY <1>4, <1>5 DEF LogInv, TypeOK

\* What a step makes of the rows when it makes none.
LEMMA FewerRows ==
  ASSUME LogInv, UNCHANGED <<alive, pending, initialized, life>>,
         events' \in Nat, events <= events', events' <= MaxEvents,
         log'.sequence = log.sequence, AllRows' \subseteq AllRows,
         RowsOf(log.rows)' \cup WrittenRows' \subseteq RowsOf(log.rows) \cup WrittenRows
  PROVE  IdsOK'
<1>1. /\ log.sequence \in Nat /\ Len(pending) \in Nat /\ events \in Nat
      /\ RowsOf(log.rows) \cup WrittenRows \subseteq Rows
  BY RowFacts, Limits DEF LogInv, TypeOK, LogStates, WrittenRows
<1>2. log'.sequence + Len(pending') <= events' BY <1>1 DEF LogInv, IdsOK
<1>3. \A row \in RowsOf(log.rows) \cup WrittenRows : row.id + Len(pending) <= events'
  BY <1>1, RowFacts DEF LogInv, IdsOK
<1> QED BY <1>2, <1>3 DEF LogInv, IdsOK

LEMMA WithoutRows ==
  ASSUME NEW l, LogOK(l)
  PROVE  LET new == [l EXCEPT !.rows = << >>]
         IN  LogOK(new) /\ new.rows = << >> /\ new.sequence = l.sequence
<1> DEFINE none == << >>
           new == [l EXCEPT !.rows = none]
<1>1. none \in Seq(Rows) /\ Len(none) = 0 OBVIOUS
<1> HIDE DEF none
<1>2. l \in LogStates BY DEF LogOK
<1>3. /\ new \in LogStates /\ new.rows = none /\ new.sequence = l.sequence
      /\ new.seen = l.seen /\ new.recorded = l.recorded
  BY <1>1, <1>2 DEF LogStates
<1> HIDE DEF new
<1>4. LogOK(new) BY <1>1, <1>3, Limits DEF LogOK
<1> QED BY <1>3, <1>4 DEF new, none

LEMMA EmptyRows == << >> \in Seq(Rows) /\ Len(<< >>) <= LIMIT /\ << >> # None
<1>1. << >> \in Seq(Rows) /\ Len(<< >>) = 0 OBVIOUS
<1>2. << >> # None BY <1>1, NoneAssumption, Zenon
<1> QED BY <1>1, <1>2, Limits

LEMMA ClearOK == ASSUME LogInv, Clear PROVE LogInv'
<1> USE DEF Clear, Event, browser, tabs
<1>1. events' \in Nat /\ events <= events' /\ events' <= MaxEvents
  BY Limits DEF LogInv, TypeOK
<1>2. CASE ~initialized
  <2>1. LogOK(log)' /\ IdsOK' /\ ClearsOK' /\ SavesOK' BY <1>1, <1>2, RowsUntouched DEF history
  <2>2. TypeOK' BY <1>1, <1>2 DEF LogInv, TypeOK
  <2>3. PhaseOK' BY <1>2 DEF LogInv, PhaseOK
  <2>4. TabsOK' BY <1>2 DEF LogInv, TabsOK, ClosedTabsForgotten, Permitted
  <2> QED BY <2>1, <2>2, <2>3, <2>4 DEF LogInv
<1>3. CASE initialized
  <2>1. /\ log' = [log EXCEPT !.rows = << >>]
        /\ doomed' = WrittenRows \cup RowsOf(log.rows) \cup doomed
        /\ UNCHANGED <<life, gone, stored, storageError>> /\ timer' = FALSE
        /\ \/ saving = None /\ saving' = << >> /\ dirty' = FALSE
           \/ saving # None /\ saving' = saving /\ dirty' = TRUE
    BY <1>3 DEF Flush
  <2>2. LogOK(log') /\ log'.rows = << >> /\ log'.sequence = log.sequence
    BY <2>1, WithoutRows DEF LogInv
  <2>3. LogOK(log)' BY <2>2 DEF LogOK, LogStates, Remembers, RecordsOnce
  <2>4. log' \in LogStates /\ Len(log'.rows) <= LIMIT /\ Len(log'.seen) <= 2 * LIMIT
    BY <2>2 DEF LogOK
  <2>5. RowsOf(log.rows)' = {} /\ WrittenRows' \subseteq WrittenRows
    BY <2>1, <2>2, EmptyRows, RowFacts DEF WrittenRows, RowsOf
  <2>6. AllRows' \subseteq AllRows BY <2>1, <2>5 DEF AllRows
  <2>7. IdsOK' BY <1>1, <2>1, <2>2, <2>5, <2>6, FewerRows
  <2>8. ClearsOK'
    BY <2>1, <2>5, RowFacts DEF LogInv, ClearsOK, ClearedForGood, RowsOf
  <2>9. SavesOK' BY <2>1, <2>2, EmptyRows DEF SavesOK
  <2>10. TypeOK'
    <3>1. doomed' \in SUBSET Rows
      BY <2>1, RowFacts DEF LogInv, TypeOK, LogStates, WrittenRows
    <3>2. saving' = None \/ (saving' \in Seq(Rows) /\ Len(saving') <= LIMIT)
      BY <2>1, EmptyRows DEF LogInv, TypeOK
    <3>3. dirty' \in BOOLEAN BY <2>1
    <3> QED BY <1>1, <2>1, <2>4, <3>1, <3>2, <3>3 DEF LogInv, TypeOK
  <2>11. PhaseOK' BY <1>3 DEF LogInv, PhaseOK
  <2>12. TabsOK' BY <1>3, <2>5 DEF LogInv, TabsOK, ClosedTabsForgotten, Permitted
  <2> QED BY <2>3, <2>7, <2>8, <2>9, <2>10, <2>11, <2>12 DEF LogInv
<1> QED BY <1>2, <1>3 DEF LogInv, TypeOK

LEMMA TimerFiresOK == ASSUME LogInv, TimerFires PROVE LogInv'
<1> USE DEF TimerFires, browser, tabs, history
<1>1. events' \in Nat /\ events <= events' /\ events' <= MaxEvents
  BY Limits DEF LogInv, TypeOK, IdsOK
<1>2. /\ initialized /\ timer' = FALSE
      /\ \/ ~dirty /\ UNCHANGED <<saving, dirty>>
         \/ saving = None /\ saving' = log.rows /\ dirty' = FALSE
         \/ saving # None /\ saving' = saving /\ dirty' = TRUE
  BY DEF LogInv, PhaseOK, Flush
<1>3. log.rows \in Seq(Rows) /\ Len(log.rows) <= LIMIT /\ log.rows # None
  BY NoneAssumption DEF LogInv, TypeOK, LogStates
<1>4. LogOK(log)' BY DEF LogInv, LogOK, LogStates, Remembers, RecordsOnce
<1>5. WrittenRows' \subseteq RowsOf(log.rows) \cup WrittenRows BY <1>2 DEF WrittenRows, RowsOf
<1>6. AllRows' \subseteq AllRows BY <1>5 DEF AllRows, RowsOf
<1>7. IdsOK' BY <1>1, <1>5, <1>6, FewerRows DEF RowsOf
<1>8. ClearsOK' BY <1>2, <1>5 DEF LogInv, ClearsOK, ClearedForGood, RowsOf
<1>9. SavesOK' BY <1>2, <1>3 DEF LogInv, SavesOK
<1>10. TypeOK' BY <1>2, <1>3 DEF LogInv, TypeOK
<1>11. PhaseOK' BY <1>2 DEF LogInv, PhaseOK
<1>12. TabsOK' BY DEF LogInv, TabsOK, ClosedTabsForgotten, Permitted, RowsOf
<1> QED BY <1>4, <1>7, <1>8, <1>9, <1>10, <1>11, <1>12 DEF LogInv

LEMMA WriteDoneOK == ASSUME LogInv, WriteDone PROVE LogInv'
<1> USE DEF WriteDone, Succeeds, browser, tabs
<1>1. events' \in Nat /\ events <= events' /\ events' <= MaxEvents
  BY Limits DEF LogInv, TypeOK, IdsOK
<1>2. initialized BY DEF LogInv, PhaseOK
<1>3. log.rows \in Seq(Rows) /\ Len(log.rows) <= LIMIT /\ log.rows # None
  BY NoneAssumption DEF LogInv, TypeOK, LogStates
<1>4. /\ stored' = saving /\ UNCHANGED <<log, life, timer>>
      /\ \/ dirty /\ saving' = log.rows /\ dirty' = FALSE /\ UNCHANGED <<clearing, gone, doomed>>
         \/ /\ ~dirty /\ saving' = None /\ UNCHANGED dirty /\ clearing' = FALSE
            /\ gone' \in {gone, gone \cup doomed} /\ doomed' = {}
  BY DEF Answer
<1>5. LogOK(log)' BY DEF LogInv, LogOK, LogStates, Remembers, RecordsOnce
<1>6. /\ WrittenRows' \subseteq RowsOf(log.rows) \cup RowsOf(saving)
      /\ RowsOf(saving) \subseteq WrittenRows
      /\ saving' = None => WrittenRows' = RowsOf(saving)
  BY <1>4 DEF WrittenRows, RowsOf
<1>7. AllRows' \subseteq AllRows BY <1>4, <1>6 DEF AllRows, RowsOf
<1>8. IdsOK' BY <1>1, <1>4, <1>6, <1>7, FewerRows DEF RowsOf
<1>9. ClearsOK' BY <1>4, <1>6 DEF LogInv, ClearsOK, ClearedForGood, RowsOf
<1>10. SavesOK' BY <1>2, <1>3, <1>4 DEF LogInv, SavesOK
<1>11. TypeOK' BY <1>3, <1>4 DEF LogInv, TypeOK
<1>12. PhaseOK' BY <1>2 DEF LogInv, PhaseOK
<1>13. TabsOK' BY DEF LogInv, TabsOK, ClosedTabsForgotten, Permitted, RowsOf
<1> QED BY <1>5, <1>8, <1>9, <1>10, <1>11, <1>12, <1>13 DEF LogInv

LEMMA WriteFailsOK == ASSUME LogInv, WriteFails PROVE LogInv'
<1> USE DEF WriteFails, Fails, browser, tabs
<1>1. events' \in Nat /\ events <= events' /\ events' <= MaxEvents
  BY Limits DEF LogInv, TypeOK, IdsOK
<1>2. initialized BY DEF LogInv, PhaseOK
<1>3. LogOK(log)' BY DEF LogInv, LogOK, LogStates, Remembers, RecordsOnce
<1>4. WrittenRows' \subseteq WrittenRows BY DEF WrittenRows, RowsOf
<1>5. AllRows' \subseteq AllRows BY <1>4 DEF AllRows, RowsOf
<1>6. IdsOK' BY <1>1, <1>4, <1>5, FewerRows DEF RowsOf
<1>7. ClearsOK' BY <1>4 DEF LogInv, ClearsOK, ClearedForGood, RowsOf
<1>8. SavesOK' BY DEF SavesOK
<1>9. TypeOK'
  <2>1. TypeOK /\ faults' \in Nat /\ doomed' \in SUBSET Rows BY DEF LogInv, TypeOK
  <2> QED BY <2>1, Zenon DEF TypeOK
<1>10. PhaseOK' BY <1>2 DEF LogInv, PhaseOK
<1>11. TabsOK' BY DEF LogInv, TabsOK, ClosedTabsForgotten, Permitted, RowsOf
<1> QED BY <1>3, <1>6, <1>7, <1>8, <1>9, <1>10, <1>11 DEF LogInv

LEMMA StopOK == ASSUME LogInv, Stop PROVE LogInv'
<1> USE DEF Stop, Fails, browser
<1>1. stored' \in Seq(Rows) /\ Len(stored') <= LIMIT BY DEF LogInv, TypeOK
<1>2. LogOK(log)' /\ log'.rows = << >> /\ log'.sequence = 0
  <2>1. LogOK(log') BY RowFacts
  <2> QED BY <2>1, RowFacts DEF LogOK, LogStates, Remembers, RecordsOnce
<1>3. RowsOf(log.rows)' = {} /\ WrittenRows' \subseteq WrittenRows
  BY <1>2, RowFacts DEF WrittenRows, RowsOf
<1>4. AllRows' \subseteq AllRows BY <1>3 DEF AllRows
<1>5. IdsOK'
  <2>1. Len(pending') = 0 /\ Len(pending) \in Nat /\ events \in Nat /\ WrittenRows \subseteq Rows
    BY RowFacts DEF LogInv, TypeOK, WrittenRows
  <2>2. \A row \in WrittenRows : row.id + Len(pending') <= events
    BY <2>1, RowFacts DEF LogInv, IdsOK
  <2> QED BY <1>2, <1>3, <1>4, <2>1, <2>2 DEF LogInv, IdsOK
<1>6. ClearsOK' BY <1>3 DEF LogInv, ClearsOK, ClearedForGood
<1>7. SavesOK' BY DEF SavesOK
<1>8. TypeOK'
  <2>1. log' \in LogStates /\ Len(log'.rows) <= LIMIT /\ Len(log'.seen) <= 2 * LIMIT
    BY <1>2 DEF LogOK
  <2>2. TypeOK /\ faults' \in Nat /\ doomed' \in SUBSET Rows BY DEF LogInv, TypeOK
  <2>3. pending' \in Seq(Matches) /\ Len(pending') <= LIMIT BY Limits
  <2> QED BY <1>1, <2>1, <2>2, <2>3, Zenon DEF TypeOK
<1>9. PhaseOK' BY DEF PhaseOK
<1>10. TabsOK' BY DEF TabsOK, ClosedTabsForgotten
<1> QED BY <1>2, <1>5, <1>6, <1>7, <1>8, <1>9, <1>10 DEF LogInv

\* The matches observed before storage was read follow the rows that were stored.
LEMMA InitializeOK == ASSUME LogInv, Initialize PROVE LogInv'
<1>0. /\ alive /\ ~initialized /\ initialized' = TRUE /\ pending' = << >> /\ removals' = {}
      /\ tabsQuery' = IF tabsQuery = "answered" THEN "done" ELSE tabsQuery
      /\ tabsTouchedDuringStartup' =
           IF tabsQuery = "answered" THEN {} ELSE tabsTouchedDuringStartup
      /\ UNCHANGED <<open, fresh, alive, knownTabs, queried, lookups, resurrected, clearing, stored,
                     life, gone, events>>
  BY DEF Initialize, browser
<1>1. PICK rows \in {stored, << >>} :
        /\ \/ Succeeds /\ rows = stored /\ UNCHANGED storageError
           \/ Fails /\ rows = << >> /\ storageError' = TRUE
        /\ LET ids == {row.id : row \in RowsOf(rows)}
               restored == [EmptyLog EXCEPT
                 !.rows = rows,
                 !.sequence = IF ids = {} THEN 0 ELSE CHOOSE i \in ids : \A j \in ids : j <= i]
               added == appendAll(restored, pending)
               kept == Keeping(added, (IF tabsQuery = "answered" THEN queried ELSE Tabs) \ removals)
           IN  IF clearing
                 THEN /\ log' = [kept EXCEPT !.rows = << >>]
                      /\ doomed' = WrittenRows \cup RowsOf(kept.rows)
                      /\ Flush(<< >>)
                 ELSE /\ log' = kept
                      /\ dirty' = (kept # restored)
                      /\ timer' = dirty'
                      /\ UNCHANGED <<saving, doomed>>
  BY DEF Initialize
<1> USE <1>0
<1> DEFINE ids == {row.id : row \in RowsOf(rows)}
           restored == [EmptyLog EXCEPT
             !.rows = rows,
             !.sequence = IF ids = {} THEN 0 ELSE CHOOSE i \in ids : \A j \in ids : j <= i]
           added == appendAll(restored, pending)
           keep == (IF tabsQuery = "answered" THEN queried ELSE Tabs) \ removals
           kept == Keeping(added, keep)
<1>2. /\ rows = stored \/ rows = << >>
      /\ (storageError' = storageError /\ rows = stored) \/ storageError' = TRUE
      /\ faults' \in Nat /\ storageError' \in BOOLEAN
  <2>1. \/ Succeeds /\ rows = stored /\ UNCHANGED storageError
        \/ Fails /\ rows = << >> /\ storageError' = TRUE
    BY <1>1, Zenon
  <2>2. faults \in Nat /\ storageError \in BOOLEAN BY DEF LogInv, TypeOK
  <2>3. faults' \in Nat BY <2>1, <2>2 DEF Succeeds, Fails
  <2> QED BY <2>1, <2>2, <2>3, Zenon
<1>3. \/ /\ clearing /\ log' = [kept EXCEPT !.rows = << >>]
         /\ doomed' = WrittenRows \cup RowsOf(kept.rows) /\ Flush(<< >>)
      \/ /\ ~clearing /\ log' = kept /\ dirty' = (kept # restored) /\ timer' = dirty'
         /\ UNCHANGED <<saving, doomed>>
  BY <1>1, Zenon
<1>4. rows \in Seq(Rows) /\ Len(rows) <= LIMIT /\ RowsOf(rows) \subseteq RowsOf(stored)
  BY <1>2, EmptyRows, RowFacts DEF LogInv, TypeOK
<1>5. /\ ~initialized /\ alive /\ saving = None /\ doomed = {} /\ tabsQuery # "done"
      /\ log.sequence = 0 /\ RowsOf(log.rows) = {} /\ WrittenRows = RowsOf(stored)
      /\ AllRows = WrittenRows \cup gone
  BY RowFacts DEF LogInv, PhaseOK, WrittenRows, AllRows
<1>6. /\ life \in Nat /\ events \in Nat /\ events <= MaxEvents /\ pending \in Seq(Matches)
      /\ Len(pending) \in Nat /\ AllRows \subseteq Rows /\ gone \subseteq Rows
      /\ WrittenRows \subseteq Rows
  BY RowFacts DEF LogInv, TypeOK, IdsOK, AllRows, WrittenRows, LogStates
<1>7. /\ LogOK(restored) /\ restored.rows = rows
      /\ \A row \in RowsOf(rows) : row.id <= restored.sequence
      /\ restored.sequence = 0 \/ \E row \in RowsOf(rows) : restored.sequence = row.id
  BY <1>4, RestoredFacts
<1> HIDE DEF restored, ids
<1>8. restored.sequence \in Nat BY <1>7, Limits DEF LogOK, LogStates
<1>9. restored.sequence + Len(pending) <= events
  <2>1. CASE restored.sequence = 0 BY <1>5, <1>6, <2>1 DEF LogInv, IdsOK
  <2>2. CASE \E row \in RowsOf(rows) : restored.sequence = row.id
    <3>1. PICK row \in RowsOf(rows) : restored.sequence = row.id BY <2>2
    <3>2. row \in WrittenRows BY <1>4, <1>5
    <3> QED BY <3>1, <3>2 DEF LogInv, IdsOK
  <2> QED BY <1>7, <2>1, <2>2
<1>10. restored.sequence + Len(pending) <= MaxSequence BY <1>6, <1>8, <1>9, Limits
<1>11. /\ LogOK(added) /\ Grown(restored, added, ToSet(pending))
       /\ added.sequence <= restored.sequence + Len(pending)
  BY <1>6, <1>7, <1>10, AppendAllFacts
<1> HIDE DEF added
<1>12. added.sequence \in Nat BY <1>11, Limits DEF LogOK, LogStates
<1>13. /\ LogOK(kept) /\ kept.sequence = added.sequence
       /\ \A row \in ToSet(kept.rows) : row \in ToSet(added.rows) /\ row.match.tabId \in keep
  BY <1>11, KeepingFacts
<1> HIDE DEF kept, keep
<1>14. kept.rows \in Seq(Rows) /\ RowsOf(kept.rows) \subseteq Rows
  BY <1>13, RowFacts DEF LogOK, LogStates
<1>15. \A row \in RowsOf(kept.rows) :
         \/ row \in RowsOf(stored)
         \/ /\ row.life = life /\ row.match \in ToSet(pending)
            /\ restored.sequence < row.id /\ row.id <= kept.sequence
  BY <1>4, <1>7, <1>11, <1>13 DEF Grown, RowsOf
<1>16. kept.sequence \in Nat /\ kept.sequence <= events /\ restored.sequence <= kept.sequence
  BY <1>6, <1>8, <1>9, <1>11, <1>12, <1>13 DEF Grown
<1>17. \A row \in RowsOf(kept.rows) : row.id <= events
  <2>1. \A row \in RowsOf(stored) : row.id <= events
    BY <1>5, <1>6, RowFacts DEF LogInv, IdsOK
  <2>2. \A row \in RowsOf(kept.rows) : row.id \in Nat BY <1>14, RowFacts
  <2> QED BY <1>6, <1>15, <1>16, <2>1, <2>2
<1>18. \A row \in AllRows : row.life # life BY <1>5 DEF LogInv, IdsOK
<1>19. gone \cap RowsOf(kept.rows) = {}
  <2>1. gone \cap RowsOf(stored) = {} BY <1>5 DEF LogInv, ClearsOK, ClearedForGood
  <2>2. \A row \in gone : row.life # life BY <1>5, <1>18
  <2> QED BY <1>15, <2>1, <2>2
<1>20. \/ /\ log'.rows = << >> /\ saving' = << >> /\ doomed' = WrittenRows \cup RowsOf(kept.rows)
          /\ timer' = FALSE /\ dirty' = FALSE
       \/ /\ log' = kept /\ saving' = None /\ doomed' = {} /\ dirty' = (kept # restored)
          /\ timer' = dirty'
  <2>1. CASE clearing
    <3>1. log' = [kept EXCEPT !.rows = << >>] BY <1>3, <2>1
    <3>2. log'.rows = << >> BY <1>13, <3>1, WithoutRows
    <3> QED BY <1>3, <1>5, <2>1, <3>2 DEF Flush
  <2>2. CASE ~clearing BY <1>3, <1>5, <2>2
  <2> QED BY <2>1, <2>2
<1>21. LogOK(log') /\ log'.sequence = kept.sequence BY <1>3, <1>13, WithoutRows
<1>22. LogOK(log)' BY <1>21 DEF LogOK, LogStates, Remembers, RecordsOnce
<1>23. RowsOf(log.rows)' \subseteq RowsOf(kept.rows) /\ WrittenRows' = WrittenRows
  BY <1>5, <1>20, EmptyRows, RowFacts DEF WrittenRows, RowsOf
<1>24. TypeOK'
  <2>1. /\ log' \in LogStates /\ Len(log'.rows) <= LIMIT /\ Len(log'.seen) <= 2 * LIMIT
    BY <1>21 DEF LogOK
  <2>2. /\ saving' = None \/ (saving' \in Seq(Rows) /\ Len(saving') <= LIMIT)
        /\ dirty' \in BOOLEAN /\ timer' \in BOOLEAN /\ doomed' \in SUBSET Rows
    BY <1>6, <1>14, <1>20, EmptyRows
  <2>3. pending' \in Seq(Matches) /\ Len(pending') <= LIMIT BY Limits
  <2>4. tabsQuery' \in {"asked", "answered", "done", "failed"}
        /\ tabsTouchedDuringStartup' \in SUBSET Tabs
    BY DEF LogInv, TypeOK
  <2> QED BY <1>2, <2>1, <2>2, <2>3, <2>4, Zenon DEF LogInv, TypeOK
<1>25. PhaseOK' BY <1>5 DEF PhaseOK
<1>26. IdsOK'
  <2>1. Len(pending') = 0 OBVIOUS
  <2>2. \A row \in WrittenRows : row.id <= events BY <1>6, RowFacts DEF LogInv, IdsOK
  <2>3. \A row \in RowsOf(kept.rows) \cup WrittenRows : row.id \in Nat BY <1>6, <1>14, RowFacts
  <2>4. \A row \in RowsOf(log.rows)' \cup WrittenRows' : row.id + Len(pending') <= events'
    BY <1>17, <1>23, <2>1, <2>2, <2>3
  <2>5. AllRows' \subseteq AllRows \cup RowsOf(kept.rows)
    BY <1>5, <1>20, <1>23 DEF AllRows
  <2>6. \A row \in AllRows' : row.life <= life'
    BY <1>5, <1>6, <1>15, <2>5 DEF LogInv, IdsOK
  <2>7. \A row \in AllRows' : row.life = life' => row.id <= log'.sequence
    BY <1>5, <1>15, <1>18, <1>21, <2>5
  <2>8. log'.sequence + Len(pending') <= events' BY <1>16, <1>21, <2>1
  <2> QED BY <1>6, <2>4, <2>6, <2>7, <2>8 DEF IdsOK
<1>27. ClearsOK'
  <2>1. ClearedForGood'
    BY <1>19, <1>23 DEF LogInv, ClearsOK, ClearedForGood
  <2>2. (doomed \cap RowsOf(log.rows))' = {} BY <1>20, RowFacts DEF RowsOf
  <2>3. saving' = None \/ RowsOf(saving)' = {} BY <1>20, RowFacts DEF RowsOf
  <2> QED BY <2>1, <2>2, <2>3 DEF ClearsOK
<1>28. SavesOK'
  <2>1. CASE log'.rows = << >> /\ saving' = << >>
    BY <2>1, EmptyRows DEF SavesOK
  <2>2. CASE /\ log' = kept /\ saving' = None /\ dirty' = (kept # restored) /\ timer' = dirty'
    <3>1. kept = restored => kept.rows = rows BY <1>7
    <3>2. (dirty' = TRUE /\ timer' = TRUE) \/ log'.rows = rows
      <4>1. CASE kept = restored BY <2>2, <3>1, <4>1
      <4>2. CASE kept # restored BY <2>2, <4>2
      <4> QED BY <4>1, <4>2
    <3> QED BY <1>2, <2>2, <3>2 DEF SavesOK
  <2> QED BY <1>20, <2>1, <2>2
<1>29. TabsOK'
  <2>0. Permitted' = Permitted BY DEF Permitted
  <2>1. knownTabs' \subseteq Permitted' BY <2>0 DEF LogInv, TabsOK, ClosedTabsForgotten
  <2>2. ASSUME NEW row \in RowsOf(log.rows)', row.life = life' \/ tabsQuery' = "done"
        PROVE  row.match.tabId \in Permitted
    <3>1. row \in RowsOf(kept.rows) /\ row.match.tabId \in keep BY <1>13, <1>23 DEF RowsOf
    <3>2. CASE row \in RowsOf(stored)
      <4>1. row.life # life BY <1>5, <1>18, <3>2
      <4>2. tabsQuery = "answered" BY <1>5, <2>2, <4>1
      <4> QED BY <1>5, <3>1, <4>2 DEF LogInv, TabsOK, keep
    <3>3. CASE row \notin RowsOf(stored)
      <4>1. row.match \in ToSet(pending) BY <1>15, <3>1, <3>3
      <4>2. row.match.tabId \in Permitted \cup removals BY <4>1 DEF LogInv, TabsOK, ToSet
      <4> QED BY <3>1, <4>2 DEF keep
    <3> QED BY <3>2, <3>3
  <2>3. (alive /\ tabsQuery = "asked")' => (queried \ tabsTouchedDuringStartup \subseteq open)'
    BY DEF LogInv, TabsOK
  <2> QED BY <2>0, <2>1, <2>2, <2>3 DEF TabsOK, ClosedTabsForgotten
<1> QED BY <1>22, <1>24, <1>25, <1>26, <1>27, <1>28, <1>29 DEF LogInv
-----------------------------------------------------------------------------
(* The theorems. *)

LEMMA NextOK == LogInv /\ [Next]_vars => LogInv'
BY RecordOK, TabEventsOK, TabReplacedOK, ViewOK, LookupAnsweredOK, LookupFailsOK, ClearOK,
   InitializeOK, TimerFiresOK, WriteDoneOK, WriteFailsOK, TabsAnsweredOK, TabsFailOK, StopOK,
   StartOK, StutteringOK
   DEF Next, Writing

\* Every part of the invariant holds in every state.
THEOREM Invariant == Spec => []LogInv
BY InitOK, NextOK, PTL DEF Spec

\* No row that a clear answered with success had removed is ever again in memory, in storage
\* or on its way there, in this worker or a later one.
THEOREM ClearedStaysCleared == Spec => []ClearedForGood
<1>1. LogInv => ClearedForGood BY DEF LogInv, ClearsOK
<1> QED BY <1>1, Invariant, PTL

\* Rows are lost silently only with a worker that is stopped too early.
THEOREM NothingUnsaved == Spec => []SavedOrReported
<1>1. LogInv => SavedOrReported BY DEF LogInv, SavesOK, SavedOrReported
<1> QED BY <1>1, Invariant, PTL

\* A match delivered twice makes one row while its key is remembered; types and limits hold.
THEOREM NoDuplicates == Spec => []OneRowPerMatch
<1>1. LogInv => OneRowPerMatch
  <2> SUFFICES ASSUME LogInv PROVE OneRowPerMatch OBVIOUS
  <2>1. TypeOK /\ RecordsOnce(log.recorded) /\ log.recorded \in Seq(Matches)
    BY DEF LogInv, LogOK, LogStates
  <2>2. DOMAIN log.recorded = 1 .. Len(log.recorded) BY <2>1
  <2> QED BY <2>1, <2>2 DEF RecordsOnce, OneRowPerMatch
<1> QED BY <1>1, Invariant, PTL

\* No closed or private tab is known, and no row of one is shown, but for tabs of which a
\* lookup was answered when they were closed.
THEOREM ClosedTabsStayForgotten == Spec => []ClosedTabsForgotten
<1>1. LogInv => ClosedTabsForgotten BY DEF LogInv, TabsOK
<1> QED BY <1>1, Invariant, PTL
=============================================================================
