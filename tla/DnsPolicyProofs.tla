--------------------------- MODULE DnsPolicyProofs ---------------------------
(***************************************************************************)
(* Whatever lists the server is started with, and in whatever order their  *)
(* lines come, a name is blocked exactly when the texts mean it, and the   *)
(* report's counts add up and account for every line that is left out.     *)
(***************************************************************************)
EXTENDS DnsPolicy, FiniteSetTheorems, FunctionTheorems, TLAPS

Places == {p \in Nat \X Nat : p[1] \in DOMAIN Lists /\ p[2] \in DOMAIN Lists[p[1]].lines}
LineAt(p) == Lists[p[1]].lines[p[2]]

\* The lines that have been dealt with.
ReadPlaces ==
  {p \in Places : p[1] < at.source \/ (p[1] = at.source /\ p[2] < at.line)}

Blocks(l) == l.plain /\ ~l.exception

\* Lines that end up in list_allow.
Protects(l) == (l.plain /\ l.exception) \/ (Unblocks(l) /\ ~Suppresses(l))

Read == phase \in {"reading", "done"}

InputOK ==
  /\ input \in Inputs
  /\ phase \in {"start", "reading", "done", "refused"}
  /\ at.source \in Nat /\ at.line \in Nat
  /\ at = [source |-> at.source, line |-> at.line]
  /\ at.source > 0 /\ at.line > 0
  /\ Read => Acceptable(input)
  /\ phase = "done" => at.source > Len(Lists)

BlocksRead ==
  \A h : h \in DOMAIN list_block <=> \E p \in ReadPlaces : Blocks(LineAt(p)) /\ LineAt(p).host = h

AllowsRead ==
  \A h : h \in DOMAIN list_allow <=> \E p \in ReadPlaces : Protects(LineAt(p)) /\ LineAt(p).host = h

SuppressionRead == suppressed <=> \E p \in ReadPlaces : Suppresses(LineAt(p))

NothingRead == phase = "start" => at = [source |-> 1, line |-> 1]

IInv == InputOK /\ BlocksRead /\ AllowsRead /\ SuppressionRead /\ NothingRead

-----------------------------------------------------------------------------
\* The parts of an input have their types.
LEMMA InputTypes ==
  ASSUME input \in Inputs
  PROVE  /\ Lists \in Seq(Source)
         /\ \A i \in DOMAIN Lists : Lists[i].lines \in Seq(Lines)
         /\ input.allow \in Seq(Hosts \cup {None}) /\ input.block \in Seq(Hosts \cup {None})
<1>1. input \in [sources : Seq(Source), allow : Seq(Hosts \cup {None}), block : Seq(Hosts \cup {None})]
  BY InputsAssumption
<1>2. Lists \in Seq(Source)
  BY <1>1 DEF Lists
<1>3. \A i \in DOMAIN Lists : Lists[i] \in Source
  BY <1>2
<1>4. \A i \in DOMAIN Lists : Lists[i].lines \in Seq(Lines)
  BY <1>3 DEF Source
<1> QED
  BY <1>1, <1>2, <1>4

\* A line of an input is one of Lines.
LEMMA PlacesAreLines ==
  ASSUME input \in Inputs, NEW p \in Places
  PROVE  LineAt(p) \in Lines /\ LineAt(p) \in Line
<1>1. p[1] \in DOMAIN Lists /\ p[2] \in DOMAIN Lists[p[1]].lines
  BY DEF Places
<1>2. Lists[p[1]].lines \in Seq(Lines)
  BY <1>1, InputTypes
<1>3. LineAt(p) \in Lines
  BY <1>1, <1>2 DEF LineAt
<1> QED
  BY <1>3, LinesAssumption

\* Positions count from one.
LEMMA PlacesPositive ==
  ASSUME input \in Inputs, NEW p \in Places
  PROVE  /\ p[1] \in Nat /\ p[1] > 0
         /\ p[2] \in Nat /\ p[2] > 0 /\ p[2] <= Len(Lists[p[1]].lines)
<1>1. p[1] \in DOMAIN Lists /\ p[2] \in DOMAIN Lists[p[1]].lines
  BY DEF Places
<1>2. Lists \in Seq(Source) /\ Lists[p[1]].lines \in Seq(Lines)
  BY <1>1, InputTypes
<1> QED
  BY <1>1, <1>2

\* Plain lines are rules with a host and nothing that would have them ignored.
LEMMA PlainLines ==
  ASSUME NEW l \in Lines, l.plain
  PROVE  /\ l.kind = "rule" /\ ~Ignored(l) /\ ~Suppresses(l) /\ ~Unblocks(l)
         /\ l.host # None
<1>1. l.kind = "rule" /\ ~l.marker /\ l.host # None /\ l.options = {}
  BY LinesAssumption
<1>2. ~is_ignored(l) /\ ~cosmetic_only_exception(l)
  BY <1>1 DEF is_ignored, cosmetic_only_exception
<1> QED
  BY <1>1, <1>2 DEF Ignored, Suppresses, Unblocks

\* Dealing with a line adds it to those that have been read.
LEMMA Advancing ==
  ASSUME InputOK, AtLine, Advance
  PROVE  /\ <<at.source, at.line>> \in Places
         /\ LineAt(<<at.source, at.line>>) = Current
         /\ Current \in Lines /\ Current \in Line
         /\ ReadPlaces' = ReadPlaces \cup {<<at.source, at.line>>}
         /\ \A p : LineAt(p)' = LineAt(p)
         /\ InputOK' /\ NothingRead'
<1>1. /\ input \in Inputs /\ at.source \in Nat /\ at.line \in Nat
      /\ at.source > 0 /\ at.line > 0
      /\ phase = "reading" /\ phase' = phase /\ input' = input
      /\ at.source <= Len(Lists) /\ at.line <= Len(Lists[at.source].lines)
  BY DEF InputOK, AtLine, Advance
<1>2. at.source \in DOMAIN Lists /\ at.line \in DOMAIN Lists[at.source].lines
  <2>1. at.source \in DOMAIN Lists
    BY <1>1, InputTypes
  <2>2. Lists[at.source].lines \in Seq(Lines)
    BY <1>1, <2>1, InputTypes
  <2> QED
    BY <1>1, <2>1, <2>2
<1>3. <<at.source, at.line>> \in Places
  BY <1>1, <1>2 DEF Places
<1>4. at' = [source |-> at.source, line |-> at.line + 1]
  BY DEF InputOK, Advance
<1>5. at'.source = at.source /\ at'.line = at.line + 1
  BY <1>4
<1>6. Lists' = Lists /\ Places' = Places
  BY <1>1 DEF Lists, Places
<1>7. \A p \in Places : p[1] \in Nat /\ p[2] \in Nat /\ p = <<p[1], p[2]>>
  BY DEF Places
<1>8. ReadPlaces' = ReadPlaces \cup {<<at.source, at.line>>}
  BY <1>1, <1>3, <1>5, <1>6, <1>7 DEF ReadPlaces
<1>9. LineAt(<<at.source, at.line>>) = Current /\ \A p : LineAt(p)' = LineAt(p)
  BY <1>6 DEF LineAt, Current
<1>10. InputOK' /\ NothingRead'
  BY <1>1, <1>4, <1>5, <1>6 DEF InputOK, NothingRead, Read
<1> QED
  BY <1>1, <1>3, <1>8, <1>9, <1>10, PlacesAreLines

\* A step that reads a line and enters it where it belongs preserves the invariant.
LEMMA ReadingPreserves ==
  ASSUME IInv, AtLine, Advance,
         \A h : h \in DOMAIN list_block' <=>
                  h \in DOMAIN list_block \/ (Blocks(Current) /\ Current.host = h),
         \A h : h \in DOMAIN list_allow' <=>
                  h \in DOMAIN list_allow \/ (Protects(Current) /\ Current.host = h),
         suppressed' <=> suppressed \/ Suppresses(Current)
  PROVE  IInv'
<1> DEFINE here == <<at.source, at.line>>
<1>1. /\ LineAt(here) = Current
      /\ ReadPlaces' = ReadPlaces \cup {here}
      /\ \A p : LineAt(p)' = LineAt(p)
      /\ InputOK' /\ NothingRead'
  BY Advancing DEF IInv
<1>2. BlocksRead'
  BY <1>1 DEF IInv, BlocksRead, Blocks
<1>3. AllowsRead'
  BY <1>1 DEF IInv, AllowsRead, Protects, Unblocks, Ignored, Suppresses
<1>4. SuppressionRead'
  BY <1>1 DEF IInv, SuppressionRead, Suppresses
<1> QED
  BY <1>1, <1>2, <1>3, <1>4 DEF IInv

LEMMA EnteredDomain ==
  ASSUME NEW rules, NEW host
  PROVE  \A h : h \in DOMAIN Entered(rules, host) <=> h \in DOMAIN rules \/ h = host
  BY DEF Entered

\* Between lines nothing is read.
LEMMA PausePreserves ==
  ASSUME IInv, UNCHANGED <<input, list_allow, list_block, suppressed>>,
         ReadPlaces' = ReadPlaces, InputOK', NothingRead'
  PROVE  IInv'
<1>1. \A p : LineAt(p)' = LineAt(p)
  BY DEF LineAt, Lists
<1>2. BlocksRead'
  BY <1>1 DEF IInv, BlocksRead, Blocks
<1>3. AllowsRead'
  BY <1>1 DEF IInv, AllowsRead, Protects, Unblocks, Ignored, Suppresses
<1>4. SuppressionRead'
  BY <1>1 DEF IInv, SuppressionRead, Suppresses
<1> QED
  BY <1>2, <1>3, <1>4 DEF IInv

THEOREM Invariance == Spec => []IInv
<1>1. Init => IInv
  <2> SUFFICES ASSUME Init PROVE IInv
    OBVIOUS
  <2>1. InputOK /\ NothingRead
    BY DEF Init, InputOK, NothingRead, Read
  <2>2. ReadPlaces = {}
    <3>1. \A p \in Places : p[1] \in Nat /\ p[1] > 0 /\ p[2] \in Nat /\ p[2] > 0
      BY PlacesPositive DEF Init
    <3>2. at.source = 1 /\ at.line = 1
      BY DEF Init
    <3> QED
      BY <3>1, <3>2 DEF ReadPlaces
  <2>3. DOMAIN list_block = {} /\ DOMAIN list_allow = {} /\ suppressed = FALSE
    BY DEF Init
  <2>4. BlocksRead
    BY <2>2, <2>3 DEF BlocksRead
  <2>5. AllowsRead
    BY <2>2, <2>3 DEF AllowsRead
  <2>6. SuppressionRead
    BY <2>2, <2>3 DEF SuppressionRead
  <2> QED
    BY <2>1, <2>4, <2>5, <2>6 DEF IInv
<1>2. IInv /\ [Next]_vars => IInv'
  <2> SUFFICES ASSUME IInv, [Next]_vars PROVE IInv'
    OBVIOUS
  <2>1. CASE Refuse
    <3>1. at' = at /\ input' = input /\ phase' = "refused"
      BY <2>1 DEF Refuse
    <3>2. ReadPlaces' = ReadPlaces
      BY <3>1 DEF ReadPlaces, Places, Lists
    <3>3. InputOK' /\ NothingRead'
      BY <3>1 DEF IInv, InputOK, NothingRead, Read, Lists
    <3> QED
      BY <2>1, <3>2, <3>3, PausePreserves DEF Refuse
  <2>2. CASE Begin
    <3>1. at' = at /\ input' = input /\ phase' = "reading" /\ Acceptable(input)
      BY <2>2 DEF Begin
    <3>2. ReadPlaces' = ReadPlaces
      BY <3>1 DEF ReadPlaces, Places, Lists
    <3>3. InputOK' /\ NothingRead'
      BY <3>1 DEF IInv, InputOK, NothingRead, Read, Lists, Acceptable
    <3> QED
      BY <2>2, <3>2, <3>3, PausePreserves DEF Begin
  <2>3. CASE Ignore
    <3>1. AtLine /\ Advance /\ Ignored(Current)
      BY <2>3 DEF Ignore
    <3>2. Current \in Lines
      BY <3>1, Advancing DEF IInv
    <3>3. ~Current.plain /\ ~Suppresses(Current) /\ ~Unblocks(Current)
      BY <3>1, <3>2, PlainLines DEF Suppresses, Unblocks, Ignored
    <3> QED
      BY <2>3, <3>1, <3>3, ReadingPreserves DEF Ignore, Blocks, Protects
  <2>4. CASE TakeAllow
    <3>1. AtLine /\ Advance /\ Current.plain /\ Current.exception
      BY <2>4 DEF TakeAllow
    <3>2. ~Suppresses(Current)
      BY <3>1, Advancing, PlainLines DEF IInv
    <3> QED
      BY <2>4, <3>1, <3>2, ReadingPreserves, EnteredDomain DEF TakeAllow, Blocks, Protects
  <2>5. CASE TakeBlock
    <3>1. AtLine /\ Advance /\ Current.plain /\ ~Current.exception
      BY <2>5 DEF TakeBlock
    <3>2. ~Suppresses(Current) /\ ~Unblocks(Current)
      BY <3>1, Advancing, PlainLines DEF IInv
    <3> QED
      BY <2>5, <3>1, <3>2, ReadingPreserves, EnteredDomain DEF TakeBlock, Blocks, Protects
  <2>6. CASE Suppress
    <3>1. AtLine /\ Advance /\ Suppresses(Current)
      BY <2>6 DEF Suppress
    <3>2. ~Current.plain
      BY <3>1, Advancing, PlainLines DEF IInv
    <3> QED
      BY <2>6, <3>1, <3>2, ReadingPreserves DEF Suppress, Blocks, Protects
  <2>7. CASE Protect
    <3>1. AtLine /\ Advance /\ Unblocks(Current) /\ ~Suppresses(Current) /\ ~Current.plain
      BY <2>7 DEF Protect, Unblocks
    <3> QED
      BY <2>7, <3>1, ReadingPreserves, EnteredDomain DEF Protect, Blocks, Protects
  <2>8. CASE Omit
    <3>1. AtLine /\ Advance /\ ~Unblocks(Current) /\ ~Current.plain /\ ~Suppresses(Current)
      BY <2>8 DEF Omit, Suppresses
    <3> QED
      BY <2>8, <3>1, ReadingPreserves DEF Omit, Blocks, Protects
  <2>9. CASE NextSource
    <3>1. /\ input' = input /\ phase' = phase /\ phase = "reading"
          /\ at.source \in Nat /\ at.source > 0 /\ at.source <= Len(Lists)
          /\ at.line \in Nat /\ at.line > Len(Lists[at.source].lines)
          /\ at' = [source |-> at.source + 1, line |-> 1]
      BY <2>9 DEF NextSource, IInv, InputOK
    <3>2. at'.source = at.source + 1 /\ at'.line = 1
      BY <3>1
    <3>3. Lists' = Lists /\ Places' = Places
      BY <3>1 DEF Lists, Places
    <3>4. \A p \in Places : p[1] \in Nat /\ p[2] \in Nat /\ p[2] > 0
                            /\ (p[1] = at.source => p[2] < at.line)
      BY <3>1, PlacesPositive DEF IInv, InputOK
    <3>5. ReadPlaces' = ReadPlaces
      BY <3>1, <3>2, <3>3, <3>4 DEF ReadPlaces
    <3>6. InputOK' /\ NothingRead'
      BY <3>1, <3>2, <3>3 DEF IInv, InputOK, NothingRead, Read
    <3> QED
      BY <2>9, <3>5, <3>6, PausePreserves DEF NextSource
  <2>10. CASE Finish
    <3>1. at' = at /\ input' = input /\ phase = "reading" /\ phase' = "done" /\ at.source > Len(Lists)
      BY <2>10 DEF Finish
    <3>2. ReadPlaces' = ReadPlaces
      BY <3>1 DEF ReadPlaces, Places, Lists
    <3>3. InputOK' /\ NothingRead'
      BY <3>1 DEF IInv, InputOK, NothingRead, Read, Lists, Acceptable
    <3> QED
      BY <2>10, <3>2, <3>3, PausePreserves DEF Finish
  <2>11. CASE UNCHANGED vars
    <3>1. ReadPlaces' = ReadPlaces
      BY <2>11 DEF vars, ReadPlaces, Places, Lists
    <3>2. InputOK' /\ NothingRead'
      BY <2>11 DEF vars, IInv, InputOK, NothingRead, Read, Lists, Acceptable
    <3> QED
      BY <2>11, <3>1, <3>2, PausePreserves DEF vars
  <2> QED
    BY <2>1, <2>2, <2>3, <2>4, <2>5, <2>6, <2>7, <2>8, <2>9, <2>10, <2>11 DEF Next
<1> QED
  BY <1>1, <1>2, PTL DEF Spec

-----------------------------------------------------------------------------
\* Every line has been read when the compilation is done.
LEMMA AllRead ==
  ASSUME IInv, phase = "done"
  PROVE  ReadPlaces = Places
<1>1. at.source > Len(Lists) /\ at.source \in Nat /\ Lists \in Seq(Source)
  BY InputTypes DEF IInv, InputOK
<1>2. \A p \in Places : p[1] \in Nat /\ p[1] <= Len(Lists)
  BY <1>1 DEF Places
<1> QED
  BY <1>1, <1>2 DEF ReadPlaces

\* A line of the texts has a place, and the other way round.
LEMMA LinesHavePlaces ==
  ASSUME input \in Inputs, NEW l
  PROVE  l \in LinesOf(input) <=> \E p \in Places : LineAt(p) = l
<1>1. /\ DOMAIN Lists \subseteq Nat
      /\ \A i \in DOMAIN Lists : DOMAIN Lists[i].lines \subseteq Nat
  BY InputTypes
<1>2. ASSUME l \in LinesOf(input) PROVE \E p \in Places : LineAt(p) = l
  <2>1. PICK s \in DOMAIN Lists : \E k \in DOMAIN Lists[s].lines : Lists[s].lines[k] = l
    BY <1>2 DEF LinesOf, Lists
  <2>2. PICK k \in DOMAIN Lists[s].lines : Lists[s].lines[k] = l
    BY <2>1
  <2>3. <<s, k>> \in Places /\ LineAt(<<s, k>>) = l
    BY <1>1, <2>2 DEF Places, LineAt
  <2> QED
    BY <2>3
<1>3. ASSUME NEW p \in Places, LineAt(p) = l PROVE l \in LinesOf(input)
  BY <1>3 DEF Places, LineAt, LinesOf, Lists
<1> QED
  BY <1>2, <1>3

\* A lookup finds something exactly if a host of the map covers the name.
LEMMA MatchesCover ==
  ASSUME NEW hosts, NEW h
  PROVE  Matches(hosts, h) # {} <=> \E x \in hosts : Covers(x, h)
  BY DEF Matches, Covers

\* The first map with a match decides.
LEMMA FirstDecides ==
  ASSUME NEW S, S \subseteq 1 .. 4, S # {}
  PROVE  (CHOOSE m \in S : \A n \in S : m <= n) \in {2, 4}
           <=> 1 \notin S /\ (2 \in S \/ 3 \notin S)
<1> DEFINE Least(m) == m \in S /\ \A n \in S : m <= n
<1>1. \E m : Least(m)
  <2>1. CASE 1 \in S
    BY <2>1
  <2>2. CASE 1 \notin S /\ 2 \in S
    BY <2>2
  <2>3. CASE 1 \notin S /\ 2 \notin S /\ 3 \in S
    BY <2>3
  <2>4. CASE 1 \notin S /\ 2 \notin S /\ 3 \notin S
    <3>1. \A n \in S : n = 4
      BY <2>4
    <3>2. 4 \in S
      BY <3>1
    <3>3. Least(4)
      BY <3>1, <3>2
    <3> QED
      BY <3>3
  <2> QED
    BY <2>1, <2>2, <2>3, <2>4
<1>2. PICK first : first = CHOOSE m \in S : \A n \in S : m <= n
  OBVIOUS
<1>3. Least(first)
  BY <1>1, <1>2
<1>4. first \in 1 .. 4
  BY <1>3
<1>5. first \in {2, 4} <=> 1 \notin S /\ (2 \in S \/ 3 \notin S)
  BY <1>3, <1>4
<1> QED
  BY <1>2, <1>5

\* A name is blocked exactly when the texts mean it, whatever the order of sources and
\* lines, for any lists (DnsPolicy::compile and decide).
LEMMA Meaning == IInv => DecisionsByMeaning
<1> SUFFICES ASSUME IInv, phase = "done", NEW h \in Hosts
             PROVE  decide(h).blocked <=> ShouldBlock(input, h)
  BY DEF DecisionsByMeaning
<1> DEFINE Hit(m) == Matches(DOMAIN RuleMaps[m], h) # {}
           hits == {m \in 1 .. 4 : h # None /\ Hit(m)}
           Named(hosts) == \E k \in DOMAIN hosts : Covers(hosts[k], h)
           Blocked == \E l \in LinesOf(input) : l.plain /\ ~l.exception /\ Covers(l.host, h)
           Shielded == \E l \in LinesOf(input) : Shields(l, h)
<1>1. input \in Inputs /\ ReadPlaces = Places /\ h # None
  BY AllRead, HostsAssumption DEF IInv, InputOK
<1>2. Hit(1) <=> Named(input.allow)
  <2>1. DOMAIN RuleMaps[1] = UserHosts(input.allow)
    BY DEF RuleMaps, UserRules
  <2>2. Hit(1) <=> \E x \in UserHosts(input.allow) : Covers(x, h)
    BY <2>1, MatchesCover
  <2>3. \A x : x \in UserHosts(input.allow) <=> \E k \in DOMAIN input.allow : x = input.allow[k]
    BY DEF UserHosts
  <2> QED
    BY <2>2, <2>3
<1>3. Hit(2) <=> Named(input.block)
  <2>1. DOMAIN RuleMaps[2] = UserHosts(input.block)
    BY DEF RuleMaps, UserRules
  <2>2. Hit(2) <=> \E x \in UserHosts(input.block) : Covers(x, h)
    BY <2>1, MatchesCover
  <2>3. \A x : x \in UserHosts(input.block) <=> \E k \in DOMAIN input.block : x = input.block[k]
    BY DEF UserHosts
  <2> QED
    BY <2>2, <2>3
<1>4. Hit(3) <=> \E p \in Places : Protects(LineAt(p)) /\ Covers(LineAt(p).host, h)
  <2>1. RuleMaps[3] = list_allow
    BY DEF RuleMaps
  <2>2. Hit(3) <=> \E x \in DOMAIN list_allow : Covers(x, h)
    BY <2>1, MatchesCover
  <2> QED
    BY <1>1, <2>2 DEF IInv, AllowsRead
<1>5. Hit(4) <=> ~suppressed /\ Blocked
  <2>1. RuleMaps[4] = IF suppressed THEN << >> ELSE list_block
    BY DEF RuleMaps
  <2>2. Hit(4) <=> ~suppressed /\ \E x \in DOMAIN list_block : Covers(x, h)
    BY <2>1, MatchesCover
  <2>3. (\E x \in DOMAIN list_block : Covers(x, h))
          <=> \E p \in Places : Blocks(LineAt(p)) /\ Covers(LineAt(p).host, h)
    BY <1>1 DEF IInv, BlocksRead
  <2>4. (\E p \in Places : Blocks(LineAt(p)) /\ Covers(LineAt(p).host, h)) <=> Blocked
    BY <1>1, LinesHavePlaces DEF Blocks
  <2> QED
    BY <2>2, <2>3, <2>4
<1>6. Shielded <=> suppressed \/ Hit(3)
  <2>1. \A p \in Places :
          Shields(LineAt(p), h)
            <=> Suppresses(LineAt(p)) \/ (Protects(LineAt(p)) /\ Covers(LineAt(p).host, h))
    <3> SUFFICES ASSUME NEW l \in Lines
                 PROVE  Shields(l, h) <=> Suppresses(l) \/ (Protects(l) /\ Covers(l.host, h))
      BY <1>1, PlacesAreLines
    <3>1. l \in Line
      BY LinesAssumption
    <3>2. CASE l.plain
      <4>1. /\ l.kind = "rule" /\ ~Suppresses(l) /\ ~Unblocks(l) /\ l.host # None
            /\ ~l.marker /\ l.options = {}
        BY <3>2, PlainLines, LinesAssumption
      <4> QED
        BY <3>2, <4>1 DEF Shields, Weakens, Protects, page_level_exception, has_badfilter,
                          cosmetic_only_exception
    <3>3. CASE ~l.plain
      <4>1. l.kind \in {"comment", "directive", "rule"} /\ l.exception \in BOOLEAN /\ l.marker \in BOOLEAN
        BY <3>1 DEF Line
      <4>2. l.kind # "directive" => (Weakens(l) <=> Unblocks(l))
        BY <3>3, <4>1 DEF Weakens, Unblocks, Ignored, is_ignored, has_badfilter, cosmetic_only_exception
      <4> QED
        BY <3>3, <4>1, <4>2 DEF Shields, Suppresses, Protects, Unblocks, Weakens
    <3> QED
      BY <3>2, <3>3
  <2>2. Shielded <=> \E p \in Places : Shields(LineAt(p), h)
    BY <1>1, LinesHavePlaces
  <2>3. suppressed <=> \E p \in Places : Suppresses(LineAt(p))
    BY <1>1 DEF IInv, SuppressionRead
  <2> QED
    BY <1>4, <2>1, <2>2, <2>3
<1>7. decide(h).blocked <=> (hits # {} /\ 1 \notin hits /\ (2 \in hits \/ 3 \notin hits))
  <2>1. CASE hits = {}
    BY <2>1 DEF decide
  <2>2. CASE hits # {}
    <3> DEFINE first == CHOOSE m \in hits : \A n \in hits : m <= n
    <3>1. decide(h).blocked <=> first \in {2, 4}
      BY <2>2 DEF decide
    <3>2. first \in {2, 4} <=> 1 \notin hits /\ (2 \in hits \/ 3 \notin hits)
      BY <2>2, FirstDecides
    <3> QED
      BY <2>2, <3>1, <3>2
  <2> QED
    BY <2>1, <2>2
<1>8. \A m \in 1 .. 4 : m \in hits <=> Hit(m)
  BY <1>1
<1>9. decide(h).blocked <=> ~Hit(1) /\ (Hit(2) \/ (~Hit(3) /\ Hit(4)))
  <2>1. /\ 1 \in hits <=> Hit(1)
        /\ 2 \in hits <=> Hit(2)
        /\ 3 \in hits <=> Hit(3)
        /\ 4 \in hits <=> Hit(4)
    BY <1>8
  <2>2. hits # {} <=> 1 \in hits \/ 2 \in hits \/ 3 \in hits \/ 4 \in hits
    OBVIOUS
  <2> HIDE DEF hits, Hit
  <2> QED
    BY <1>7, <2>1, <2>2
<1>10. ShouldBlock(input, h) <=> ~Named(input.allow) /\ (Named(input.block) \/ (Blocked /\ ~Shielded))
  BY DEF ShouldBlock
<1> HIDE DEF hits, Hit, Named, Blocked, Shielded
<1> QED
  BY <1>2, <1>3, <1>5, <1>6, <1>9, <1>10

THEOREM DecisionsAreMeant == Spec => []DecisionsByMeaning
  BY Invariance, Meaning, PTL
-----------------------------------------------------------------------------
(* Sums. *)

Units(f) == UNION {{i} \X (1 .. f[i]) : i \in DOMAIN f}

LEMMA UnitsOf ==
  ASSUME NEW f
  PROVE  \A u : u \in Units(f) <=> \E i \in DOMAIN f : \E k \in 1 .. f[i] : u = <<i, k>>
  BY DEF Units

LEMMA TotalOfZeros ==
  ASSUME NEW f, \A i \in DOMAIN f : f[i] = 0
  PROVE  IsFiniteSet(Units(f)) /\ Total(f) = 0
<1>1. Units(f) = {}
  BY UnitsOf
<1> QED
  BY <1>1, FS_EmptySet DEF Total, Units

\* One more in one place is one more in total.
LEMMA TotalOneMore ==
  ASSUME NEW f, NEW g, NEW i \in DOMAIN f, IsFiniteSet(Units(f)),
         f[i] \in Nat, DOMAIN g = DOMAIN f, g[i] = f[i] + 1,
         \A j \in DOMAIN f : j # i => g[j] = f[j]
  PROVE  IsFiniteSet(Units(g)) /\ Total(g) = Total(f) + 1
<1> DEFINE u == <<i, f[i] + 1>>
<1>1. u \notin Units(f)
  BY UnitsOf
<1>2. Units(g) = Units(f) \cup {u}
  <2>1. ASSUME NEW j \in DOMAIN f, NEW k \in 1 .. f[j] PROVE <<j, k>> \in Units(g)
    <3>1. k \in 1 .. g[j]
      <4>1. CASE j = i
        BY <4>1
      <4>2. CASE j # i
        BY <4>2
      <4> QED BY <4>1, <4>2
    <3> QED BY <3>1, UnitsOf
  <2>2. u \in Units(g)
    <3>1. f[i] + 1 \in 1 .. g[i]
      OBVIOUS
    <3> QED BY <3>1, UnitsOf
  <2>3. ASSUME NEW j \in DOMAIN f, NEW k \in 1 .. g[j] PROVE <<j, k>> \in Units(f) \cup {u}
    <3>1. CASE j = i /\ k = f[i] + 1
      BY <3>1
    <3>2. CASE ~(j = i /\ k = f[i] + 1)
      <4>1. k \in 1 .. f[j]
        <5>1. CASE j = i
          BY <3>2, <5>1
        <5>2. CASE j # i
          BY <5>2
        <5> QED BY <5>1, <5>2
      <4> QED BY <4>1, UnitsOf
    <3> QED BY <3>1, <3>2
  <2>4. \A v \in Units(f) : v \in Units(g)
    BY <2>1, UnitsOf
  <2>5. \A v \in Units(g) : v \in Units(f) \cup {u}
    <3>1. \A v \in Units(g) : \E j \in DOMAIN f : \E k \in 1 .. g[j] : v = <<j, k>>
      BY UnitsOf
    <3> HIDE DEF u
    <3> QED BY <2>3, <3>1
  <2> HIDE DEF u
  <2> QED BY <2>2, <2>4, <2>5
<1> HIDE DEF u
<1>3. IsFiniteSet(Units(f) \cup {u}) /\ Cardinality(Units(f) \cup {u}) = Cardinality(Units(f)) + 1
  BY <1>1, FS_AddElement
<1> QED
  BY <1>2, <1>3 DEF Total, Units

\* A set is as large as its parts together.
LEMMA TotalOfParts ==
  ASSUME NEW D, IsFiniteSet(D), NEW I, NEW c, \A x \in D : c[x] \in I
  PROVE  Total([i \in I |-> Cardinality({x \in D : c[x] = i})]) = Cardinality(D)
<1> DEFINE Part(i) == {x \in D : c[x] = i}
           f == [i \in I |-> Cardinality(Part(i))]
           b == [i \in I |-> CHOOSE g : g \in Bijection(1 .. f[i], Part(i))]
           G == [u \in Units(f) |-> b[u[1]][u[2]]]
<1>1. ASSUME NEW i \in I PROVE b[i] \in Bijection(1 .. f[i], Part(i))
  <2> DEFINE P == Part(i)
             Good(g) == g \in Bijection(1 .. Cardinality(P), P)
  <2>1. IsFiniteSet(P)
    <3>1. P \in SUBSET D
      OBVIOUS
    <3> HIDE DEF P
    <3> QED BY <3>1, FS_Subset
  <2>2. \E g : Good(g)
    <3> HIDE DEF P
    <3> QED BY <2>1, FS_CardinalityType DEF ExistsBijection
  <2>3. Good(CHOOSE g : Good(g))
    <3> HIDE DEF Good
    <3> QED BY <2>2
  <2> QED BY <2>3
<1>2. DOMAIN f = I
  OBVIOUS
<1> HIDE DEF f, b
<1>3. ASSUME NEW i \in I, NEW k \in 1 .. f[i]
      PROVE  b[i][k] \in D /\ c[b[i][k]] = i
  BY <1>1 DEF Bijection, Injection
<1>4. \A u \in Units(f) : \E i \in I : \E k \in 1 .. f[i] : u = <<i, k>> /\ G[u] = b[i][k]
  BY <1>2, UnitsOf
<1>5. \A i \in I : \A k \in 1 .. f[i] : <<i, k>> \in Units(f) /\ G[<<i, k>>] = b[i][k]
  BY <1>2, UnitsOf
<1>6. G \in [Units(f) -> D]
  BY <1>3, <1>4
<1> HIDE DEF G
<1>7. ASSUME NEW u \in Units(f), NEW v \in Units(f), G[u] = G[v] PROVE u = v
  <2>1. PICK i \in I : \E k \in 1 .. f[i] : u = <<i, k>> /\ G[u] = b[i][k]
    BY <1>4
  <2>2. PICK k \in 1 .. f[i] : u = <<i, k>> /\ G[u] = b[i][k]
    BY <2>1
  <2>3. PICK j \in I : \E l \in 1 .. f[j] : v = <<j, l>> /\ G[v] = b[j][l]
    BY <1>4
  <2>4. PICK l \in 1 .. f[j] : v = <<j, l>> /\ G[v] = b[j][l]
    BY <2>3
  <2>5. i = j
    BY <1>3, <1>7, <2>2, <2>4
  <2>6. k = l
    BY <1>1, <1>7, <2>2, <2>4, <2>5 DEF Bijection, Injection, IsInjective
  <2> QED BY <2>2, <2>4, <2>5, <2>6
<1>8. ASSUME NEW x \in D PROVE \E u \in Units(f) : G[u] = x
  <2>1. c[x] \in I /\ x \in Part(c[x])
    OBVIOUS
  <2>2. PICK k \in 1 .. f[c[x]] : b[c[x]][k] = x
    BY <1>1, <2>1 DEF Bijection, Surjection
  <2> QED BY <1>5, <2>1, <2>2
<1>9. G \in Bijection(Units(f), D)
  BY <1>6, <1>7, <1>8 DEF Bijection, Injection, Surjection, IsInjective
<1>10. ExistsBijection(D, Units(f))
  <2>1. ExistsBijection(Units(f), D)
    BY <1>9 DEF ExistsBijection
  <2> QED BY <2>1, Fun_ExistsBijSymmetric
<1>11. Cardinality(Units(f)) = Cardinality(D)
  BY <1>10, FS_Bijection
<1> QED
  BY <1>11 DEF f, Total, Units

-----------------------------------------------------------------------------
(* The report. *)

Row == [candidates : Nat, effective : Nat, allows : Nat]

ReportType ==
  [counts : Seq(Counts), reasons : Seq(Place), reasonsTotal : Nat, diagnostics : Seq(Place),
   diagnosticsTotal : Nat, rules : Seq(Row)]

\* The samples are bounded, and full before anything is missing from them.
SamplesOK ==
  /\ Len(report.reasons) <= MAX_SUPPRESSION_REASONS
  /\ suppressed <=> report.reasons # << >>
  /\ Len(report.diagnostics) <= MAX_DIAGNOSTICS
  /\ report.diagnosticsTotal > Len(report.diagnostics) => Len(report.diagnostics) = MAX_DIAGNOSTICS

TypeInv ==
  /\ at \in Place /\ RuleMap(list_allow) /\ RuleMap(list_block) /\ suppressed \in BOOLEAN
  /\ report \in ReportType /\ SamplesOK

Kinds(kinds) ==
  kinds \cup {"lines"} \cup (IF Current.kind = "rule" /\ ~Ignored(Current) /\ has_badfilter(Current)
                             THEN {"badfilters"} ELSE {})

\* Counting a line changes the numbers of its source, and nothing else of the report.
LEMMA CountedEffect ==
  ASSUME NEW r \in ReportType, at.source \in DOMAIN r.counts, NEW kinds
  PROVE  LET new == Counted(r, kinds)
             n == r.counts[at.source]
         IN  /\ new \in ReportType
             /\ new = [r EXCEPT !.counts = new.counts]
             /\ DOMAIN new.counts = DOMAIN r.counts
             /\ \A i \in DOMAIN r.counts : i # at.source => new.counts[i] = r.counts[i]
             /\ \A k \in DOMAIN NoCounts :
                  new.counts[at.source][k] = IF k \in Kinds(kinds) THEN n[k] + 1 ELSE n[k]
<1> DEFINE n == r.counts[at.source]
           m == [k \in DOMAIN NoCounts |-> IF k \in Kinds(kinds) THEN n[k] + 1 ELSE n[k]]
           counts == [r.counts EXCEPT ![at.source] = m]
           new == Counted(r, kinds)
<1>1. r.counts \in Seq(Counts) /\ n \in Counts
  BY DEF ReportType
<1>2. m \in Counts
  BY <1>1 DEF Counts
<1>3. /\ counts \in Seq(Counts) /\ DOMAIN counts = DOMAIN r.counts /\ counts[at.source] = m
      /\ \A i \in DOMAIN r.counts : i # at.source => counts[i] = r.counts[i]
  <2> HIDE DEF m
  <2> QED BY <1>1, <1>2
<1>4. new = [r EXCEPT !.counts = counts]
  BY DEF Counted, Kinds
<1> HIDE DEF counts, new
<1>5. new \in ReportType /\ new.counts = counts
  BY <1>3, <1>4 DEF ReportType
<1>6. \A k \in DOMAIN NoCounts : m[k] = IF k \in Kinds(kinds) THEN n[k] + 1 ELSE n[k]
  OBVIOUS
<1> HIDE DEF m
<1> QED
  BY <1>3, <1>4, <1>5, <1>6 DEF new

\* What becomes of a sample.
LEMMA SampledEffect ==
  ASSUME NEW s \in Seq(Place), NEW limit \in Nat, Len(s) <= limit, at \in Place
  PROVE  /\ Sampled(s, limit) \in Seq(Place) /\ Len(Sampled(s, limit)) <= limit
         /\ Len(Sampled(s, limit)) >= Len(s)
         /\ Len(s) < limit => Len(Sampled(s, limit)) = Len(s) + 1
         /\ limit > 0 => Sampled(s, limit) # << >>
<1>1. CASE Len(s) < limit
  <2>1. Sampled(s, limit) = Append(s, at)
    BY <1>1 DEF Sampled
  <2>2. Append(s, at) \in Seq(Place) /\ Len(Append(s, at)) = Len(s) + 1 /\ Len(s) \in Nat
    OBVIOUS
  <2>3. Append(s, at) # << >>
    BY <2>2
  <2> QED BY <1>1, <2>1, <2>2, <2>3
<1>2. CASE Len(s) = limit
  <2>1. Sampled(s, limit) = s
    BY <1>2 DEF Sampled
  <2>2. Len(s) > 0 => s # << >>
    OBVIOUS
  <2> QED BY <1>2, <2>1, <2>2
<1> QED BY <1>1, <1>2

\* Of the report a line with nothing to tell changes the counts only.
Silent(r) ==
  /\ r \in ReportType
  /\ r.reasons = report.reasons /\ r.reasonsTotal = report.reasonsTotal
  /\ r.diagnostics = report.diagnostics /\ r.diagnosticsTotal = report.diagnosticsTotal
  /\ r.rules = report.rules

LEMMA DiagnosedEffect ==
  ASSUME NEW r \in ReportType, at \in Place, Len(r.diagnostics) <= MAX_DIAGNOSTICS,
         r.diagnosticsTotal > Len(r.diagnostics) => Len(r.diagnostics) = MAX_DIAGNOSTICS
  PROVE  LET new == Diagnosed(r)
         IN  /\ new \in ReportType /\ new.counts = r.counts /\ new.reasons = r.reasons
             /\ new.rules = r.rules
             /\ new.diagnosticsTotal = r.diagnosticsTotal + 1
             /\ Len(new.diagnostics) <= MAX_DIAGNOSTICS
             /\ new.diagnosticsTotal > Len(new.diagnostics) => Len(new.diagnostics) = MAX_DIAGNOSTICS
<1> DEFINE s == Sampled(r.diagnostics, MAX_DIAGNOSTICS)
           n == r.diagnosticsTotal + 1
           new == Diagnosed(r)
<1>1. r.diagnostics \in Seq(Place) /\ r.diagnosticsTotal \in Nat /\ MAX_DIAGNOSTICS \in Nat
  BY InputsAssumption DEF ReportType
<1>2. /\ s \in Seq(Place) /\ Len(s) <= MAX_DIAGNOSTICS /\ Len(s) >= Len(r.diagnostics)
      /\ Len(r.diagnostics) < MAX_DIAGNOSTICS => Len(s) = Len(r.diagnostics) + 1
  BY <1>1, SampledEffect
<1>3. new = [r EXCEPT !.diagnosticsTotal = n, !.diagnostics = s] /\ n \in Nat
  BY <1>1 DEF Diagnosed
<1> HIDE DEF n, s, new
<1>4. /\ new \in ReportType /\ new.counts = r.counts /\ new.reasons = r.reasons
      /\ new.rules = r.rules /\ new.diagnosticsTotal = n
      /\ new.diagnostics = s
  <2> DEFINE C == Seq(Counts)
             P == Seq(Place)
             R == Seq(Row)
  <2>1. ReportType = [counts : C, reasons : P, reasonsTotal : Nat, diagnostics : P,
                      diagnosticsTotal : Nat, rules : R]
    BY DEF ReportType
  <2>2. s \in P
    BY <1>2
  <2> HIDE DEF C, P, R
  <2> QED BY <1>3, <2>1, <2>2
<1>5. Len(s) \in Nat /\ Len(r.diagnostics) \in Nat
  BY <1>1, <1>2
<1> QED
  BY <1>1, <1>2, <1>4, <1>5 DEF n, new

LEMMA suppress_list_blocksEffect ==
  ASSUME NEW r \in ReportType, at \in Place, Len(r.reasons) <= MAX_SUPPRESSION_REASONS
  PROVE  LET new == suppress_list_blocks(r)
         IN  /\ new \in ReportType /\ new.counts = r.counts /\ new.rules = r.rules
             /\ new.diagnostics = r.diagnostics /\ new.diagnosticsTotal = r.diagnosticsTotal
             /\ new.reasons # << >> /\ Len(new.reasons) <= MAX_SUPPRESSION_REASONS
<1> DEFINE s == Sampled(r.reasons, MAX_SUPPRESSION_REASONS)
           n == r.reasonsTotal + 1
           new == suppress_list_blocks(r)
<1>1. /\ r.reasons \in Seq(Place) /\ r.reasonsTotal \in Nat
      /\ MAX_SUPPRESSION_REASONS \in Nat /\ MAX_SUPPRESSION_REASONS > 0
  BY InputsAssumption DEF ReportType
<1>2. s \in Seq(Place) /\ Len(s) <= MAX_SUPPRESSION_REASONS /\ s # << >>
  BY <1>1, SampledEffect
<1>3. new = [r EXCEPT !.reasonsTotal = n, !.reasons = s] /\ n \in Nat
  BY <1>1 DEF suppress_list_blocks
<1> HIDE DEF n, s, new
<1>4. /\ new \in ReportType /\ new.counts = r.counts /\ new.rules = r.rules
      /\ new.diagnostics = r.diagnostics /\ new.diagnosticsTotal = r.diagnosticsTotal
      /\ new.reasons = s
  <2> DEFINE C == Seq(Counts)
             P == Seq(Place)
             R == Seq(Row)
  <2>1. ReportType = [counts : C, reasons : P, reasonsTotal : Nat, diagnostics : P,
                      diagnosticsTotal : Nat, rules : R]
    BY DEF ReportType
  <2>2. s \in P
    BY <1>2
  <2> HIDE DEF C, P, R
  <2> QED BY <1>3, <2>1, <2>2
<1> QED
  BY <1>2, <1>4 DEF new

-----------------------------------------------------------------------------
(* What is counted. *)

\* How many lines of a source have been read.
ReadOf(i) ==
  IF i < at.source THEN Len(Lists[i].lines) ELSE IF i = at.source THEN at.line - 1 ELSE 0

RulesFrom(rules, i) == {h \in DOMAIN rules : rules[h].source = i}

LinesCounted ==
  /\ Read => DOMAIN report.counts = DOMAIN Lists
  /\ at.source <= Len(Lists) => at.line <= Len(Lists[at.source].lines) + 1
  /\ \A i \in DOMAIN report.counts :
       LET n == report.counts[i]
       IN  n.lines = ReadOf(i) /\ n.lines = n.blocks + n.allows + n.ignored + n.unsupported

OmissionsCounted ==
  LET omitted == Of("unsupported")
  IN  IsFiniteSet(Units(omitted)) /\ report.diagnosticsTotal = Total(omitted)

\* Every rule is from a source that has counted it.
Credited(rules, Kept(_)) ==
  /\ IsFiniteSet(DOMAIN rules)
  /\ \A h \in DOMAIN rules : rules[h].source \in DOMAIN Lists
  /\ \A i \in DOMAIN report.counts : Cardinality(RulesFrom(rules, i)) <= Kept(report.counts[i])

BlocksOf(n) == n.blocks
AllowsOf(n) == n.allows + n.conservative

RowsMade ==
  phase = "done" =>
    report.rules = [i \in DOMAIN Lists |->
      [candidates |-> RulesOf(list_block, i),
       effective |-> IF suppressed THEN 0 ELSE RulesOf(list_block, i),
       allows |-> RulesOf(list_allow, i)]]

NothingCounted ==
  phase = "start" => report = EmptyReport /\ DOMAIN list_block = {} /\ DOMAIN list_allow = {}

CountsInv ==
  /\ TypeInv /\ LinesCounted /\ OmissionsCounted /\ RowsMade /\ NothingCounted
  /\ Credited(list_block, BlocksOf) /\ Credited(list_allow, AllowsOf)

KindSets ==
  {{"ignored"}, {"allows"}, {"blocks"}, {"unsupported"}, {"unsupported", "conservative"}}

\* What reading a line does to the report and to the maps.
LineRead(kinds) ==
  /\ AtLine /\ Advance
  /\ report' \in ReportType /\ report'.rules = report.rules
  /\ DOMAIN report'.counts = DOMAIN report.counts
  /\ \A i \in DOMAIN report.counts : i # at.source => report'.counts[i] = report.counts[i]
  /\ \A k \in DOMAIN NoCounts :
       report'.counts[at.source][k] =
         report.counts[at.source][k] + (IF k \in Kinds(kinds) THEN 1 ELSE 0)
  /\ report'.diagnosticsTotal = report.diagnosticsTotal + (IF "unsupported" \in kinds THEN 1 ELSE 0)
  /\ \/ list_block' = list_block
     \/ /\ "blocks" \in kinds /\ Current.host \in Hosts
        /\ list_block' = Entered(list_block, Current.host)
  /\ \/ list_allow' = list_allow
     \/ /\ kinds \cap {"allows", "conservative"} # {} /\ Current.host \in Hosts
        /\ list_allow' = Entered(list_allow, Current.host)

LEMMA LineCounts ==
  ASSUME InputOK, TypeInv, LinesCounted, AtLine, Advance, NEW r \in ReportType,
         r.counts = report.counts, NEW kinds
  PROVE  LET new == Counted(r, kinds)
         IN  /\ new \in ReportType /\ new.rules = r.rules
             /\ new.reasons = r.reasons
             /\ new.diagnostics = r.diagnostics /\ new.diagnosticsTotal = r.diagnosticsTotal
             /\ DOMAIN new.counts = DOMAIN report.counts
             /\ \A i \in DOMAIN report.counts : i # at.source => new.counts[i] = report.counts[i]
             /\ \A k \in DOMAIN NoCounts :
                  new.counts[at.source][k] =
                    report.counts[at.source][k] + (IF k \in Kinds(kinds) THEN 1 ELSE 0)
<1> DEFINE new == Counted(r, kinds)
           n == report.counts[at.source]
<1>1. at.source \in DOMAIN report.counts
  <2>1. Read
    BY DEF AtLine, Read
  <2>2. at.source \in DOMAIN Lists
    BY Advancing DEF Places
  <2> QED BY <2>1, <2>2 DEF LinesCounted
<1>2. /\ new \in ReportType
      /\ new = [r EXCEPT !.counts = new.counts]
      /\ DOMAIN new.counts = DOMAIN report.counts
      /\ \A i \in DOMAIN report.counts : i # at.source => new.counts[i] = report.counts[i]
      /\ \A k \in DOMAIN NoCounts :
           new.counts[at.source][k] = IF k \in Kinds(kinds) THEN n[k] + 1 ELSE n[k]
  BY <1>1, CountedEffect
<1>3. \A k \in DOMAIN NoCounts : n[k] \in Nat
  BY <1>1 DEF TypeInv, ReportType, Counts
<1> HIDE DEF new, n
<1>4. /\ new.rules = r.rules /\ new.reasons = r.reasons
      /\ new.diagnostics = r.diagnostics /\ new.diagnosticsTotal = r.diagnosticsTotal
  BY <1>2 DEF ReportType
<1>5. \A k \in DOMAIN NoCounts : new.counts[at.source][k] = n[k] + (IF k \in Kinds(kinds) THEN 1 ELSE 0)
  BY <1>2, <1>3
<1> QED
  BY <1>2, <1>4, <1>5 DEF new, n

LEMMA LinesAreRead ==
  ASSUME InputOK, TypeInv, LinesCounted,
         Ignore \/ TakeAllow \/ TakeBlock \/ Suppress \/ Protect \/ Omit
  PROVE  SamplesOK' /\ suppressed' \in BOOLEAN /\ \E kinds \in KindSets : LineRead(kinds)
<1>0. /\ AtLine /\ Advance
      /\ report \in ReportType /\ SamplesOK /\ at \in Place /\ suppressed \in BOOLEAN
  BY DEF TypeInv, Ignore, TakeAllow, TakeBlock, Suppress, Protect, Omit, Unblocks, Suppresses
<1>1. Current \in Lines /\ Current.host \in Hosts \cup {None}
  <2>1. Current \in Line
    BY <1>0, Advancing
  <2> QED BY <1>0, <2>1, Advancing DEF Line
<1>2. Current.plain => Current.host \in Hosts
  BY <1>1, PlainLines
<1>3. ASSUME NEW kinds \in KindSets, "unsupported" \notin kinds, suppressed' = suppressed,
             report' = Counted(report, kinds)
      PROVE  /\ SamplesOK'
             /\ report' \in ReportType /\ report'.rules = report.rules
             /\ DOMAIN report'.counts = DOMAIN report.counts
             /\ \A i \in DOMAIN report.counts : i # at.source => report'.counts[i] = report.counts[i]
             /\ \A k \in DOMAIN NoCounts :
                  report'.counts[at.source][k] =
                    report.counts[at.source][k] + (IF k \in Kinds(kinds) THEN 1 ELSE 0)
             /\ report'.diagnosticsTotal =
                  report.diagnosticsTotal + (IF "unsupported" \in kinds THEN 1 ELSE 0)
  <2> DEFINE new == Counted(report, kinds)
  <2>1. /\ new \in ReportType /\ new.rules = report.rules
        /\ new.reasons = report.reasons
        /\ new.diagnostics = report.diagnostics /\ new.diagnosticsTotal = report.diagnosticsTotal
        /\ DOMAIN new.counts = DOMAIN report.counts
        /\ \A i \in DOMAIN report.counts : i # at.source => new.counts[i] = report.counts[i]
        /\ \A k \in DOMAIN NoCounts :
             new.counts[at.source][k] =
               report.counts[at.source][k] + (IF k \in Kinds(kinds) THEN 1 ELSE 0)
    BY <1>0, LineCounts
  <2>2. report' = new
    BY <1>3
  <2> HIDE DEF new
  <2>3. SamplesOK'
    BY <1>0, <1>3, <2>1, <2>2 DEF SamplesOK
  <2>4. report.diagnosticsTotal \in Nat
    BY <1>0 DEF ReportType
  <2> QED BY <1>3, <2>1, <2>2, <2>3, <2>4
<1>4. CASE Ignore
  <2>1. /\ report' = Counted(report, {"ignored"}) /\ suppressed' = suppressed
        /\ list_block' = list_block /\ list_allow' = list_allow
    BY <1>4 DEF Ignore
  <2>2. {"ignored"} \in KindSets /\ "unsupported" \notin {"ignored"}
    BY DEF KindSets
  <2>3. SamplesOK' /\ LineRead({"ignored"})
    BY <1>0, <1>3, <2>1, <2>2 DEF LineRead
  <2> QED BY <1>0, <2>1, <2>2, <2>3
<1>5. CASE TakeAllow
  <2>1. /\ report' = Counted(report, {"allows"}) /\ suppressed' = suppressed
        /\ list_block' = list_block /\ list_allow' = Entered(list_allow, Current.host)
        /\ Current.host \in Hosts
    BY <1>2, <1>5 DEF TakeAllow
  <2>2. {"allows"} \in KindSets /\ "unsupported" \notin {"allows"}
    BY DEF KindSets
  <2>3. SamplesOK' /\ LineRead({"allows"})
    BY <1>0, <1>3, <2>1, <2>2 DEF LineRead
  <2> QED BY <1>0, <2>1, <2>2, <2>3
<1>6. CASE TakeBlock
  <2>1. /\ report' = Counted(report, {"blocks"}) /\ suppressed' = suppressed
        /\ list_allow' = list_allow /\ list_block' = Entered(list_block, Current.host)
        /\ Current.host \in Hosts
    BY <1>2, <1>6 DEF TakeBlock
  <2>2. {"blocks"} \in KindSets /\ "unsupported" \notin {"blocks"}
    BY DEF KindSets
  <2>3. SamplesOK' /\ LineRead({"blocks"})
    BY <1>0, <1>3, <2>1, <2>2 DEF LineRead
  <2> QED BY <1>0, <2>1, <2>2, <2>3
<1>7. ASSUME NEW kinds \in KindSets, "unsupported" \in kinds,
             NEW r \in ReportType, r.counts = report.counts, r.rules = report.rules,
             r.diagnostics = report.diagnostics, r.diagnosticsTotal = report.diagnosticsTotal,
             Len(r.reasons) <= MAX_SUPPRESSION_REASONS, suppressed' <=> r.reasons # << >>,
             report' = Diagnosed(Counted(r, kinds))
      PROVE  /\ SamplesOK'
             /\ report' \in ReportType /\ report'.rules = report.rules
             /\ DOMAIN report'.counts = DOMAIN report.counts
             /\ \A i \in DOMAIN report.counts : i # at.source => report'.counts[i] = report.counts[i]
             /\ \A k \in DOMAIN NoCounts :
                  report'.counts[at.source][k] =
                    report.counts[at.source][k] + (IF k \in Kinds(kinds) THEN 1 ELSE 0)
             /\ report'.diagnosticsTotal =
                  report.diagnosticsTotal + (IF "unsupported" \in kinds THEN 1 ELSE 0)
  <2> DEFINE mid == Counted(r, kinds)
             new == Diagnosed(mid)
  <2>1. /\ mid \in ReportType /\ mid.rules = r.rules
        /\ mid.reasons = r.reasons
        /\ mid.diagnostics = r.diagnostics /\ mid.diagnosticsTotal = r.diagnosticsTotal
        /\ DOMAIN mid.counts = DOMAIN report.counts
        /\ \A i \in DOMAIN report.counts : i # at.source => mid.counts[i] = report.counts[i]
        /\ \A k \in DOMAIN NoCounts :
             mid.counts[at.source][k] =
               report.counts[at.source][k] + (IF k \in Kinds(kinds) THEN 1 ELSE 0)
    BY <1>0, <1>7, LineCounts
  <2> HIDE DEF mid
  <2>2. /\ Len(mid.diagnostics) <= MAX_DIAGNOSTICS
        /\ mid.diagnosticsTotal > Len(mid.diagnostics) => Len(mid.diagnostics) = MAX_DIAGNOSTICS
    BY <1>0, <1>7, <2>1 DEF SamplesOK
  <2>3. /\ new \in ReportType /\ new.counts = mid.counts /\ new.reasons = mid.reasons
        /\ new.rules = mid.rules
        /\ new.diagnosticsTotal = mid.diagnosticsTotal + 1
        /\ Len(new.diagnostics) <= MAX_DIAGNOSTICS
        /\ new.diagnosticsTotal > Len(new.diagnostics) => Len(new.diagnostics) = MAX_DIAGNOSTICS
    BY <1>0, <2>1, <2>2, DiagnosedEffect
  <2>4. report' = new
    BY <1>7 DEF mid
  <2> HIDE DEF new
  <2>5. SamplesOK'
    BY <1>7, <2>1, <2>3, <2>4 DEF SamplesOK
  <2> QED BY <1>7, <2>1, <2>3, <2>4, <2>5
<1>8. CASE Suppress
  <2> DEFINE r == suppress_list_blocks(report)
             kinds == {"unsupported"}
  <2>1. /\ report' = Diagnosed(Counted(r, kinds)) /\ suppressed' = TRUE
        /\ list_block' = list_block /\ list_allow' = list_allow
    BY <1>8 DEF Suppress
  <2>2. kinds \in KindSets /\ "unsupported" \in kinds
    BY DEF KindSets
  <2>3. /\ r \in ReportType /\ r.counts = report.counts /\ r.rules = report.rules
        /\ r.diagnostics = report.diagnostics /\ r.diagnosticsTotal = report.diagnosticsTotal
        /\ r.reasons # << >> /\ Len(r.reasons) <= MAX_SUPPRESSION_REASONS
    BY <1>0, suppress_list_blocksEffect DEF SamplesOK
  <2> HIDE DEF r, kinds
  <2>4. SamplesOK' /\ LineRead(kinds)
    BY <1>0, <1>7, <2>1, <2>2, <2>3 DEF LineRead
  <2> QED BY <2>1, <2>2, <2>4
<1>9. CASE Protect
  <2> DEFINE kinds == {"unsupported", "conservative"}
  <2>1. /\ report' = Diagnosed(Counted(report, kinds)) /\ suppressed' = suppressed
        /\ list_block' = list_block /\ list_allow' = Entered(list_allow, Current.host)
    BY <1>9 DEF Protect
  <2>2. /\ kinds \in KindSets /\ "unsupported" \in kinds
        /\ kinds \cap {"allows", "conservative"} # {}
    BY DEF KindSets
  <2>3. Current.host \in Hosts
    BY <1>1, <1>9 DEF Protect, Suppresses
  <2> HIDE DEF kinds
  <2>4. /\ Len(report.reasons) <= MAX_SUPPRESSION_REASONS
        /\ suppressed' <=> report.reasons # << >>
    BY <1>0, <2>1 DEF SamplesOK
  <2>5. SamplesOK' /\ LineRead(kinds)
    BY <1>0, <1>7, <2>1, <2>2, <2>3, <2>4 DEF LineRead
  <2> QED BY <1>0, <2>1, <2>2, <2>5
<1>10. CASE Omit
  <2> DEFINE kinds == {"unsupported"}
  <2>1. /\ report' = Diagnosed(Counted(report, kinds)) /\ suppressed' = suppressed
        /\ list_block' = list_block /\ list_allow' = list_allow
    BY <1>10 DEF Omit
  <2>2. kinds \in KindSets /\ "unsupported" \in kinds
    BY DEF KindSets
  <2> HIDE DEF kinds
  <2>3. /\ Len(report.reasons) <= MAX_SUPPRESSION_REASONS
        /\ suppressed' <=> report.reasons # << >>
    BY <1>0, <2>1 DEF SamplesOK
  <2>4. SamplesOK' /\ LineRead(kinds)
    BY <1>0, <1>7, <2>1, <2>2, <2>3 DEF LineRead
  <2> QED BY <1>0, <2>1, <2>2, <2>4
<1> QED
  BY <1>4, <1>5, <1>6, <1>8, <1>9, <1>10

\* Entering a rule adds at most one, to those of the line's source.
LEMMA EnteredEffect ==
  ASSUME NEW rules, IsFiniteSet(DOMAIN rules), NEW host
  PROVE  LET new == Entered(rules, host)
         IN  /\ IsFiniteSet(DOMAIN new)
             /\ DOMAIN new = DOMAIN rules \cup {host}
             /\ \A h \in DOMAIN new :
                  \/ h \in DOMAIN rules /\ new[h] = rules[h]
                  \/ h = host /\ new[h] = at
             /\ \A i : i # at.source => RulesFrom(new, i) = RulesFrom(rules, i)
             /\ Cardinality(RulesFrom(new, at.source)) <= Cardinality(RulesFrom(rules, at.source)) + 1
<1> DEFINE new == Entered(rules, host)
<1>1. /\ DOMAIN new = DOMAIN rules \cup {host}
      /\ \A h \in DOMAIN rules : new[h] = rules[h]
      /\ host \notin DOMAIN rules => new[host] = at
  BY DEF Entered
<1> HIDE DEF new
<1>2. IsFiniteSet(DOMAIN new)
  BY <1>1, FS_AddElement
<1>3. \A i : i # at.source => RulesFrom(new, i) = RulesFrom(rules, i)
  BY <1>1 DEF RulesFrom
<1> DEFINE A == RulesFrom(rules, at.source)
           B == RulesFrom(new, at.source)
<1>4. B = A \/ B = A \cup {host}
  BY <1>1 DEF RulesFrom
<1>5. IsFiniteSet(A)
  <2>1. A \in SUBSET DOMAIN rules
    BY DEF RulesFrom
  <2> HIDE DEF A
  <2> QED BY <2>1, FS_Subset
<1>6. Cardinality(B) <= Cardinality(A) + 1
  <2> HIDE DEF A, B
  <2>1. Cardinality(A) \in Nat
    BY <1>5, FS_CardinalityType
  <2>2. host \in A => A \cup {host} = A
    OBVIOUS
  <2>3. host \notin A => Cardinality(A \cup {host}) = Cardinality(A) + 1
    BY <1>5, FS_AddElement
  <2>4. CASE B = A
    BY <2>1, <2>4
  <2>5. CASE B = A \cup {host}
    BY <2>1, <2>2, <2>3, <2>5
  <2> QED BY <1>4, <2>4, <2>5
<1> HIDE DEF A, B
<1>7. \A h \in DOMAIN new : (h \in DOMAIN rules /\ new[h] = rules[h]) \/ (h = host /\ new[h] = at)
  BY <1>1
<1> QED
  BY <1>1, <1>2, <1>3, <1>6, <1>7 DEF new, A, B

LEMMA RulesFromType ==
  ASSUME NEW rules, IsFiniteSet(DOMAIN rules), NEW i
  PROVE  Cardinality(RulesFrom(rules, i)) \in Nat
<1> DEFINE A == RulesFrom(rules, i)
<1>1. A \in SUBSET DOMAIN rules
  BY DEF RulesFrom
<1> HIDE DEF A
<1> QED BY <1>1, FS_Subset, FS_CardinalityType DEF A

\* The numbers of the kinds before and after a line.
LEMMA NumbersRead ==
  ASSUME TypeInv, NEW kinds \in KindSets, LineRead(kinds), at.source \in DOMAIN report.counts
  PROVE  LET n == report.counts[at.source]
             m == report'.counts[at.source]
             One(k) == IF k \in kinds THEN 1 ELSE 0
         IN  /\ \A k \in DOMAIN NoCounts : n[k] \in Nat /\ m[k] \in Nat
             /\ m.lines = n.lines + 1
             /\ m.blocks = n.blocks + One("blocks") /\ m.allows = n.allows + One("allows")
             /\ m.ignored = n.ignored + One("ignored")
             /\ m.unsupported = n.unsupported + One("unsupported")
             /\ m.conservative = n.conservative + One("conservative")
<1> DEFINE n == report.counts[at.source]
           m == report'.counts[at.source]
           One(k) == IF k \in kinds THEN 1 ELSE 0
<1>1. \A k \in DOMAIN NoCounts : n[k] \in Nat /\ m[k] \in Nat
  <2>1. report.counts \in Seq(Counts) /\ report'.counts \in Seq(Counts)
    BY DEF TypeInv, LineRead, ReportType
  <2>2. at.source \in DOMAIN report'.counts
    BY DEF LineRead
  <2>3. n \in Counts /\ m \in Counts
    BY <2>1, <2>2
  <2> QED BY <2>3 DEF Counts
<1>2. \A k \in DOMAIN NoCounts : m[k] = n[k] + (IF k \in Kinds(kinds) THEN 1 ELSE 0)
  BY DEF LineRead
<1>3. {"lines", "blocks", "allows", "ignored", "unsupported", "conservative"} \subseteq DOMAIN NoCounts
  BY DEF NoCounts
<1>4. /\ "lines" \in Kinds(kinds)
      /\ \A k \in {"blocks", "allows", "ignored", "unsupported", "conservative"} :
           k \in Kinds(kinds) <=> k \in kinds
  BY DEF Kinds
<1> HIDE DEF n, m
<1>5. m.lines = n.lines + 1
  BY <1>2, <1>3, <1>4
<1>6. /\ m.blocks = n.blocks + One("blocks") /\ m.allows = n.allows + One("allows")
      /\ m.ignored = n.ignored + One("ignored")
      /\ m.unsupported = n.unsupported + One("unsupported")
      /\ m.conservative = n.conservative + One("conservative")
  BY <1>2, <1>3, <1>4
<1> QED
  BY <1>1, <1>5, <1>6 DEF n, m

LEMMA CountsOnLine ==
  ASSUME InputOK, CountsInv, NEW kinds \in KindSets, LineRead(kinds),
         SamplesOK', suppressed' \in BOOLEAN
  PROVE  CountsInv'
<1>0. /\ TypeInv /\ LinesCounted /\ AtLine /\ Advance /\ phase = "reading" /\ phase' = phase
      /\ input' = input /\ Lists' = Lists
      /\ at.source \in Nat /\ at.source > 0 /\ at.line \in Nat /\ at.line > 0
      /\ at.source <= Len(Lists) /\ at.line <= Len(Lists[at.source].lines)
      /\ at' = [source |-> at.source, line |-> at.line + 1]
      /\ at'.source = at.source /\ at'.line = at.line + 1 /\ at \in Place /\ at' \in Place
  BY DEF CountsInv, TypeInv, LineRead, Advance, AtLine, InputOK, Lists, Place
<1>1. /\ at.source \in DOMAIN Lists /\ at.source \in DOMAIN report.counts
      /\ DOMAIN report.counts = DOMAIN Lists /\ DOMAIN report'.counts = DOMAIN report.counts
      /\ \A i \in DOMAIN Lists : i \in Nat /\ Len(Lists[i].lines) \in Nat
  <2>1. at.source \in DOMAIN Lists
    BY <1>0, Advancing DEF Places
  <2>2. DOMAIN report.counts = DOMAIN Lists
    BY <1>0 DEF LinesCounted, Read
  <2>3. \A i \in DOMAIN Lists : i \in Nat /\ Len(Lists[i].lines) \in Nat
    BY InputTypes DEF InputOK
  <2> QED BY <2>1, <2>2, <2>3 DEF LineRead
<1> DEFINE n == report.counts[at.source]
           m == report'.counts[at.source]
           One(k) == IF k \in kinds THEN 1 ELSE 0
<1>2. /\ \A k \in DOMAIN NoCounts : n[k] \in Nat /\ m[k] \in Nat
      /\ m.lines = n.lines + 1
      /\ m.blocks = n.blocks + One("blocks") /\ m.allows = n.allows + One("allows")
      /\ m.ignored = n.ignored + One("ignored")
      /\ m.unsupported = n.unsupported + One("unsupported")
      /\ m.conservative = n.conservative + One("conservative")
  BY <1>0, <1>1, NumbersRead
<1>3. /\ n.blocks \in Nat /\ n.allows \in Nat /\ n.ignored \in Nat /\ n.unsupported \in Nat
      /\ n.conservative \in Nat /\ n.lines \in Nat
  BY <1>2 DEF NoCounts
<1>4. \A i \in DOMAIN report.counts : i # at.source => report'.counts[i] = report.counts[i]
  BY DEF LineRead
<1> HIDE DEF n, m
<1>5. TypeInv'
  <2>1. ASSUME NEW rules, RuleMap(rules), Current.host \in Hosts
        PROVE  RuleMap(Entered(rules, Current.host))
    BY <1>0, <2>1 DEF RuleMap, Entered
  <2>2. RuleMap(list_block) /\ RuleMap(list_allow)
    BY <1>0 DEF TypeInv
  <2>3. RuleMap(list_block') /\ RuleMap(list_allow')
    BY <2>1, <2>2 DEF LineRead
  <2>4. RuleMap(list_block)' /\ RuleMap(list_allow)'
    BY <2>3 DEF RuleMap
  <2>5. (report \in ReportType)'
    BY DEF LineRead
  <2> QED BY <1>0, <2>4, <2>5 DEF TypeInv
<1>6. LinesCounted'
  <2>1. ASSUME NEW i \in DOMAIN report'.counts
        PROVE  LET k == report'.counts[i]
               IN  k.lines = ReadOf(i)' /\ k.lines = k.blocks + k.allows + k.ignored + k.unsupported
    <3>1. CASE i = at.source
      <4>1. ReadOf(i) = at.line - 1 /\ ReadOf(i)' = at.line
        BY <1>0, <3>1 DEF ReadOf
      <4>2. n.lines = at.line - 1 /\ n.lines = n.blocks + n.allows + n.ignored + n.unsupported
        BY <1>0, <1>1, <3>1, <4>1 DEF LinesCounted, n
      <4>3. m.lines = at.line
        BY <1>0, <1>2, <4>2
      <4>4. One("blocks") + One("allows") + One("ignored") + One("unsupported") = 1
        BY DEF KindSets
      <4> HIDE DEF One
      <4>5. /\ One("blocks") \in Nat /\ One("allows") \in Nat /\ One("ignored") \in Nat
            /\ One("unsupported") \in Nat
        BY DEF One
      <4>6. m.lines = m.blocks + m.allows + m.ignored + m.unsupported
        BY <1>2, <1>3, <4>2, <4>4, <4>5
      <4> QED BY <3>1, <4>1, <4>3, <4>6 DEF m
    <3>2. CASE i # at.source
      <4>1. report'.counts[i] = report.counts[i] /\ i \in DOMAIN report.counts
        BY <1>1, <1>4, <3>2
      <4>2. ReadOf(i)' = ReadOf(i)
        BY <1>0, <3>2 DEF ReadOf
      <4> QED BY <1>0, <4>1, <4>2 DEF LinesCounted
    <3> QED BY <3>1, <3>2
  <2>2. (Read => DOMAIN report.counts = DOMAIN Lists)'
    BY <1>0, <1>1
  <2>3. (at.source <= Len(Lists) => at.line <= Len(Lists[at.source].lines) + 1)'
    BY <1>0, <1>1
  <2> QED BY <2>1, <2>2, <2>3 DEF LinesCounted
<1>7. OmissionsCounted'
  <2> DEFINE f == Of("unsupported")
             g == Of("unsupported")'
  <2>1. /\ DOMAIN f = DOMAIN report.counts /\ DOMAIN g = DOMAIN f
        /\ f[at.source] = n.unsupported /\ g[at.source] = m.unsupported
        /\ \A j \in DOMAIN f : j # at.source => g[j] = f[j]
    BY <1>1, <1>4 DEF Of, n, m
  <2>2. IsFiniteSet(Units(f)) /\ report.diagnosticsTotal = Total(f)
    BY DEF CountsInv, OmissionsCounted
  <2>3. report'.diagnosticsTotal = report.diagnosticsTotal + One("unsupported")
    BY DEF LineRead
  <2>4. f = [i \in DOMAIN report.counts |-> f[i]] /\ g = [i \in DOMAIN report'.counts |-> g[i]]
    BY DEF Of
  <2> HIDE DEF f, g
  <2>5. CASE "unsupported" \in kinds
    <3>1. g[at.source] = f[at.source] + 1 /\ f[at.source] \in Nat /\ at.source \in DOMAIN f
      BY <1>1, <1>2, <1>3, <2>1, <2>5
    <3>2. IsFiniteSet(Units(g)) /\ Total(g) = Total(f) + 1
      BY <2>1, <2>2, <3>1, TotalOneMore
    <3> QED BY <2>2, <2>3, <2>5, <3>2 DEF OmissionsCounted, g, Total, Units
  <2>6. CASE "unsupported" \notin kinds
    <3>1. g[at.source] = f[at.source]
      BY <1>2, <1>3, <2>1, <2>6
    <3>2. \A j \in DOMAIN f : g[j] = f[j]
      BY <2>1, <3>1
    <3>3. g = f
      BY <1>1, <2>1, <2>4, <3>2
    <3>4. report'.diagnosticsTotal = report.diagnosticsTotal
      <4>1. report.diagnosticsTotal \in Nat
        BY <1>0 DEF TypeInv, ReportType
      <4> QED BY <2>3, <2>6, <4>1
    <3> QED BY <2>2, <3>3, <3>4 DEF OmissionsCounted, g, Total, Units
  <2> QED BY <2>5, <2>6
<1>8. Credited(list_block, BlocksOf)'
  <2>1. /\ IsFiniteSet(DOMAIN list_block)
        /\ \A h \in DOMAIN list_block : list_block[h].source \in DOMAIN Lists
        /\ \A i \in DOMAIN report.counts :
             Cardinality(RulesFrom(list_block, i)) <= report.counts[i].blocks
    BY DEF CountsInv, Credited, BlocksOf
  <2>2. \A i : Cardinality(RulesFrom(list_block, i)) \in Nat
    BY <2>1, RulesFromType
  <2>3. CASE list_block' = list_block
    <3>1. ASSUME NEW i \in DOMAIN report'.counts
          PROVE  Cardinality(RulesFrom(list_block, i)) <= report'.counts[i].blocks
      <4>1. CASE i = at.source
        <5>1. Cardinality(RulesFrom(list_block, at.source)) <= n.blocks
          BY <1>1, <2>1 DEF n
        <5>2. m.blocks = n.blocks \/ m.blocks = n.blocks + 1
          BY <1>2, <1>3
        <5> QED BY <1>3, <2>2, <4>1, <5>1, <5>2 DEF m
      <4>2. CASE i # at.source
        BY <1>1, <1>4, <2>1, <4>2
      <4> QED BY <4>1, <4>2
    <3> QED BY <1>0, <2>1, <2>3, <3>1 DEF Credited, BlocksOf, RulesFrom
  <2>4. CASE "blocks" \in kinds /\ list_block' = Entered(list_block, Current.host)
    <3> DEFINE new == Entered(list_block, Current.host)
    <3>1. /\ IsFiniteSet(DOMAIN new)
          /\ \A h \in DOMAIN new : (h \in DOMAIN list_block /\ new[h] = list_block[h]) \/ new[h] = at
          /\ \A i : i # at.source => RulesFrom(new, i) = RulesFrom(list_block, i)
          /\ Cardinality(RulesFrom(new, at.source)) <= Cardinality(RulesFrom(list_block, at.source)) + 1
      <4>1. IsFiniteSet(DOMAIN list_block)
        BY <2>1
      <4>2. /\ IsFiniteSet(DOMAIN new)
            /\ \A h \in DOMAIN new :
                 \/ h \in DOMAIN list_block /\ new[h] = list_block[h]
                 \/ h = Current.host /\ new[h] = at
            /\ \A i : i # at.source => RulesFrom(new, i) = RulesFrom(list_block, i)
            /\ Cardinality(RulesFrom(new, at.source)) <= Cardinality(RulesFrom(list_block, at.source)) + 1
        BY <4>1, EnteredEffect
      <4> HIDE DEF new
      <4> QED BY <4>2
    <3>2. \A i : Cardinality(RulesFrom(new, i)) \in Nat
      BY <3>1, RulesFromType
    <3> HIDE DEF new
    <3>3. ASSUME NEW i \in DOMAIN report'.counts
          PROVE  Cardinality(RulesFrom(new, i)) <= report'.counts[i].blocks
      <4>1. CASE i = at.source
        <5>1. Cardinality(RulesFrom(list_block, at.source)) <= n.blocks
          BY <1>1, <2>1 DEF n
        <5>2. m.blocks = n.blocks + 1
          BY <1>2, <2>4
        <5> QED BY <1>3, <2>2, <3>1, <3>2, <4>1, <5>1, <5>2 DEF m
      <4>2. CASE i # at.source
        BY <1>1, <1>4, <2>1, <3>1, <4>2
      <4> QED BY <4>1, <4>2
    <3>4. \A h \in DOMAIN new : new[h].source \in DOMAIN Lists
      BY <1>1, <2>1, <3>1
    <3>5. list_block' = new
      BY <2>4 DEF new
    <3> QED BY <1>0, <3>1, <3>3, <3>4, <3>5 DEF Credited, BlocksOf, RulesFrom
  <2> QED BY <2>3, <2>4 DEF LineRead
<1>9. Credited(list_allow, AllowsOf)'
  <2>1. /\ IsFiniteSet(DOMAIN list_allow)
        /\ \A h \in DOMAIN list_allow : list_allow[h].source \in DOMAIN Lists
        /\ \A i \in DOMAIN report.counts :
             Cardinality(RulesFrom(list_allow, i)) <= report.counts[i].allows + report.counts[i].conservative
    BY DEF CountsInv, Credited, AllowsOf
  <2>2. \A i : Cardinality(RulesFrom(list_allow, i)) \in Nat
    BY <2>1, RulesFromType
  <2>3. CASE list_allow' = list_allow
    <3>1. ASSUME NEW i \in DOMAIN report'.counts
          PROVE  Cardinality(RulesFrom(list_allow, i)) <=
                   report'.counts[i].allows + report'.counts[i].conservative
      <4>1. CASE i = at.source
        <5>1. Cardinality(RulesFrom(list_allow, at.source)) <= n.allows + n.conservative
          BY <1>1, <2>1 DEF n
        <5>2. One("allows") \in Nat /\ One("conservative") \in Nat
          OBVIOUS
        <5> HIDE DEF One
        <5>3. m.allows + m.conservative >= n.allows + n.conservative
          BY <1>2, <1>3, <5>2
        <5>4. m.allows \in Nat /\ m.conservative \in Nat
          BY <1>2, <1>3, <5>2
        <5> QED BY <1>3, <2>2, <4>1, <5>1, <5>3, <5>4 DEF m
      <4>2. CASE i # at.source
        BY <1>1, <1>4, <2>1, <4>2
      <4> QED BY <4>1, <4>2
    <3> QED BY <1>0, <2>1, <2>3, <3>1 DEF Credited, AllowsOf, RulesFrom
  <2>4. CASE kinds \cap {"allows", "conservative"} # {} /\ list_allow' = Entered(list_allow, Current.host)
    <3> DEFINE new == Entered(list_allow, Current.host)
    <3>1. /\ IsFiniteSet(DOMAIN new)
          /\ \A h \in DOMAIN new : (h \in DOMAIN list_allow /\ new[h] = list_allow[h]) \/ new[h] = at
          /\ \A i : i # at.source => RulesFrom(new, i) = RulesFrom(list_allow, i)
          /\ Cardinality(RulesFrom(new, at.source)) <= Cardinality(RulesFrom(list_allow, at.source)) + 1
      <4>1. IsFiniteSet(DOMAIN list_allow)
        BY <2>1
      <4>2. /\ IsFiniteSet(DOMAIN new)
            /\ \A h \in DOMAIN new :
                 \/ h \in DOMAIN list_allow /\ new[h] = list_allow[h]
                 \/ h = Current.host /\ new[h] = at
            /\ \A i : i # at.source => RulesFrom(new, i) = RulesFrom(list_allow, i)
            /\ Cardinality(RulesFrom(new, at.source)) <= Cardinality(RulesFrom(list_allow, at.source)) + 1
        BY <4>1, EnteredEffect
      <4> HIDE DEF new
      <4> QED BY <4>2
    <3>2. \A i : Cardinality(RulesFrom(new, i)) \in Nat
      BY <3>1, RulesFromType
    <3>3. One("allows") + One("conservative") >= 1 /\ One("allows") \in Nat /\ One("conservative") \in Nat
      BY <2>4
    <3> HIDE DEF new, One
    <3>4. ASSUME NEW i \in DOMAIN report'.counts
          PROVE  Cardinality(RulesFrom(new, i)) <=
                   report'.counts[i].allows + report'.counts[i].conservative
      <4>1. CASE i = at.source
        <5>1. Cardinality(RulesFrom(list_allow, at.source)) <= n.allows + n.conservative
          BY <1>1, <2>1 DEF n
        <5>2. m.allows + m.conservative >= n.allows + n.conservative + 1
          BY <1>2, <1>3, <3>3
        <5>3. m.allows \in Nat /\ m.conservative \in Nat
          BY <1>2, <1>3, <3>3
        <5> QED BY <1>3, <2>2, <3>1, <3>2, <4>1, <5>1, <5>2, <5>3 DEF m
      <4>2. CASE i # at.source
        BY <1>1, <1>4, <2>1, <3>1, <4>2
      <4> QED BY <4>1, <4>2
    <3>5. \A h \in DOMAIN new : new[h].source \in DOMAIN Lists
      BY <1>1, <2>1, <3>1
    <3>6. list_allow' = new
      BY <2>4 DEF new
    <3> QED BY <1>0, <3>1, <3>4, <3>5, <3>6 DEF Credited, AllowsOf, RulesFrom
  <2> QED BY <2>3, <2>4 DEF LineRead
<1>10. RowsMade' /\ NothingCounted'
  BY <1>0 DEF RowsMade, NothingCounted
<1> QED
  BY <1>5, <1>6, <1>7, <1>8, <1>9, <1>10 DEF CountsInv

LEMMA RulesOfType ==
  ASSUME NEW rules, IsFiniteSet(DOMAIN rules), NEW i
  PROVE  RulesOf(rules, i) \in Nat
<1> DEFINE A == {h \in DOMAIN rules : FoundByName(rules[h]) = i}
<1>1. A \in SUBSET DOMAIN rules
  OBVIOUS
<1> HIDE DEF A
<1>2. Cardinality(A) \in Nat
  BY <1>1, FS_Subset, FS_CardinalityType
<1> QED BY <1>2 DEF A, RulesOf

LEMMA CountsAtStart == Init => CountsInv
<1> SUFFICES ASSUME Init PROVE CountsInv
  OBVIOUS
<1>1. /\ at = [source |-> 1, line |-> 1] /\ phase = "start" /\ suppressed = FALSE
      /\ DOMAIN list_allow = {} /\ DOMAIN list_block = {} /\ report = EmptyReport
  BY DEF Init
<1>2. /\ report.counts = << >> /\ report.reasons = << >> /\ report.diagnostics = << >>
      /\ report.diagnosticsTotal = 0
  BY <1>1 DEF EmptyReport
<1>3. report \in ReportType
  <2>1. << >> \in Seq(Counts) /\ << >> \in Seq(Place) /\ << >> \in Seq(Row)
    OBVIOUS
  <2> QED BY <1>1, <2>1 DEF EmptyReport, ReportType
<1>4. SamplesOK
  BY <1>1, <1>2, InputsAssumption DEF SamplesOK
<1>5. TypeInv
  BY <1>1, <1>3, <1>4 DEF TypeInv, Place, RuleMap
<1>6. at.source = 1 /\ at.line = 1
  BY <1>1
<1>7. LinesCounted
  <2>1. at.source <= Len(Lists) => at.line <= Len(Lists[at.source].lines) + 1
    <3> SUFFICES ASSUME 1 <= Len(Lists) PROVE 1 <= Len(Lists[1].lines) + 1
      BY <1>6
    <3>1. input \in Inputs
      BY DEF Init
    <3>2. 1 \in DOMAIN Lists
      BY <3>1, InputTypes
    <3>3. Len(Lists[1].lines) \in Nat
      BY <3>1, <3>2, InputTypes
    <3> QED BY <3>3
  <2> QED BY <1>1, <1>2, <2>1 DEF LinesCounted, Read
<1>8. OmissionsCounted
  <2>1. DOMAIN Of("unsupported") = {}
    BY <1>2 DEF Of
  <2> QED BY <1>2, <2>1, TotalOfZeros DEF OmissionsCounted
<1>9. Credited(list_block, BlocksOf) /\ Credited(list_allow, AllowsOf)
  BY <1>1, <1>2, FS_EmptySet DEF Credited
<1> QED
  BY <1>1, <1>5, <1>7, <1>8, <1>9 DEF CountsInv, RowsMade, NothingCounted

\* Nothing is counted when neither the report nor what it is about changes.
LEMMA CountsKept ==
  ASSUME CountsInv, UNCHANGED <<input, at, list_allow, list_block, suppressed, report>>,
         phase' = phase \/ phase' = "refused"
  PROVE  CountsInv'
<1>1. Lists' = Lists
  BY DEF Lists
<1>2. TypeInv'
  BY DEF CountsInv, TypeInv, SamplesOK, RuleMap
<1>3. LinesCounted' /\ OmissionsCounted'
  BY <1>1 DEF CountsInv, LinesCounted, OmissionsCounted, ReadOf, Of, Read, Total, Units
<1>4. Credited(list_block, BlocksOf)' /\ Credited(list_allow, AllowsOf)'
  BY <1>1 DEF CountsInv, Credited, BlocksOf, AllowsOf, RulesFrom
<1>5. RowsMade' /\ NothingCounted'
  BY <1>1 DEF CountsInv, RowsMade, NothingCounted, RulesOf, FoundByName
<1> QED BY <1>2, <1>3, <1>4, <1>5 DEF CountsInv

LEMMA CountsOnBegin ==
  ASSUME InputOK, NothingRead, CountsInv, Begin
  PROVE  CountsInv'
<1> DEFINE zeros == [i \in DOMAIN Lists |-> NoCounts]
<1>1. /\ phase = "start" /\ phase' = "reading" /\ report' = [report EXCEPT !.counts = zeros]
      /\ input' = input /\ at' = at /\ list_allow' = list_allow /\ list_block' = list_block
      /\ suppressed' = suppressed /\ Lists' = Lists
      /\ at.source = 1 /\ at.line = 1 /\ TypeInv
      /\ report = EmptyReport /\ DOMAIN list_block = {} /\ DOMAIN list_allow = {}
  BY DEF Begin, NothingRead, Lists, CountsInv, NothingCounted
<1>2. DOMAIN zeros = DOMAIN Lists /\ \A i \in DOMAIN zeros : zeros[i] = NoCounts
  OBVIOUS
<1>3. zeros \in Seq(Counts)
  <2>1. NoCounts \in Counts
    <3>1. NoCounts = [k \in DOMAIN NoCounts |-> NoCounts[k]] /\ \A k \in DOMAIN NoCounts : NoCounts[k] = 0
      BY DEF NoCounts
    <3> QED BY <3>1 DEF Counts
  <2>2. Lists \in Seq(Source)
    BY InputTypes DEF InputOK
  <2>3. DOMAIN Lists = 1 .. Len(Lists) /\ Len(Lists) \in Nat
    BY <2>2
  <2>4. zeros \in [1 .. Len(Lists) -> Counts]
    BY <2>1, <2>3
  <2> QED BY <2>3, <2>4
<1> HIDE DEF zeros
<1>4. /\ report' \in ReportType /\ report'.counts = zeros /\ report'.reasons = report.reasons
      /\ report'.diagnostics = report.diagnostics
      /\ report'.diagnosticsTotal = report.diagnosticsTotal
  <2>1. report \in ReportType
    BY <1>1 DEF TypeInv
  <2> QED BY <1>1, <1>3, <2>1 DEF ReportType
<1>5. TypeInv'
  BY <1>1, <1>4 DEF TypeInv, SamplesOK, RuleMap
<1>6. LinesCounted'
  <2>1. ASSUME NEW i \in DOMAIN zeros
        PROVE  /\ zeros[i].lines = ReadOf(i)
               /\ zeros[i].lines = zeros[i].blocks + zeros[i].allows + zeros[i].ignored + zeros[i].unsupported
    <3>1. zeros[i].lines = 0
      BY <1>2 DEF NoCounts
    <3>2. i \in Nat /\ i > 0
      BY <1>2, InputTypes DEF InputOK
    <3>3. ReadOf(i) = 0
      BY <1>1, <3>2 DEF ReadOf
    <3> QED BY <1>2, <3>1, <3>3 DEF NoCounts
  <2>2. \A i : ReadOf(i)' = ReadOf(i)
    BY <1>1 DEF ReadOf
  <2>3. at.source <= Len(Lists) => at.line <= Len(Lists[at.source].lines) + 1
    BY DEF CountsInv, LinesCounted
  <2> QED BY <1>1, <1>2, <1>4, <2>1, <2>2, <2>3 DEF LinesCounted
<1>7. OmissionsCounted'
  <2> DEFINE g == [i \in DOMAIN zeros |-> zeros[i]["unsupported"]]
  <2>1. \A i \in DOMAIN g : g[i] = 0
    BY <1>2 DEF NoCounts
  <2>2. Of("unsupported")' = g
    BY <1>4 DEF Of
  <2> HIDE DEF g
  <2>3. IsFiniteSet(Units(g)) /\ Total(g) = 0
    BY <2>1, TotalOfZeros
  <2>4. report'.diagnosticsTotal = 0
    BY <1>1, <1>4 DEF EmptyReport
  <2> QED BY <2>2, <2>3, <2>4 DEF OmissionsCounted, Total, Units
<1>8. Credited(list_block, BlocksOf)' /\ Credited(list_allow, AllowsOf)'
  <2>1. \A i : RulesFrom(list_block, i) = {} /\ RulesFrom(list_allow, i) = {}
    BY <1>1 DEF RulesFrom
  <2>2. Cardinality({}) = 0 /\ IsFiniteSet({})
    BY FS_EmptySet
  <2>3. \A i \in DOMAIN zeros : zeros[i].blocks = 0 /\ zeros[i].allows + zeros[i].conservative = 0
    BY <1>2 DEF NoCounts
  <2>4. DOMAIN list_block' = {} /\ DOMAIN list_allow' = {}
    BY <1>1
  <2>5. \A i : RulesFrom(list_block', i) = {} /\ RulesFrom(list_allow', i) = {}
    BY <2>4 DEF RulesFrom
  <2>6. \A i \in DOMAIN report'.counts :
          /\ Cardinality(RulesFrom(list_block', i)) <= report'.counts[i].blocks
          /\ Cardinality(RulesFrom(list_allow', i)) <= report'.counts[i].allows + report'.counts[i].conservative
    BY <1>4, <2>2, <2>3, <2>5
  <2>7. \A i \in DOMAIN report'.counts :
          /\ Cardinality(RulesFrom(list_block, i)') <= report'.counts[i].blocks
          /\ Cardinality(RulesFrom(list_allow, i)') <= report'.counts[i].allows + report'.counts[i].conservative
    BY <2>6 DEF RulesFrom
  <2>8. Credited(list_block, BlocksOf)'
    BY <2>2, <2>4, <2>7 DEF Credited, BlocksOf
  <2>9. Credited(list_allow, AllowsOf)'
    BY <2>2, <2>4, <2>7 DEF Credited, AllowsOf
  <2> QED BY <2>8, <2>9
<1> QED
  BY <1>1, <1>5, <1>6, <1>7, <1>8 DEF CountsInv, RowsMade, NothingCounted

LEMMA CountsOnNextSource ==
  ASSUME InputOK, CountsInv, NextSource
  PROVE  CountsInv'
<1>1. /\ phase = "reading" /\ phase' = phase /\ input' = input /\ report' = report
      /\ list_allow' = list_allow /\ list_block' = list_block /\ suppressed' = suppressed
      /\ Lists' = Lists /\ at.source \in Nat /\ at.line \in Nat /\ at.source > 0
      /\ at.source <= Len(Lists) /\ at.line > Len(Lists[at.source].lines)
      /\ at' = [source |-> at.source + 1, line |-> 1]
      /\ at'.source = at.source + 1 /\ at'.line = 1 /\ at' \in Place
  BY DEF NextSource, InputOK, Lists, Place
<1>2. /\ at.source \in DOMAIN Lists
      /\ \A i \in DOMAIN Lists : i \in Nat /\ Len(Lists[i].lines) \in Nat
      /\ \A i \in Nat : i > 0 /\ i <= Len(Lists) => i \in DOMAIN Lists
  BY <1>1, InputTypes DEF InputOK
<1>3. at.line = Len(Lists[at.source].lines) + 1
  <2>1. at.source <= Len(Lists) => at.line <= Len(Lists[at.source].lines) + 1
    BY DEF CountsInv, LinesCounted
  <2> QED BY <1>1, <1>2, <2>1
<1>4. TypeInv'
  BY <1>1 DEF CountsInv, TypeInv, SamplesOK, RuleMap
<1>5. \A i \in DOMAIN Lists : ReadOf(i)' = ReadOf(i)
  <2> SUFFICES ASSUME NEW i \in DOMAIN Lists PROVE ReadOf(i)' = ReadOf(i)
    OBVIOUS
  <2>1. CASE i < at.source
    BY <1>1, <1>2, <2>1 DEF ReadOf
  <2>2. CASE i = at.source
    BY <1>1, <1>2, <1>3, <2>2 DEF ReadOf
  <2>3. CASE i > at.source
    BY <1>1, <1>2, <2>3 DEF ReadOf
  <2> QED BY <1>1, <1>2, <2>1, <2>2, <2>3
<1>6. LinesCounted'
  <2>1. DOMAIN report.counts = DOMAIN Lists
    BY <1>1 DEF CountsInv, LinesCounted, Read
  <2>2. at'.source <= Len(Lists) => at'.line <= Len(Lists[at'.source].lines) + 1
    BY <1>1, <1>2
  <2> QED BY <1>1, <1>5, <2>1, <2>2 DEF CountsInv, LinesCounted
<1>7. OmissionsCounted'
  BY <1>1 DEF CountsInv, OmissionsCounted, Of, Total, Units
<1>8. Credited(list_block, BlocksOf)' /\ Credited(list_allow, AllowsOf)'
  <2>1. /\ report' = report /\ Lists' = Lists
        /\ list_allow' = list_allow /\ list_block' = list_block
    BY <1>1
  <2>2. Credited(list_block, BlocksOf) => Credited(list_block, BlocksOf)'
    BY <2>1 DEF Credited, BlocksOf, RulesFrom
  <2>3. Credited(list_allow, AllowsOf) => Credited(list_allow, AllowsOf)'
    BY <2>1 DEF Credited, AllowsOf, RulesFrom
  <2> QED BY <2>2, <2>3 DEF CountsInv
<1> QED
  BY <1>1, <1>4, <1>6, <1>7, <1>8 DEF CountsInv, RowsMade, NothingCounted

LEMMA CountsOnFinish ==
  ASSUME InputOK, CountsInv, Finish
  PROVE  CountsInv'
<1> DEFINE rows == [i \in DOMAIN Lists |->
             [candidates |-> RulesOf(list_block, i),
              effective |-> IF suppressed THEN 0 ELSE RulesOf(list_block, i),
              allows |-> RulesOf(list_allow, i)]]
<1>1. /\ phase = "reading" /\ phase' = "done" /\ input' = input /\ at' = at /\ Lists' = Lists
      /\ list_allow' = list_allow /\ list_block' = list_block /\ suppressed' = suppressed
      /\ report' = [report EXCEPT !.rules = rows] /\ TypeInv
  BY DEF Finish, Lists, CountsInv
<1>2. rows \in Seq(Row)
  <2>1. IsFiniteSet(DOMAIN list_block) /\ IsFiniteSet(DOMAIN list_allow)
    BY DEF CountsInv, Credited
  <2>2. \A i : RulesOf(list_block, i) \in Nat /\ RulesOf(list_allow, i) \in Nat
    BY <2>1, RulesOfType
  <2>3. Lists \in Seq(Source)
    BY InputTypes DEF InputOK
  <2>4. DOMAIN Lists = 1 .. Len(Lists) /\ Len(Lists) \in Nat
    BY <2>3
  <2>5. rows \in [1 .. Len(Lists) -> Row]
    BY <2>2, <2>4 DEF Row
  <2> QED BY <2>4, <2>5
<1>3. RowsMade'
  <2>1. report'.rules = rows
    <3>1. report \in ReportType
      BY <1>1 DEF TypeInv
    <3> HIDE DEF rows
    <3> QED BY <1>1, <3>1 DEF ReportType
  <2>2. \A i : RulesOf(list_block, i)' = RulesOf(list_block, i) /\ RulesOf(list_allow, i)' = RulesOf(list_allow, i)
    BY <1>1 DEF RulesOf, FoundByName
  <2> QED BY <1>1, <2>1, <2>2 DEF RowsMade
<1> HIDE DEF rows
<1>4. /\ report' \in ReportType /\ report'.counts = report.counts /\ report'.reasons = report.reasons
      /\ report'.diagnostics = report.diagnostics
      /\ report'.diagnosticsTotal = report.diagnosticsTotal
  <2>1. report \in ReportType
    BY <1>1 DEF TypeInv
  <2> QED BY <1>1, <1>2, <2>1 DEF ReportType
<1>5. TypeInv'
  BY <1>1, <1>4 DEF TypeInv, SamplesOK, RuleMap
<1>6. LinesCounted'
  <2>1. DOMAIN report.counts = DOMAIN Lists
    BY <1>1 DEF CountsInv, LinesCounted, Read
  <2> QED BY <1>1, <1>4, <2>1 DEF CountsInv, LinesCounted, ReadOf
<1>7. OmissionsCounted'
  <2>1. Of("unsupported")' = Of("unsupported")
    BY <1>4 DEF Of
  <2> QED BY <1>4, <2>1 DEF CountsInv, OmissionsCounted, Total, Units
<1>8. Credited(list_block, BlocksOf)' /\ Credited(list_allow, AllowsOf)'
  BY <1>1, <1>4 DEF CountsInv, Credited, BlocksOf, AllowsOf, RulesFrom
<1> QED
  BY <1>1, <1>3, <1>5, <1>6, <1>7, <1>8 DEF CountsInv, NothingCounted

THEOREM Counting == Spec => []CountsInv
<1>1. IInv /\ CountsInv /\ [Next]_vars => CountsInv'
  <2> SUFFICES ASSUME IInv, CountsInv, [Next]_vars PROVE CountsInv'
    OBVIOUS
  <2>0. InputOK /\ NothingRead /\ TypeInv /\ LinesCounted
    BY DEF IInv, CountsInv
  <2>1. CASE Refuse
    BY <2>1, CountsKept DEF Refuse
  <2>2. CASE Begin
    BY <2>0, <2>2, CountsOnBegin
  <2>3. CASE Ignore \/ TakeAllow \/ TakeBlock \/ Suppress \/ Protect \/ Omit
    <3>1. SamplesOK' /\ suppressed' \in BOOLEAN /\ \E kinds \in KindSets : LineRead(kinds)
      BY <2>0, <2>3, LinesAreRead
    <3>2. PICK kinds \in KindSets : LineRead(kinds)
      BY <3>1
    <3> QED BY <2>0, <3>1, <3>2, CountsOnLine
  <2>4. CASE NextSource
    BY <2>0, <2>4, CountsOnNextSource
  <2>5. CASE Finish
    BY <2>0, <2>5, CountsOnFinish
  <2>6. CASE UNCHANGED vars
    BY <2>6, CountsKept DEF vars
  <2> QED BY <2>1, <2>2, <2>3, <2>4, <2>5, <2>6 DEF Next
<1> QED
  BY <1>1, CountsAtStart, Invariance, PTL DEF Spec

\* A rule's source is the one its place tells: names of sources are unique.
LEMMA FoundIsOwn ==
  ASSUME input \in Inputs, Acceptable(input), NEW place, place.source \in DOMAIN Lists
  PROVE  FoundByName(place) = place.source
<1>1. \A i, j \in DOMAIN Lists : Lists[i].name = Lists[j].name => i = j
  BY DEF Acceptable, Lists
<1> DEFINE Good(i) == /\ i \in DOMAIN Lists /\ Lists[i].name = Lists[place.source].name
                      /\ \A j \in DOMAIN Lists : Lists[j].name = Lists[i].name => i <= j
<1>2. Good(place.source)
  <2>1. place.source \in Nat
    BY InputTypes
  <2> QED BY <1>1, <2>1
<1>3. Good(CHOOSE i : Good(i))
  <2> HIDE DEF Good
  <2> QED BY <1>2
<1>4. FoundByName(place) = CHOOSE i : Good(i)
  BY DEF FoundByName
<1> QED
  BY <1>1, <1>3, <1>4

\* Per-source coverage is attributable (DnsPolicy::compile, CompileReport): every line of a
\* source is counted once, no source is credited with more rules than lines it has that ask
\* for one, and the rules of all sources together are those of the maps.
LEMMA CountsAddUpNow == IInv /\ CountsInv => CountsAddUp
<1> SUFFICES ASSUME IInv, CountsInv, phase = "done" PROVE CountsAddUp
  BY DEF CountsAddUp
<1>1. /\ Acceptable(input) /\ at.source > Len(Lists) /\ at.source \in Nat /\ input \in Inputs
      /\ DOMAIN report.counts = DOMAIN Lists
  BY DEF IInv, InputOK, Read, CountsInv, LinesCounted
<1>2. \A i \in DOMAIN Lists : ReadOf(i) = Len(Lists[i].lines)
  <2>1. \A i \in DOMAIN Lists : i \in Nat /\ i <= Len(Lists)
    BY <1>1, InputTypes
  <2>2. Len(Lists) \in Nat
    BY <1>1, InputTypes
  <2> QED BY <1>1, <2>1, <2>2 DEF ReadOf
<1>3. ASSUME NEW rules, \A h \in DOMAIN rules : rules[h].source \in DOMAIN Lists
      PROVE  \A i : RulesOf(rules, i) = Cardinality(RulesFrom(rules, i))
  <2>1. \A h \in DOMAIN rules : FoundByName(rules[h]) = rules[h].source
    BY <1>1, <1>3, FoundIsOwn
  <2>2. \A i : {h \in DOMAIN rules : FoundByName(rules[h]) = i} = RulesFrom(rules, i)
    BY <2>1 DEF RulesFrom
  <2> QED BY <2>2 DEF RulesOf
<1>4. ASSUME NEW rules, \A h \in DOMAIN rules : rules[h].source \in DOMAIN Lists,
             IsFiniteSet(DOMAIN rules)
      PROVE  Total([i \in DOMAIN Lists |-> RulesOf(rules, i)]) = Cardinality(DOMAIN rules)
  <2> DEFINE D == DOMAIN rules
             c == [h \in D |-> rules[h].source]
             f == [i \in DOMAIN Lists |-> Cardinality({h \in D : c[h] = i})]
  <2>1. \A h \in D : c[h] \in DOMAIN Lists
    BY <1>4
  <2>2. Total(f) = Cardinality(D)
    <3> HIDE DEF c, D
    <3>1. IsFiniteSet(D)
      BY <1>4 DEF D
    <3> QED BY <2>1, <3>1, TotalOfParts
  <2>3. \A i : {h \in D : c[h] = i} = RulesFrom(rules, i)
    BY DEF RulesFrom
  <2>4. \A i \in DOMAIN Lists : Cardinality({h \in D : c[h] = i}) = RulesOf(rules, i)
    BY <1>3, <1>4, <2>3
  <2>5. f = [i \in DOMAIN Lists |-> RulesOf(rules, i)]
    BY <2>4
  <2> QED BY <2>2, <2>5
<1>5. /\ IsFiniteSet(DOMAIN list_block) /\ IsFiniteSet(DOMAIN list_allow)
      /\ \A h \in DOMAIN list_block : list_block[h].source \in DOMAIN Lists
      /\ \A h \in DOMAIN list_allow : list_allow[h].source \in DOMAIN Lists
      /\ \A i \in DOMAIN Lists :
           /\ Cardinality(RulesFrom(list_block, i)) <= report.counts[i].blocks
           /\ Cardinality(RulesFrom(list_allow, i)) <= report.counts[i].allows + report.counts[i].conservative
  BY <1>1 DEF CountsInv, Credited, BlocksOf, AllowsOf
<1>6. /\ \A i : RulesOf(list_block, i) = Cardinality(RulesFrom(list_block, i))
      /\ \A i : RulesOf(list_allow, i) = Cardinality(RulesFrom(list_allow, i))
  BY <1>3, <1>5
<1>7. \A i \in DOMAIN Lists :
        /\ report.rules[i].candidates = RulesOf(list_block, i)
        /\ report.rules[i].effective = IF suppressed THEN 0 ELSE RulesOf(list_block, i)
        /\ report.rules[i].allows = RulesOf(list_allow, i)
  BY DEF CountsInv, RowsMade
<1>8. \A i \in DOMAIN Lists :
        LET n == report.counts[i]
            r == report.rules[i]
        IN  /\ n.lines = Len(Lists[i].lines)
            /\ n.lines = n.blocks + n.allows + n.ignored + n.unsupported
            /\ r.candidates <= n.blocks /\ r.allows <= n.allows + n.conservative
            /\ r.effective = IF suppressed THEN 0 ELSE r.candidates
  <2> SUFFICES ASSUME NEW i \in DOMAIN Lists
               PROVE  LET n == report.counts[i]
                          r == report.rules[i]
                      IN  /\ n.lines = Len(Lists[i].lines)
                          /\ n.lines = n.blocks + n.allows + n.ignored + n.unsupported
                          /\ r.candidates <= n.blocks /\ r.allows <= n.allows + n.conservative
                          /\ r.effective = IF suppressed THEN 0 ELSE r.candidates
    OBVIOUS
  <2>1. LET n == report.counts[i]
        IN  n.lines = ReadOf(i) /\ n.lines = n.blocks + n.allows + n.ignored + n.unsupported
    BY <1>1 DEF CountsInv, LinesCounted
  <2>2. ReadOf(i) = Len(Lists[i].lines)
    BY <1>2
  <2>3. /\ report.rules[i].candidates <= report.counts[i].blocks
        /\ report.rules[i].allows <= report.counts[i].allows + report.counts[i].conservative
        /\ report.rules[i].effective = IF suppressed THEN 0 ELSE report.rules[i].candidates
    BY <1>5, <1>6, <1>7
  <2> QED BY <2>1, <2>2, <2>3
<1>9. Total([i \in DOMAIN Lists |-> report.rules[i].candidates]) = Cardinality(DOMAIN list_block)
  <2>1. [i \in DOMAIN Lists |-> report.rules[i].candidates] = [i \in DOMAIN Lists |-> RulesOf(list_block, i)]
    BY <1>7
  <2>2. Total([i \in DOMAIN Lists |-> RulesOf(list_block, i)]) = Cardinality(DOMAIN list_block)
    BY <1>4, <1>5
  <2> QED BY <2>1, <2>2
<1>10. Total([i \in DOMAIN Lists |-> report.rules[i].allows]) = Cardinality(DOMAIN list_allow)
  <2>1. [i \in DOMAIN Lists |-> report.rules[i].allows] = [i \in DOMAIN Lists |-> RulesOf(list_allow, i)]
    BY <1>7
  <2>2. Total([i \in DOMAIN Lists |-> RulesOf(list_allow, i)]) = Cardinality(DOMAIN list_allow)
    BY <1>4, <1>5
  <2> QED BY <2>1, <2>2
<1> QED
  BY <1>8, <1>9, <1>10 DEF CountsAddUp

\* For any lists, the coverage reported for each source is its own.
THEOREM CoverageIsAttributable == Spec => []CountsAddUp
  BY Invariance, Counting, CountsAddUpNow, PTL

\* Whatever is left out is counted, and there is a reason in the report whenever the
\* lists' blocks are suppressed (suppress_list_blocks, push_diagnostic).
LEMMA OmissionsReportedNow == IInv /\ CountsInv => OmissionsReported
<1> SUFFICES ASSUME IInv, CountsInv PROVE OmissionsReported
  OBVIOUS
<1>1. InputOK /\ TypeInv /\ report \in ReportType /\ SamplesOK
  BY DEF IInv, CountsInv, TypeInv
<1>2. TypeOK
  BY <1>1 DEF TypeOK, InputOK, TypeInv, ReportType, SamplesOK
<1>3. report.diagnosticsTotal = Total(Of("unsupported"))
  BY DEF CountsInv, OmissionsCounted
<1> QED
  BY <1>1, <1>2, <1>3 DEF OmissionsReported, SamplesOK

THEOREM NothingOmittedInSilence == Spec => []OmissionsReported
  BY Invariance, Counting, OmissionsReportedNow, PTL
=============================================================================
