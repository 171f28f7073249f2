------------------------------- MODULE DnsPolicy -------------------------------
(***************************************************************************)
(* The DNS server's policy: DnsPolicy::compile reads the lines of the      *)
(* filter sources one by one into two maps from host names to rules, and   *)
(* decide looks a name and its parent domains up in them.                  *)
(*                                                                         *)
(* DNS knows neither pages nor request types.  Only a plain ||host^ rule   *)
(* may block; every other exception is widened until it protects at least  *)
(* what it protects in a browser: its whole host, or, when it has none or  *)
(* is about pages, everything the lists block.                             *)
(*                                                                         *)
(* A host name is the sequence of its labels.  A line is what the code     *)
(* looks for in its text; source names and texts are data.                 *)
(***************************************************************************)
EXTENDS Integers, FiniteSets, Sequences

CONSTANTS
  None,
  Hosts,       \* normalized host names
  Lines,       \* the lines that occur
  Inputs,      \* what the server may be started with: [sources, allow, block]
  MAX_SOURCES,              \* 2 in the code
  MAX_USER_HOSTS,           \* 10,000 in the code
  MAX_DIAGNOSTICS,          \* 200 in the code
  MAX_SUPPRESSION_REASONS   \* 20 in the code

\* Modifiers after the $ by what they are to DNS: names of cosmetic exceptions,
\* conditions a cosmetic exception may have, document and the like, all others.
Options == {"badfilter", "cosmetic", "condition", "page", "other"}

\* exception: starts with @@; marker: holds ## or the like; plain: ||host^ and nothing
\* else; host: the name between || and the first separator, if there is one.
Line ==
  [kind : {"comment", "directive", "rule"}, exception : BOOLEAN, marker : BOOLEAN,
   plain : BOOLEAN, host : Hosts \cup {None}, options : SUBSET Options]

Source == [name : STRING, lines : Seq(Lines)]

ASSUME HostsAssumption ==
  /\ None \notin Hosts
  /\ \A h \in Hosts : h \in Seq(STRING)

ASSUME LinesAssumption ==
  /\ Lines \subseteq Line
  /\ \A l \in Lines : l.plain => l.kind = "rule" /\ ~l.marker /\ l.host # None /\ l.options = {}

ASSUME InputsAssumption ==
  /\ Inputs \subseteq [sources : Seq(Source), allow : Seq(Hosts \cup {None}),
                       block : Seq(Hosts \cup {None})]
  /\ {MAX_SOURCES, MAX_USER_HOSTS, MAX_DIAGNOSTICS, MAX_SUPPRESSION_REASONS} \subseteq Nat
  /\ MAX_SUPPRESSION_REASONS > 0

VARIABLES
  input,       \* the configuration and the texts of its lists
  phase,       \* "start", "reading", "done" or "refused"
  at,          \* the line to be read: [source, line], by position
  list_allow,  \* host -> the place of the rule: [source, line]
  list_block,
  suppressed,  \* list_blocks_suppressed
  report       \* [counts, reasons, reasonsTotal, diagnostics, diagnosticsTotal, rules]

vars == <<input, phase, at, list_allow, list_block, suppressed, report>>

Lists == input.sources
Current == Lists[at.source].lines[at.line]
AtLine == phase = "reading" /\ at.source <= Len(Lists) /\ at.line <= Len(Lists[at.source].lines)

-----------------------------------------------------------------------------
\* What a line is.

is_ignored(l) == l.kind = "comment" \/ (l.marker /\ ~l.exception)

cosmetic_only_exception(l) ==
  /\ l.exception
  /\ "cosmetic" \in l.options
  /\ l.options \subseteq {"cosmetic", "condition", "badfilter"}

has_badfilter(l) == "badfilter" \in l.options

page_level_exception(l) == l.exception /\ "page" \in l.options

Ignored(l) == l.kind # "directive" /\ (is_ignored(l) \/ cosmetic_only_exception(l))

\* A line that only takes blocks back, and more than one exact host's.
Unblocks(l) ==
  l.kind # "directive" /\ ~Ignored(l) /\ ~l.plain /\ (l.exception \/ has_badfilter(l))

\* Mutant: a page-wide exception protects the host in its pattern.
SuppressesHostless(l) == l.kind = "directive" \/ (Unblocks(l) /\ l.host = None)

Suppresses(l) ==
  \/ l.kind = "directive"
  \/ Unblocks(l) /\ (page_level_exception(l) \/ l.host = None)

-----------------------------------------------------------------------------
NoCounts ==
  [lines |-> 0, blocks |-> 0, allows |-> 0, conservative |-> 0, badfilters |-> 0,
   ignored |-> 0, unsupported |-> 0]

EmptyReport ==
  [counts |-> << >>, reasons |-> << >>, reasonsTotal |-> 0, diagnostics |-> << >>,
   diagnosticsTotal |-> 0, rules |-> << >>]

Init ==
  /\ input \in Inputs
  /\ phase = "start"
  /\ at = [source |-> 1, line |-> 1]
  /\ list_allow = << >> /\ list_block = << >>
  /\ suppressed = FALSE
  /\ report = EmptyReport

\* Mutant: two sources may have the same name.
AcceptableAnyNames(i) ==
  /\ Len(i.sources) <= MAX_SOURCES
  /\ Len(i.allow) <= MAX_USER_HOSTS /\ Len(i.block) <= MAX_USER_HOSTS
  /\ \A k \in DOMAIN i.allow : i.allow[k] # None
  /\ \A k \in DOMAIN i.block : i.block[k] # None

\* The checks before the first line, and those of compile_user_hosts.
Acceptable(i) ==
  /\ Len(i.sources) <= MAX_SOURCES
  /\ \A j, k \in DOMAIN i.sources : i.sources[j].name = i.sources[k].name => j = k
  /\ Len(i.allow) <= MAX_USER_HOSTS /\ Len(i.block) <= MAX_USER_HOSTS
  /\ \A k \in DOMAIN i.allow : i.allow[k] # None
  /\ \A k \in DOMAIN i.block : i.block[k] # None

Refuse ==
  /\ phase = "start" /\ ~Acceptable(input)
  /\ phase' = "refused"
  /\ UNCHANGED <<input, at, list_allow, list_block, suppressed, report>>

Begin ==
  /\ phase = "start" /\ Acceptable(input)
  /\ phase' = "reading"
  /\ report' = [report EXCEPT !.counts = [i \in DOMAIN Lists |-> NoCounts]]
  /\ UNCHANGED <<input, at, list_allow, list_block, suppressed>>

\* The line has been dealt with; it counts as each of the kinds.
Counted(r, kinds) ==
  LET all == kinds \cup {"lines"} \cup (IF Current.kind = "rule" /\ ~Ignored(Current) /\ has_badfilter(Current)
                                        THEN {"badfilters"} ELSE {})
  IN  [r EXCEPT !.counts[at.source] =
         [k \in DOMAIN NoCounts |-> IF k \in all THEN @[k] + 1 ELSE @[k]]]

Sampled(sample, limit) == IF Len(sample) < limit THEN Append(sample, at) ELSE sample

Diagnosed(r) ==
  [r EXCEPT !.diagnosticsTotal = @ + 1, !.diagnostics = Sampled(@, MAX_DIAGNOSTICS)]

\* Mutant: the reasons share their room with the diagnostics.
suppress_list_blocksShared(r) ==
  [r EXCEPT !.reasonsTotal = @ + 1,
            !.reasons = IF Len(r.diagnostics) < MAX_DIAGNOSTICS THEN Append(@, at) ELSE @]

suppress_list_blocks(r) ==
  [r EXCEPT !.reasonsTotal = @ + 1, !.reasons = Sampled(@, MAX_SUPPRESSION_REASONS)]

Advance ==
  /\ at' = [at EXCEPT !.line = @ + 1]
  /\ UNCHANGED <<input, phase>>

\* entry(host).or_insert: the first line keeps its place.
Entered(rules, host) ==
  [h \in DOMAIN rules \cup {host} |-> IF h \in DOMAIN rules THEN rules[h] ELSE at]

Ignore ==
  /\ AtLine /\ Ignored(Current)
  /\ report' = Counted(report, {"ignored"})
  /\ Advance
  /\ UNCHANGED <<list_allow, list_block, suppressed>>

TakeAllow ==
  /\ AtLine /\ ~Ignored(Current) /\ Current.plain /\ Current.exception
  /\ list_allow' = Entered(list_allow, Current.host)
  /\ report' = Counted(report, {"allows"})
  /\ Advance
  /\ UNCHANGED <<list_block, suppressed>>

TakeBlock ==
  /\ AtLine /\ ~Ignored(Current) /\ Current.plain /\ ~Current.exception
  /\ list_block' = Entered(list_block, Current.host)
  /\ report' = Counted(report, {"blocks"})
  /\ Advance
  /\ UNCHANGED <<list_allow, suppressed>>

\* A preprocessing directive, a page-wide exception or one without a host.
Suppress ==
  /\ AtLine /\ Suppresses(Current)
  /\ suppressed' = TRUE
  /\ report' = Diagnosed(Counted(suppress_list_blocks(report), {"unsupported"}))
  /\ Advance
  /\ UNCHANGED <<list_allow, list_block>>

\* Any other exception or badfilter protects its whole host.
Protect ==
  /\ AtLine /\ Unblocks(Current) /\ ~Suppresses(Current)
  /\ list_allow' = Entered(list_allow, Current.host)
  /\ report' = Diagnosed(Counted(report, {"unsupported", "conservative"}))
  /\ Advance
  /\ UNCHANGED <<list_block, suppressed>>

\* A block with conditions cannot be a DNS block.
Omit ==
  /\ AtLine /\ Current.kind = "rule"
  /\ ~Ignored(Current) /\ ~Unblocks(Current) /\ ~Current.plain
  /\ report' = Diagnosed(Counted(report, {"unsupported"}))
  /\ Advance
  /\ UNCHANGED <<list_allow, list_block, suppressed>>

NextSource ==
  /\ phase = "reading" /\ at.source <= Len(Lists)
  /\ at.line > Len(Lists[at.source].lines)
  /\ at' = [source |-> at.source + 1, line |-> 1]
  /\ UNCHANGED <<input, phase, list_allow, list_block, suppressed, report>>

\* The source a rule is counted for: the first one with its source's name.
FoundByName(place) ==
  CHOOSE i \in DOMAIN Lists :
    /\ Lists[i].name = Lists[place.source].name
    /\ \A j \in DOMAIN Lists : Lists[j].name = Lists[i].name => i <= j

RulesOf(rules, i) == Cardinality({h \in DOMAIN rules : FoundByName(rules[h]) = i})

Finish ==
  /\ phase = "reading" /\ at.source > Len(Lists)
  /\ phase' = "done"
  /\ report' = [report EXCEPT !.rules = [i \in DOMAIN Lists |->
       [candidates |-> RulesOf(list_block, i),
        effective |-> IF suppressed THEN 0 ELSE RulesOf(list_block, i),
        allows |-> RulesOf(list_allow, i)]]]
  /\ UNCHANGED <<input, at, list_allow, list_block, suppressed>>

Next ==
  \/ Refuse \/ Begin
  \/ Ignore \/ TakeAllow \/ TakeBlock \/ Suppress \/ Protect \/ Omit
  \/ NextSource \/ Finish

Spec == Init /\ [][Next]_vars

-----------------------------------------------------------------------------
\* Decisions.

Suffix(h, i) == SubSeq(h, i, Len(h))

\* Positions in h where a parent domain with a rule begins.
Matches(hosts, h) == {i \in 1 .. Len(h) : Suffix(h, i) \in hosts}

\* The rule of the longest parent domain that has one.
suffix_match(rules, h) ==
  LET found == Matches(DOMAIN rules, h)
  IN  IF found = {} THEN None
      ELSE rules[Suffix(h, CHOOSE i \in found : \A j \in found : i <= j)]

UserHosts(hosts) == {hosts[k] : k \in DOMAIN hosts}
UserRules(hosts) == [h \in UserHosts(hosts) |-> h]

\* The maps in the order in which they decide; the second and the last one block.
RuleMaps ==
  <<UserRules(input.allow), UserRules(input.block), list_allow,
    IF suppressed THEN << >> ELSE list_block>>

\* For a name that is not a valid host name, decide allows.
decide(h) ==
  LET hits == {m \in 1 .. 4 : h # None /\ Matches(DOMAIN RuleMaps[m], h) # {}}
      first == CHOOSE m \in hits : \A n \in hits : m <= n
  IN  IF hits = {} THEN [blocked |-> FALSE, rule |-> None]
      ELSE [blocked |-> first \in {2, 4}, rule |-> suffix_match(RuleMaps[first], h)]

-----------------------------------------------------------------------------
\* Properties.

Counts == [DOMAIN NoCounts -> Nat]
Place == [source : Nat, line : Nat]
RuleMap(m) == DOMAIN m \subseteq Hosts /\ \A h \in DOMAIN m : m[h] \in Place

\* Types; the samples of a report are bounded.
TypeOK ==
  /\ input \in Inputs
  /\ phase \in {"start", "reading", "done", "refused"}
  /\ at \in Place
  /\ RuleMap(list_allow) /\ RuleMap(list_block)
  /\ suppressed \in BOOLEAN
  /\ report.counts \in Seq(Counts)
  /\ report.diagnosticsTotal \in Nat /\ report.reasonsTotal \in Nat
  /\ report.diagnostics \in Seq(Place) /\ Len(report.diagnostics) <= MAX_DIAGNOSTICS
  /\ report.reasons \in Seq(Place) /\ Len(report.reasons) <= MAX_SUPPRESSION_REASONS

Covers(host, h) == \E i \in 1 .. Len(h) : Suffix(h, i) = host

LinesOf(i) == UNION {{i.sources[s].lines[k] : k \in DOMAIN i.sources[s].lines} : s \in DOMAIN i.sources}

\* Lines that may let a request through in a browser: exceptions and badfilters, but
\* neither element hiding rules nor exceptions from element hiding.
Weakens(l) ==
  /\ l.kind = "rule"
  /\ l.exception \/ (has_badfilter(l) /\ ~l.marker)
  /\ ~cosmetic_only_exception(l)

\* What they let through has names under their host, or any name.
Shields(l, h) ==
  \/ l.kind = "directive"
  \/ Weakens(l) /\ (page_level_exception(l) \/ l.host = None \/ Covers(l.host, h))

\* What the texts mean, whatever the order of sources and lines.
ShouldBlock(i, h) ==
  LET Named(hosts) == \E k \in DOMAIN hosts : Covers(hosts[k], h)
  IN  /\ ~Named(i.allow)
      /\ \/ Named(i.block)
         \/ /\ \E l \in LinesOf(i) : l.plain /\ ~l.exception /\ Covers(l.host, h)
            /\ ~\E l \in LinesOf(i) : Shields(l, h)

\* The user's names come first, allowed before blocked; a name is blocked by a list
\* only if no line of any list, before or after, could let a request to it through.
DecisionsByMeaning ==
  phase = "done" => \A h \in Hosts : decide(h).blocked <=> ShouldBlock(input, h)

\* The sum of the values: a pair for each unit of each of them.
Total(f) == Cardinality(UNION {{i} \X (1 .. f[i]) : i \in DOMAIN f})
Of(field) == [i \in DOMAIN report.counts |-> report.counts[i][field]]

\* Per-source coverage is attributable: every line counts once, and the rules a source
\* is credited with come from its own lines and add up to the compiled maps.
CountsAddUp ==
  phase = "done" =>
    /\ \A i \in DOMAIN Lists :
         LET n == report.counts[i]
             r == report.rules[i]
         IN  /\ n.lines = Len(Lists[i].lines)
             /\ n.lines = n.blocks + n.allows + n.ignored + n.unsupported
             /\ r.candidates <= n.blocks /\ r.allows <= n.allows + n.conservative
             /\ r.effective = IF suppressed THEN 0 ELSE r.candidates
    /\ Total([i \in DOMAIN Lists |-> report.rules[i].candidates]) = Cardinality(DOMAIN list_block)
    /\ Total([i \in DOMAIN Lists |-> report.rules[i].allows]) = Cardinality(DOMAIN list_allow)

\* Whatever is left out is reported: the sample of reasons is not empty when the lists'
\* blocks are suppressed, however full the diagnostics are, and both tell what is missing;
\* neither exceeds its limit (TypeOK has them).
OmissionsReported ==
  /\ TypeOK
  /\ phase = "done" =>
       /\ suppressed <=> report.reasons # << >>
       /\ report.diagnosticsTotal = Total(Of("unsupported"))
       /\ report.diagnosticsTotal > Len(report.diagnostics) => Len(report.diagnostics) = MAX_DIAGNOSTICS
=============================================================================
