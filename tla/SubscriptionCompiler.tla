------------------------- MODULE SubscriptionCompiler -------------------------
(***************************************************************************)
(* compile_subscriptions: filter lists are read line by line, and what has *)
(* been gathered becomes browser rules within a budget.                    *)
(*                                                                         *)
(* Lists are written for blockers with a richer language.  A blocking or   *)
(* hiding line that cannot be expressed is left out; an exception should   *)
(* not be, since the lines it tames are there.  It is widened to an allow  *)
(* rule for its URLs, and if these cannot be expressed nothing is blocked. *)
(* Only an exception with a # in its text is left out like any other line. *)
(*                                                                         *)
(* A line is what the code looks for in its text.  A URL pattern is a name *)
(* with the set of the URLs it matches.  The order of texts, by which some *)
(* of the equally ranked rules are dropped, may be any.                    *)
(***************************************************************************)
EXTENDS Integers, FiniteSets, SequencesExt, Compilation

CONSTANTS
  None,
  Sources,        \* the selected lists, in order
  Hosts,
  Covered,        \* host -> the domains it matches: itself and its parents
  Urls,
  HostOf,         \* URL -> host
  Patterns,
  Matched,        \* pattern -> URLs it matches, in any case
  MatchedCase,    \* pattern -> URLs it matches in its own case
  Anchor,         \* pattern -> host h if it begins ||h^ or ||h/, or None
  FullHost,       \* pattern -> host h if it is ||h^, or None
  Selectors,      \* supported ones
  ResourceTypes,  \* RESOURCE_TYPES, which leaves main_frame out
  Lines,          \* the lines that occur
  Budgets,
  MaxLines,       \* bound: lines in all lists together
  MAX_SCOPE,      \* 200 in the code: domains of a scope
  MAX_PACKED,     \* 1000: hosts of a packed rule
  MAX_COSMETIC,   \* 10,000
  MAX_DIAGNOSTICS,\* 200
  PER_REASON      \* 5: samples of a reason

\* Patterns that pattern_valid accepts; the others are regular expressions and the like.
CONSTANT Valid

\* domains and, after a ~, domains left out; wellformed: host_valid holds for all of them.
Scope == [wellformed : BOOLEAN, included : SUBSET Hosts, excluded : SUBSET Hosts]

FilterOptions ==
  {"match-case", "document", "elemhide", "generichide", "genericblock", "badfilter",
   "other"}  \* other: any modifier that restricts a filter and is not supported

\* types and not: resource types named without and with a ~; scope: of domain=, or None.
Filter ==
  [kind : {"filter"}, exception : BOOLEAN, pattern : Patterns, types : SUBSET ResourceTypes,
   not : SUBSET ResourceTypes, scope : Scope \cup {None}, options : SUBSET FilterOptions]

\* ## and #@#; selector None: not a supported one.
Cosmetic == [kind : {"hide", "unhide"}, scope : Scope, selector : Selectors \cup {None}]

\* What an @@ line with a # in it says, in its pattern as a rule.
Unread ==
  [kind : {"unread"}, exception : {TRUE}, pattern : Patterns, types : SUBSET ResourceTypes,
   not : SUBSET ResourceTypes, scope : Scope \cup {None}, options : SUBSET FilterOptions]

\* ignored: blank or a comment; long: over 2048 bytes, neither @@ nor #@#; extended: any
\* other line with a #, which is no exception.
Other == [kind : {"ignored", "long", "extended"}]

ASSUME LinesAssumption ==
  /\ Lines \subseteq Filter \cup Unread \cup Cosmetic \cup Other
  /\ Covered \in [Hosts -> SUBSET Hosts] /\ \A h \in Hosts : h \in Covered[h]
  /\ HostOf \in [Urls -> Hosts]
  /\ IsFiniteSet(Hosts) /\ ResourceTypes # {}
  /\ {Matched, MatchedCase} \subseteq [Patterns -> SUBSET Urls]
  /\ {Anchor, FullHost} \subseteq [Patterns -> Hosts \cup {None}]
  /\ Valid \subseteq Patterns /\ None \notin Patterns \cup Hosts \cup Selectors

\* ||h is matched by the URLs of h only, ||h^ by all of them.
ASSUME PatternAssumption ==
  \A p \in Patterns :
    /\ MatchedCase[p] \subseteq Matched[p]
    /\ Anchor[p] # None => \A u \in Matched[p] : Anchor[p] \in Covered[HostOf[u]]
    /\ FullHost[p] # None =>
         /\ Anchor[p] = FullHost[p] /\ p \in Valid
         /\ Matched[p] = {u \in Urls : FullHost[p] \in Covered[HostOf[u]]}

\* At least one list is asked for.
ASSUME SourcesAssumption == Sources \in Seq(ToSet(Sources)) /\ Sources # << >>

ASSUME LimitsAssumption ==
  /\ Budgets \subseteq Nat
  /\ {MaxLines, MAX_SCOPE, MAX_COSMETIC, MAX_DIAGNOSTICS, PER_REASON} \subseteq Nat
  /\ MAX_PACKED \in Nat \ {0}

VARIABLES
  budget,
  phase,         \* "reading", "compiled" or "refused"
  text,          \* the lines read: source -> sequence
  source,        \* index of the list that is being read
  network_rules, badfilters,
  hides,         \* accepted ## lines
  lifted,        \* exception_domains: selector -> domains
  suppressed_selectors, generic_excluded, all_excluded,
  suppress,      \* which of suppress_generic, _cosmetic and _network_blocks are set
  list_stats,    \* source -> counts
  diagnostic,    \* [total, samples], of a sample the reason
  coverage       \* the counts of the result

filtering == <<network_rules, badfilters, suppress>>
hiding == <<hides, lifted, suppressed_selectors, generic_excluded, all_excluded>>
result == <<coverage, compiled>>
compilerVars == <<budget, phase, text, source, filtering, hiding, list_stats, diagnostic, result>>

NoStats == [network |-> 0, cosmetic |-> 0, unsupported |-> 0, ignored |-> 0]
NoItems == [k \in ToSet(Kinds) |-> << >>]

CompilerInit ==
  /\ budget \in Budgets
  /\ phase = "reading" /\ source = 1
  /\ text = [s \in ToSet(Sources) |-> << >>]
  /\ network_rules = {} /\ badfilters = {} /\ suppress = {}
  /\ hides = << >> /\ lifted = [s \in Selectors |-> {}]
  /\ suppressed_selectors = {} /\ generic_excluded = {} /\ all_excluded = {}
  /\ list_stats = [s \in ToSet(Sources) |-> NoStats]
  /\ diagnostic = [total |-> 0, samples |-> << >>]
  /\ coverage = None
  /\ compiled = NoItems

-----------------------------------------------------------------------------
(* A network filter and the rules it stands for. *)

WithinLimit(s) == Cardinality(s.included) <= MAX_SCOPE /\ Cardinality(s.excluded) <= MAX_SCOPE

scopes_ok(s) == s.wellformed /\ WithinLimit(s)

\* A scope that names the hosts it is about, and nothing else.
OnlyIncludes(s) == scopes_ok(s) /\ s.included # {} /\ s.excluded = {}

TypesOf(l) == (IF l.types = {} THEN ResourceTypes ELSE l.types) \ l.not

\* network() returns rules for it.
Supported(l) ==
  /\ l.pattern \in Valid
  /\ l.scope # None => scopes_ok(l.scope)
  /\ l.options \subseteq {"match-case"} \cup (IF l.exception THEN {"document"} ELSE {})
  /\ TypesOf(l) # {}

\* A rule's condition is either a pattern (urlFilter) or hosts (requestDomains).
Rule(l, action, types) ==
  [action |-> action, pattern |-> l.pattern, hosts |-> {}, types |-> types,
   included |-> IF l.scope = None THEN {} ELSE l.scope.included,
   excluded |-> IF l.scope = None THEN {} ELSE l.scope.excluded,
   cased |-> "match-case" \in l.options]

FrameTypes == {"main_frame", "sub_frame"}

Rules(l) ==
  (IF "document" \in l.options THEN {Rule(l, "allowAllRequests", FrameTypes)} ELSE {})
    \cup (IF "document" \notin l.options \/ l.types \cup l.not # {}
            THEN {Rule(l, IF l.exception THEN "allow" ELSE "block", TypesOf(l))} ELSE {})

\* The allowances that stand in for an exception which cannot be expressed.
Guards(l) ==
  LET anywhere == [l EXCEPT !.scope = None, !.options = {}]
  IN {Rule(anywhere, "allow", ResourceTypes)}
       \cup {Rule(anywhere, "allowAllRequests", FrameTypes) :
               o \in l.options \cap {"document", "genericblock"}}

-----------------------------------------------------------------------------
(* Reading a line. *)

Sampled(d, reason) == Cardinality({i \in DOMAIN d.samples : d.samples[i].reason = reason})

\* Diagnostics::add
Add(d, reason) ==
  [total |-> d.total + 1,
   samples |-> IF Sampled(d, reason) < PER_REASON /\ Len(d.samples) < MAX_DIAGNOSTICS
                 THEN Append(d.samples, [reason |-> reason]) ELSE d.samples]

\* The same, once for each of the reasons.
AddAll(d, reasons) ==
  LET after[n \in 0 .. Len(reasons)] == IF n = 0 THEN d ELSE Add(after[n - 1], reasons[n])
  IN  after[Len(reasons)]

\* The line is read, counted once and reported for the reasons.
Read(l, count, reasons) ==
  /\ phase = "reading"
  /\ Len(FlattenSeq([i \in DOMAIN Sources |-> text[Sources[i]]])) < MaxLines
  /\ text' = [text EXCEPT ![Sources[source]] = Append(@, l)]
  /\ list_stats' = [list_stats EXCEPT ![Sources[source]][count] = @ + 1]
  /\ diagnostic' = AddAll(diagnostic, reasons)
  /\ UNCHANGED <<budget, phase, source, result>>

Ignore(l) ==
  /\ l.kind = "ignored"
  /\ Read(l, "ignored", << >>)
  /\ UNCHANGED <<filtering, hiding>>

Reject(l) ==
  /\ l.kind \in {"long", "extended"}
  /\ Read(l, "unsupported", <<l.kind>>)
  /\ UNCHANGED <<filtering, hiding>>

\* An exception with a #: taken for extended syntax, or for a ## line with a bad scope.
DropException(l) ==
  /\ l.kind = "unread"
  /\ \E reason \in {"extended", "hide"} : Read(l, "unsupported", <<reason>>)
  /\ UNCHANGED <<filtering, hiding>>

\* #@#: without hosts to leave out, the selector is not hidden anywhere.
Unhide(l) ==
  /\ l.kind = "unhide" /\ l.selector # None
  /\ Read(l, "ignored", << >>)
  /\ IF OnlyIncludes(l.scope)
       THEN /\ lifted' = [lifted EXCEPT ![l.selector] = @ \cup l.scope.included]
            /\ UNCHANGED suppressed_selectors
       ELSE /\ suppressed_selectors' = suppressed_selectors \cup {l.selector}
            /\ UNCHANGED lifted
  /\ UNCHANGED <<filtering, hides, generic_excluded, all_excluded>>

Hide(l) ==
  /\ l.kind = "hide" /\ l.selector # None /\ scopes_ok(l.scope)
  /\ Read(l, "cosmetic", << >>)
  /\ hides' = Append(hides, l)
  /\ UNCHANGED <<filtering, lifted, suppressed_selectors, generic_excluded, all_excluded>>

RejectCosmetic(l) ==
  /\ l.kind \in {"hide", "unhide"}
  /\ ~(l.selector # None /\ (l.kind = "hide" => scopes_ok(l.scope)))
  /\ Read(l, "unsupported", <<l.kind>>)
  /\ UNCHANGED <<filtering, hiding>>

\* The filter a badfilter line takes back, whichever list it is in.
Target(l) == [l EXCEPT !.options = @ \ {"badfilter"}]

Badfilter(l) ==
  /\ l.kind = "filter" /\ "badfilter" \in l.options
  /\ IF Supported(Target(l))
       THEN /\ Read(l, "ignored", << >>)
            /\ badfilters' = badfilters \cup Rules(Target(l))
       ELSE /\ Read(l, "unsupported", <<"badfilter">>)
            /\ UNCHANGED badfilters
  /\ UNCHANGED <<network_rules, suppress, hiding>>

\* An exception may also exempt pages from hiding: all hiding, or that without domains.
ExemptsAll(l) == l.exception /\ l.options \cap {"elemhide", "document"} # {}
ExemptsGeneric(l) == l.exception /\ "generichide" \in l.options /\ ~ExemptsAll(l)

\* The hosts of the exempt pages, or None: of domain=, else of the pattern.
ExemptHosts(l) ==
  IF l.scope # None
    THEN IF OnlyIncludes(l.scope) THEN l.scope.included ELSE None
    ELSE IF Anchor[l.pattern] # None THEN {Anchor[l.pattern]} ELSE None

\* An exempt document is protected itself, whatever pages domain= names.
DocumentHost(l) ==
  IF l.exception /\ "document" \in l.options
    THEN IF Anchor[l.pattern] # None THEN {Anchor[l.pattern]} ELSE None
    ELSE {}

HostsOrNone(hosts) == IF hosts = None THEN {} ELSE hosts

Exempt(l) ==
  /\ all_excluded' = all_excluded \cup HostsOrNone(DocumentHost(l))
       \cup (IF ExemptsAll(l) THEN HostsOrNone(ExemptHosts(l)) ELSE {})
  /\ generic_excluded' = generic_excluded
       \cup (IF ExemptsGeneric(l) THEN HostsOrNone(ExemptHosts(l)) ELSE {})

\* What is suppressed when the exempt pages cannot be named.
Unnamed(l) ==
  (IF (ExemptsAll(l) /\ ExemptHosts(l) = None) \/ DocumentHost(l) = None
     THEN {"cosmetic"} ELSE {})
    \cup (IF ExemptsGeneric(l) /\ ExemptHosts(l) = None THEN {"generic"} ELSE {})

\* Its part about hiding is taken out of the filter, and reported.
HidingOptions == {"generichide", "elemhide"}
AboutHiding(l) == l.exception /\ l.options \cap HidingOptions # {}
Translated(l) == IF l.exception THEN [l EXCEPT !.options = @ \ HidingOptions] ELSE l
ReportHiding(l) == IF AboutHiding(l) THEN <<"exemption">> ELSE << >>

\* Nothing but conditions is left: the filter is not about requests.  (Party modifiers are
\* left out; of theirs, the code takes 3p and 1p for more than conditions.)
OnlyHiding(l) ==
  /\ AboutHiding(l)
  /\ l.types \cup l.not = {} /\ Translated(l).options \subseteq {"match-case"}

IsFilter(l) == l.kind = "filter" /\ "badfilter" \notin l.options

HidingExemption(l) ==
  /\ IsFilter(l) /\ OnlyHiding(l)
  /\ Read(l, "ignored", ReportHiding(l))
  /\ Exempt(l)
  /\ suppress' = suppress \cup Unnamed(l)
  /\ UNCHANGED <<network_rules, badfilters, hides, lifted, suppressed_selectors>>

Accept(l) ==
  /\ IsFilter(l) /\ ~OnlyHiding(l) /\ Supported(Translated(l))
  /\ Read(l, "network", ReportHiding(l))
  /\ Exempt(l)
  /\ suppress' = suppress \cup Unnamed(l)
  /\ network_rules' = network_rules \cup Rules(Translated(l))
  /\ UNCHANGED <<badfilters, hides, lifted, suppressed_selectors>>

Omit(l) ==
  /\ IsFilter(l) /\ ~OnlyHiding(l) /\ ~Supported(Translated(l))
  /\ Read(l, "unsupported",
          ReportHiding(l) \o (IF l.exception THEN <<"filter", "guard">> ELSE <<"filter">>))
  /\ Exempt(l)
  /\ LET widened == l.exception /\ l.pattern \in Valid
         unknown == l.exception /\ l.pattern \notin Valid
     IN /\ network_rules' = network_rules \cup (IF widened THEN Guards(l) ELSE {})
        /\ suppress' = suppress \cup Unnamed(l) \cup (IF unknown THEN {"blocks"} ELSE {})
  /\ UNCHANGED <<badfilters, hides, lifted, suppressed_selectors>>

NextSource ==
  /\ phase = "reading" /\ source < Len(Sources)
  /\ source' = source + 1
  /\ UNCHANGED <<budget, phase, text, filtering, hiding, list_stats, diagnostic, result>>

-----------------------------------------------------------------------------
(* From what has been gathered to the result. *)

\* The k-th chunk of MAX_PACKED hosts.
Chunks(hosts) ==
  LET h == SetToSeq(hosts)
  IN {{h[i] : i \in {j \in DOMAIN h : (j - 1) \div MAX_PACKED = k}} :
        k \in 0 .. (Len(h) - 1) \div MAX_PACKED}

\* Mutant: rules for whole hosts are packed whatever resources they are about.
PackedMixed(rules) ==
  LET whole == {r \in rules : FullHost[r.pattern] # None /\ ~r.cased}
      template(r) == [r EXCEPT !.pattern = None, !.types = ResourceTypes]
      hostsOf(t) == {FullHost[r.pattern] : r \in {w \in whole : template(w) = t}}
  IN (rules \ whole)
       \cup UNION {{[t EXCEPT !.hosts = chunk] : chunk \in Chunks(hostsOf(t))} :
                    t \in {template(r) : r \in whole}}

\* pack_network: rules for whole hosts that are alike but for the host become one.
Packed(rules) ==
  LET whole == {r \in rules : FullHost[r.pattern] # None /\ ~r.cased}
      template(r) == [r EXCEPT !.pattern = None]
      hostsOf(t) == {FullHost[r.pattern] : r \in {w \in whole : template(w) = t}}
  IN (rules \ whole)
       \cup UNION {{[t EXCEPT !.hosts = chunk] : chunk \in Chunks(hostsOf(t))} :
                    t \in {template(r) : r \in whole}}

Blocks(rules) == {r \in rules : r.action = "block"}

\* Packed rules without the badfiltered ones, and how many blocks safety took away.
Candidates == Packed(network_rules \ badfilters)
Suppressed == IF "blocks" \in suppress THEN Blocks(Candidates) ELSE {}
Kept == Candidates \ Suppressed

\* Mutant: rules are dropped by their text alone.
FittingAny(rules) ==
  {fit \in SUBSET rules :
     Cardinality(fit) = IF Cardinality(rules) < budget THEN Cardinality(rules) ELSE budget}

\* Which rules fit: exceptions before blocks.
Fitting(rules) ==
  {fit \in SUBSET rules :
     /\ Cardinality(fit) = IF Cardinality(rules) < budget THEN Cardinality(rules) ELSE budget
     /\ rules \ Blocks(rules) \subseteq fit}

\* Mutant: exemptions of pages are added to the lines without domains alone.
ExcludedUnscoped(h) ==
  h.scope.excluded \cup lifted[h.selector]
    \cup (IF h.scope.included = {} THEN generic_excluded \cup all_excluded ELSE {})

\* The hosts on which a ## line does not hide.
ExcludedFrom(h) ==
  h.scope.excluded \cup all_excluded \cup lifted[h.selector]
    \cup (IF h.scope.included = {} THEN generic_excluded ELSE {})

\* Left out, since where it must not hide cannot be said.
Unsafe(h) ==
  \/ "cosmetic" \in suppress
  \/ "generic" \in suppress /\ h.scope.included = {}
  \/ h.selector \in suppressed_selectors
  \/ Cardinality(ExcludedFrom(h)) > MAX_SCOPE

CosmeticRule(h) ==
  [domains |-> h.scope.included, excluded |-> ExcludedFrom(h), selector |-> h.selector]

SafeHides == {i \in DOMAIN hides : ~Unsafe(hides[i])}
CosmeticRules == {CosmeticRule(hides[i]) : i \in SafeHides}

\* Which of them fit.
Taken(rules) ==
  {t \in SUBSET rules :
     Cardinality(t) = IF Cardinality(rules) < MAX_COSMETIC THEN Cardinality(rules) ELSE MAX_COSMETIC}

Omitted == Len(hides) - Cardinality(SafeHides)

\* Mutant: the rules are counted before blocks are suppressed.
CountedEarly(fit, taken) ==
  [networkSupported |-> Cardinality(Candidates),
   networkDropped |-> Cardinality(Kept) - Cardinality(fit),
   cosmeticSupported |-> Len(hides),
   cosmeticDropped |-> Cardinality(CosmeticRules) - Cardinality(taken),
   exceptionSafetySuppressed |-> Cardinality(Suppressed) + Omitted]

Counted(fit, taken) ==
  [networkSupported |-> Cardinality(Kept),
   networkDropped |-> Cardinality(Kept) - Cardinality(fit),
   cosmeticSupported |-> Len(hides),
   cosmeticDropped |-> Cardinality(CosmeticRules) - Cardinality(taken),
   exceptionSafetySuppressed |-> Cardinality(Suppressed) + Omitted]

ExceptionsTooMany == Cardinality(Kept \ Blocks(Kept)) > budget

Refuse ==
  /\ phase = "reading" /\ source = Len(Sources)
  /\ ExceptionsTooMany
  /\ phase' = "refused"
  /\ UNCHANGED <<budget, text, source, filtering, hiding, list_stats, diagnostic, result>>

Emit(fit, taken) ==
  /\ phase = "reading" /\ source = Len(Sources)
  /\ ~ExceptionsTooMany
  /\ fit \in Fitting(Kept) /\ taken \in Taken(CosmeticRules)
  /\ diagnostic' = AddAll(diagnostic, [i \in 1 .. Omitted |-> "omitted"])
  /\ coverage' = Counted(fit, taken)
  /\ compiled' = [network |-> SetToSeq(fit \ Blocks(fit)) \o SetToSeq(Blocks(fit)),
                  cosmetic |-> SetToSeq(taken), diagnostics |-> diagnostic'.samples]
  /\ phase' = "compiled"
  /\ UNCHANGED <<budget, text, source, filtering, hiding, list_stats>>

CompilerNext ==
  \/ \E l \in Lines :
       \/ Ignore(l) \/ Reject(l) \/ DropException(l)
       \/ Unhide(l) \/ Hide(l) \/ RejectCosmetic(l)
       \/ Badfilter(l) \/ HidingExemption(l) \/ Accept(l) \/ Omit(l)
  \/ NextSource
  \/ Refuse
  \/ \E fit \in SUBSET Kept, taken \in SUBSET CosmeticRules : Emit(fit, taken)

-----------------------------------------------------------------------------
(* What the compiled rules do in the browser. *)

\* A rule's or a filter's domains hold at a host; none at all hold everywhere.
HoldsAt(included, excluded, host) ==
  /\ included = {} \/ included \cap Covered[host] # {}
  /\ excluded \cap Covered[host] = {}

ByHost(included, excluded, by) ==
  IF by = None THEN included = {} ELSE HoldsAt(included, excluded, by)

\* What asks for what: nobody (None) asked for a page.
Asked(url, type, asking) ==
  [url |-> url, type |-> type, by |-> IF asking = None THEN None ELSE HostOf[asking]]

\* A request for a URL by the document frame in the page top (None: by top itself): the
\* fetch, and the documents it is in, itself if it is one.
Load(url, type, top, frame) ==
  LET document == IF frame = None THEN top ELSE frame
  IN [fetch |-> Asked(url, type, document),
      within |-> {Asked(top, "main_frame", None)}
                   \cup (IF frame = None THEN {} ELSE {Asked(frame, "sub_frame", top)})
                   \cup (IF type = "sub_frame" THEN {Asked(url, type, document)} ELSE {})]

Loads ==
  {Load(url, type, top, frame) :
     url \in Urls, type \in ResourceTypes, top \in Urls, frame \in Urls \cup {None}}

PatternMatches(pattern, cased, url) ==
  url \in (IF cased THEN MatchedCase[pattern] ELSE Matched[pattern])

RuleMatches(r, f) ==
  /\ f.type \in r.types
  /\ IF r.pattern = None THEN r.hosts \cap Covered[HostOf[f.url]] # {}
                         ELSE PatternMatches(r.pattern, r.cased, f.url)
  /\ ByHost(r.included, r.excluded, f.by)

RulesBlock(rules, q) ==
  /\ \E r \in rules : r.action = "block" /\ RuleMatches(r, q.fetch)
  /\ ~\E r \in rules : r.action = "allow" /\ RuleMatches(r, q.fetch)
  /\ ~\E r \in rules, n \in q.within : r.action = "allowAllRequests" /\ RuleMatches(r, n)

RulesHide(rules, url, selector) ==
  \E r \in rules : r.selector = selector /\ HoldsAt(r.domains, r.excluded, HostOf[url])

-----------------------------------------------------------------------------
(* What the lists ask for, read as they are written.  Of a modifier that is not *)
(* supported it is only known that it restricts the filter.                  *)

LinesRead == UNION {ToSet(text[s]) : s \in ToSet(Sources)}

\* Those of a kind that no badfilter line names.
NotTakenBack(form) == {l \in LinesRead :
  /\ l.kind = form /\ "badfilter" \notin l.options
  /\ ~\E b \in LinesRead : b.kind = form /\ b # l /\ Target(b) = l}

\* The filters that the compiler reads, and the exceptions that it does not.
Live == NotTakenBack("filter")
LiveExceptions == {l \in Live : l.exception}
LostExceptions == NotTakenBack("unread")

\* Where a filter may apply: a scope that cannot be read may hold any host.
MayMatch(l, f) ==
  /\ PatternMatches(l.pattern, "match-case" \in l.options, f.url)
  /\ l.scope = None \/ ~l.scope.wellformed \/ ByHost(l.scope.included, l.scope.excluded, f.by)

\* Without types such an exception is about documents, not requests.
AboutRequests(l) ==
  \/ l.types \cup l.not # {}
  \/ l.options \cap (HidingOptions \cup {"document", "genericblock"}) = {}

ListsAllow(exceptions, q) ==
  \/ \E l \in exceptions :
       AboutRequests(l) /\ q.fetch.type \in TypesOf(l) /\ MayMatch(l, q.fetch)
  \/ \E l \in exceptions, n \in q.within : "document" \in l.options /\ MayMatch(l, n)

Generic(scope) == scope = None \/ scope.included = {}

\* Some document of the load is exempt from filters without domains.
GenericAllowed(exceptions, q) ==
  \E l \in exceptions, n \in q.within : "genericblock" \in l.options /\ MayMatch(l, n)

ListsBlock(blocks, exceptions, q) ==
  /\ \E l \in blocks :
       /\ Supported(l) /\ q.fetch.type \in TypesOf(l) /\ MayMatch(l, q.fetch)
       /\ Generic(l.scope) => ~GenericAllowed(exceptions, q)
  /\ ~ListsAllow(exceptions, q)

Unhidden(url, selector) ==
  \E l \in LinesRead :
    /\ l.kind = "unhide" /\ l.selector = selector
    /\ ~l.scope.wellformed \/ HoldsAt(l.scope.included, l.scope.excluded, HostOf[url])

\* The page is exempt from hiding, or from hiding without domains.
PageExempt(exceptions, url, generic) ==
  \E l \in exceptions :
    /\ ExemptsAll(l) \/ (generic /\ "generichide" \in l.options)
    /\ MayMatch(l, [url |-> url, by |-> HostOf[url]])

ListsHide(exceptions, url, selector) ==
  \E l \in LinesRead :
    /\ l.kind = "hide" /\ l.selector = selector
    /\ HoldsAt(l.scope.included, l.scope.excluded, HostOf[url])
    /\ ~Unhidden(url, selector) /\ ~PageExempt(exceptions, url, l.scope.included = {})

\* badfilter lines remove rules, and a rule may also stand for a filter they do not name.
Emitted(l) == IF Supported(Translated(l)) THEN Rules(Translated(l)) ELSE Guards(l)
Hit(filters) == \E l \in filters : ~OnlyHiding(l) /\ Emitted(l) \cap badfilters # {}

-----------------------------------------------------------------------------
Network == ToSet(compiled["network"])

(* Whatever the budget drops, whatever cannot be expressed and in whichever  *)
(* list the lines are: a request is blocked by the compiled rules only if    *)
(* the lists block it and no exception that the compiler reads allows it     *)
(* (unless a badfilter line happens to remove the rule of an exception it    *)
(* does not name).  NoExceptionLost is about the exceptions it does not read.*)
NeverOverblocks ==
  phase = "compiled" /\ ~Hit(LiveExceptions) =>
    LET rules == Network
        blocks == Live \ LiveExceptions
        exceptions == LiveExceptions
    IN \A q \in Loads : RulesBlock(rules, q) => ListsBlock(blocks, exceptions, q)

(* An element is hidden on a page only if a ## line hides it there and       *)
(* neither a #@# line nor an exemption of the page that the compiler reads,  *)
(* in whichever list, protects it.                                           *)
NeverOverhides ==
  phase = "compiled" =>
    \A url \in Urls, s \in Selectors :
      RulesHide(ToSet(compiled["cosmetic"]), url, s) => ListsHide(LiveExceptions, url, s)

(* subscriptions.md, "Unsupported exceptions require explicit conservative   *)
(* suppression of related subscription blocks/hides, not just dropping the   *)
(* exception.": no request is blocked that an exception of the lists allows, *)
(* and nothing is hidden on a page that they exempt.                         *)
NoExceptionLost ==
  phase = "compiled" /\ ~Hit(LiveExceptions) =>
    LET rules == Network
        styles == ToSet(compiled["cosmetic"])
        exceptions == LiveExceptions \cup LostExceptions
    IN /\ \A q \in Loads : RulesBlock(rules, q) => ~ListsAllow(exceptions, q)
       /\ \A url \in Urls, s \in Selectors :
            RulesHide(styles, url, s) => ~PageExempt(exceptions, url, FALSE)

(* The reports are honest: if no line is reported as unsupported and no      *)
(* network rule as dropped or suppressed, the rules, packed and merged, block*)
(* exactly the requests the lists block.                                     *)
ExactUnlessReported ==
  (/\ phase = "compiled" /\ ~Hit(Live)
   /\ coverage.networkDropped = 0 /\ Suppressed = {}
   /\ \A s \in ToSet(Sources) : list_stats[s].unsupported = 0)
    => LET rules == Network
           blocks == Live \ LiveExceptions
           exceptions == LiveExceptions \cup LostExceptions
       IN \A q \in Loads : RulesBlock(rules, q) <=> ListsBlock(blocks, exceptions, q)

(* Of each list every line is counted, and counted once: as a network or     *)
(* cosmetic rule, as unsupported or as ignored.                              *)
EveryLineCounted ==
  \A s \in ToSet(Sources) :
    Len(text[s]) = list_stats[s].network + list_stats[s].cosmetic
                     + list_stats[s].unsupported + list_stats[s].ignored
=============================================================================
