------------------------------ MODULE RuleConfig ------------------------------
(***************************************************************************)
(* The configuration of the extension and the pure functions over it:      *)
(* which browser rules a configuration asks for, how an installed rule ID  *)
(* is described again in the activity view, the rule stamp, and what each  *)
(* queued operation does to a configuration.                               *)
(*                                                                         *)
(* Filter lists are data.  A local list is a member of Lists together with *)
(* the picker blocks its text holds; a subscription snapshot is a member   *)
(* of Snapshots; ListRules and SnapRules give the network rules the        *)
(* companion compiles from them, in order.  A host is a natural number, so *)
(* that the sorted array of paused sites is the set of its members.        *)
(***************************************************************************)
EXTENDS Integers, FiniteSets, Sequences

CONSTANTS
  None,                   \* undefined / null
  Conditions,             \* what a compiled rule matches on
  Lists, NoList,          \* local list texts; the text of a new profile
  ListRules,              \* network rules compiled from a list text
  ListCosmetics,          \* cosmetic rules compiled from it: [host, selector]
  Snapshots, SnapRules,   \* companion snapshots and their network rules
  Sites,                  \* hosts, ordered as their names are
  Covers,                 \* domain -> the hosts matchesDomain accepts for it
  Blocks,                 \* marked picker additions [host, selector, token]
  MaxDynamicRules,        \* declarativeNetRequest.MAX_NUMBER_OF_DYNAMIC_RULES
  MaxSubscriptionNetwork, \* 29,800 in the code
  MaxRules,               \* 2,000 local rules
  MaxSites                \* 200 per-site allowances

\* ID of the first per-site allowance.
OVERRIDE_ID == 1000000000

\* A compiled network rule.
NetworkRule == [action : {"block", "allow", "allowAllRequests"}, condition : Conditions]

ASSUME ListsAssumption ==
  /\ NoList \in Lists
  /\ ListRules \in [Lists -> Seq(NetworkRule)]
  /\ ListRules[NoList] = << >>
  /\ \A l \in Lists : Len(ListRules[l]) <= MaxRules

ASSUME SnapshotsAssumption ==
  /\ None \notin Snapshots
  /\ SnapRules \in [Snapshots -> Seq(NetworkRule)]
  /\ \A s \in Snapshots : Len(SnapRules[s]) <= MaxSubscriptionNetwork

ASSUME SitesAssumption ==
  /\ Sites \subseteq Nat
  /\ IsFiniteSet(Sites)
  /\ Covers \in [Sites -> SUBSET Sites]

ASSUME BlocksAssumption ==
  \A b \in Blocks : b.host \in Sites

\* The two compilers together stay far below the allowance IDs.
ASSUME LimitsAssumption ==
  /\ {MaxDynamicRules, MaxSubscriptionNetwork, MaxRules, MaxSites} \subseteq Nat
  /\ MaxSubscriptionNetwork + MaxRules < OVERRIDE_ID

-----------------------------------------------------------------------------
Locals == [base : Lists, picked : SUBSET Blocks]

Configs ==
  [enabled : BOOLEAN, disabledSites : SUBSET Sites,
   local : Locals, subs : Snapshots \cup {None}]

emptyConfig ==
  [enabled |-> TRUE, disabledSites |-> {},
   local |-> [base |-> NoList, picked |-> {}], subs |-> None]

-----------------------------------------------------------------------------
\* Browser rules.

SubscriptionRules(c) == IF c.subs = None THEN << >> ELSE SnapRules[c.subs]

LocalRules(c) == ListRules[c.local.base]

\* Local rules outrank subscriptions, and allowing outranks blocking.
SubscriptionPriority(rule) == IF rule.action = "block" THEN 1 ELSE 2
LocalPriority(rule)        == IF rule.action = "block" THEN 3 ELSE 4

Rule(id, priority, rule) ==
  [id |-> id, priority |-> priority, action |-> rule.action, condition |-> rule.condition]

\* The array position is the rule ID: subscriptions first, then the local list.
SubscriptionPart(c) ==
  LET rules == SubscriptionRules(c)
  IN  {Rule(i, SubscriptionPriority(rules[i]), rules[i]) : i \in DOMAIN rules}

LocalPart(c) ==
  LET rules == LocalRules(c)
  IN  {Rule(Len(SubscriptionRules(c)) + i, LocalPriority(rules[i]), rules[i]) :
         i \in DOMAIN rules}

\* Position of a site in the sorted array of paused sites.
SiteIndex(site, sites) == Cardinality({s \in sites : s < site})

SiteRule(site) == [action |-> "allowAllRequests", condition |-> <<"requestDomains", site>>]

SitePart(c) ==
  {Rule(OVERRIDE_ID + SiteIndex(s, c.disabledSites), 100, SiteRule(s)) :
     s \in c.disabledSites}

desiredRules(c) ==
  IF c.enabled THEN SubscriptionPart(c) \cup LocalPart(c) \cup SitePart(c) ELSE {}

\* Every rule set the extension can have asked the browser for.
RuleSets == {desiredRules(c) : c \in Configs}

RuleCount(c) ==
  IF c.enabled
    THEN Len(SubscriptionRules(c)) + Len(LocalRules(c)) + Cardinality(c.disabledSites)
    ELSE 0

WithinQuota(c) == RuleCount(c) <= MaxDynamicRules

\* Mutant: no room is set aside for the per-site allowances.
NetworkBudgetWithoutSites ==
  LET room == IF MaxDynamicRules > MaxRules THEN MaxDynamicRules - MaxRules ELSE 0
  IN  IF room < MaxSubscriptionNetwork THEN room ELSE MaxSubscriptionNetwork

\* Room the refresh asks the companion to stay within.
NetworkBudget ==
  LET room == IF MaxDynamicRules > MaxRules + MaxSites
                THEN MaxDynamicRules - (MaxRules + MaxSites) ELSE 0
  IN  IF room < MaxSubscriptionNetwork THEN room ELSE MaxSubscriptionNetwork

\* What identifies an applied rule set; compiled rules enter by their number.
ruleStamp(c) ==
  [enabled |-> c.enabled, disabledSites |-> c.disabledSites, text |-> c.local,
   localNetworkCount |-> Len(LocalRules(c)),
   subscription |->
     IF c.subs = None THEN None
     ELSE [snapshotId |-> c.subs, networkCount |-> Len(SnapRules[c.subs])]]

Stamps == {ruleStamp(c) : c \in Configs}

Descriptions ==
  [source : {"subscription", "local", "site"},
   action : {"block", "allow", "allowAllRequests"},
   condition : Conditions \cup {SiteRule(s).condition : s \in Sites},
   priority : 1 .. 100]

ASSUME NoneAssumption ==
  None \notin Configs /\ None \notin Stamps /\ None \notin Descriptions

\* What the activity view says of a matched rule ID; None when unavailable.
describeActivityRule(c, id) ==
  LET subscriptions == SubscriptionRules(c)
      own == LocalRules(c)
      at == id - Len(subscriptions)
      sites == {s \in c.disabledSites :
                  OVERRIDE_ID + SiteIndex(s, c.disabledSites) = id}
      info(source, priority, rule) ==
        [source |-> source, action |-> rule.action,
         condition |-> rule.condition, priority |-> priority]
  IN  IF ~c.enabled THEN None
      ELSE IF sites # {} THEN info("site", 100, SiteRule(CHOOSE s \in sites : TRUE))
      ELSE IF id \in DOMAIN subscriptions
        THEN info("subscription", SubscriptionPriority(subscriptions[id]), subscriptions[id])
      ELSE IF at \in DOMAIN own
        THEN info("local", LocalPriority(own[at]), own[at])
      ELSE None

\* What an installed rule and its description must agree on, and that the list
\* named as the source holds such a rule.
Describes(c, r) ==
  LET info == describeActivityRule(c, r.id)
      Has(rules) == \E i \in DOMAIN rules : rules[i].action = r.action
                                         /\ rules[i].condition = r.condition
  IN  /\ info # None
      /\ <<info.action, info.condition, info.priority>>
           = <<r.action, r.condition, r.priority>>
      /\ info.source = "subscription" => Has(SubscriptionRules(c))
      /\ info.source = "local" => Has(LocalRules(c))

-----------------------------------------------------------------------------
\* Queued operations.

Requestable ==
  [kind : {"import"}, local : Locals]
    \cup [kind : {"enabled"}, on : BOOLEAN]
    \cup [kind : {"site"}, host : Sites, on : BOOLEAN]
    \cup [kind : {"remove"}]
    \cup [kind : {"pick", "unpick"}, block : Blocks]

\* "apply" installs the snapshot a refresh fetched; only the refresh queues it.
Ops == Requestable \cup [kind : {"apply"}, snap : Snapshots]

\* Operations that ask the companion to compile before they commit.
Compiled(op) == op.kind \in {"import", "pick", "unpick"}

Update(op, c) ==
  CASE op.kind = "import"  -> [c EXCEPT !.local = op.local]
    [] op.kind = "enabled" -> [c EXCEPT !.enabled = op.on]
    [] op.kind = "site"    -> [c EXCEPT !.disabledSites =
                                 IF op.on THEN @ \ {op.host} ELSE @ \cup {op.host}]
    [] op.kind = "remove"  -> [c EXCEPT !.subs = None]
    [] op.kind = "pick"    -> [c EXCEPT !.local.picked = @ \cup {op.block}]
    [] op.kind = "unpick"  -> [c EXCEPT !.local.picked = @ \ {op.block}]
    [] op.kind = "apply"   -> [c EXCEPT !.subs = op.snap]

disabledBy(host, sites) == \E s \in sites : host \in Covers[s]

\* A local rule for the host or a domain above it already hides the selector.
AlreadyHidden(c, block) ==
  \E r \in ListCosmetics[c.local.base] \cup c.local.picked :
    block.host \in Covers[r.host] /\ r.selector = block.selector

\* The checks of an operation that end it before anything is written.
Admitted(op, c) ==
  CASE op.kind = "site"   -> Cardinality(Update(op, c).disabledSites) <= MaxSites
    [] op.kind = "pick"   -> /\ c.enabled
                             /\ ~disabledBy(op.block.host, c.disabledSites)
                             /\ ~AlreadyHidden(c, op.block)
    [] op.kind = "unpick" -> op.block \in c.local.picked
    [] OTHER              -> TRUE
=============================================================================
