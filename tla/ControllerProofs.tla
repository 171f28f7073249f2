--------------------------- MODULE ControllerProofs ---------------------------
(***************************************************************************)
(* The controller's safety properties for every list, snapshot, host and   *)
(* quota, and for any number of operations and faults.                     *)
(*                                                                         *)
(* IInv strengthens the properties to what every await of initialize and   *)
(* commit can rely on: which configuration the browser's rules are those   *)
(* of, and whether the journal covers the moment when they are not those   *)
(* of the stored one.                                                      *)
(***************************************************************************)
EXTENDS Controller, FiniteSetTheorems, TLAPS

(* The pure functions of RuleConfig. *)

\* The configuration of a new profile is one.
LEMMA EmptyConfigType == emptyConfig \in Configs
BY ListsAssumption DEF emptyConfig, Configs, Locals

\* A new profile asks for no rules.
LEMMA EmptyConfigRules == desiredRules(emptyConfig) = {}
<1> DEFINE c == emptyConfig
<1>1. SubscriptionRules(c) = << >> /\ LocalRules(c) = << >> /\ c.disabledSites = {}
  BY ListsAssumption DEF emptyConfig, SubscriptionRules, LocalRules
<1>2. DOMAIN (<< >>) = {}
  OBVIOUS
<1> HIDE DEF c
<1>3. SubscriptionPart(c) = {} /\ LocalPart(c) = {} /\ SitePart(c) = {}
  BY <1>1, <1>2 DEF SubscriptionPart, LocalPart, SitePart
<1>4. QED BY <1>3 DEF c, desiredRules

\* An operation turns a configuration into a configuration.
LEMMA UpdateType ==
  ASSUME NEW op \in Ops, NEW c \in Configs
  PROVE  Update(op, c) \in Configs
<1>1. CASE op.kind = "import"
  BY <1>1 DEF Ops, Requestable, Update, Configs
<1>2. CASE op.kind = "enabled"
  BY <1>2 DEF Ops, Requestable, Update, Configs
<1>3. CASE op.kind = "site"
  BY <1>3 DEF Ops, Requestable, Update, Configs
<1>4. CASE op.kind = "remove"
  BY <1>4 DEF Ops, Requestable, Update, Configs
<1>5. CASE op.kind \in {"pick", "unpick"}
  BY <1>5 DEF Ops, Requestable, Update, Configs, Locals
<1>6. CASE op.kind = "apply"
  BY <1>6 DEF Ops, Requestable, Update, Configs
<1>7. op.kind \in {"import", "enabled", "site", "remove", "pick", "unpick", "apply"}
  BY DEF Ops, Requestable
<1>8. QED BY <1>1, <1>2, <1>3, <1>4, <1>5, <1>6, <1>7

-----------------------------------------------------------------------------
Below(x, sites) == {y \in sites : y < x}

\* Two paused sites have two places in the sorted array.
LEMMA SiteIndexInjective ==
  ASSUME NEW sites \in SUBSET Sites, NEW s \in sites, NEW t \in sites,
         SiteIndex(s, sites) = SiteIndex(t, sites)
  PROVE  s = t
<1>1. \A x \in sites : IsFiniteSet(Below(x, sites)) /\ Cardinality(Below(x, sites)) \in Nat
  <2>1. IsFiniteSet(sites)
    BY SitesAssumption, FS_Subset
  <2>2. \A x \in sites : Below(x, sites) \in SUBSET sites
    BY DEF Below
  <2>3. QED BY <2>1, <2>2, FS_Subset, FS_CardinalityType
<1>2. \A x, y \in sites : x < y => Cardinality(Below(x, sites)) # Cardinality(Below(y, sites))
  <2> SUFFICES ASSUME NEW x \in sites, NEW y \in sites, x < y,
                      Cardinality(Below(x, sites)) = Cardinality(Below(y, sites))
               PROVE  FALSE
    OBVIOUS
  <2>1. Below(x, sites) \in SUBSET Below(y, sites)
        /\ x \in Below(y, sites) /\ x \notin Below(x, sites)
    <3>1. \A z \in sites : z \in Nat
      BY SitesAssumption
    <3>2. \A z \in sites : z < x => z < y
      BY <3>1
    <3>3. ~(x < x)
      BY <3>1
    <3>4. QED BY <3>2, <3>3 DEF Below
  <2>2. Below(y, sites) = Below(x, sites)
    BY <1>1, <2>1, FS_Subset
  <2>3. QED BY <2>1, <2>2
<1>3. Cardinality(Below(s, sites)) = Cardinality(Below(t, sites))
  BY DEF SiteIndex, Below
<1>4. s \in Nat /\ t \in Nat /\ ~(s < t) /\ ~(t < s)
  BY <1>2, <1>3, SitesAssumption
<1>5. QED BY <1>4

\* The rules of one part are told from those of the others by their IDs.
LEMMA PartIds ==
  ASSUME NEW c \in Configs
  PROVE  /\ SubscriptionRules(c) \in Seq(NetworkRule)
         /\ LocalRules(c) \in Seq(NetworkRule)
         /\ Len(SubscriptionRules(c)) + Len(LocalRules(c)) < OVERRIDE_ID
<1>1. LocalRules(c) \in Seq(NetworkRule) /\ Len(LocalRules(c)) <= MaxRules
  BY ListsAssumption DEF Configs, Locals, LocalRules
<1>2. SubscriptionRules(c) \in Seq(NetworkRule)
      /\ Len(SubscriptionRules(c)) <= MaxSubscriptionNetwork
  BY SnapshotsAssumption, LimitsAssumption DEF Configs, SubscriptionRules
<1>3. QED BY <1>1, <1>2, LimitsAssumption DEF OVERRIDE_ID

\* Places in the sorted array are natural numbers.
LEMMA SiteIndexType ==
  ASSUME NEW sites \in SUBSET Sites, NEW s \in sites
  PROVE  SiteIndex(s, sites) \in Nat
<1>1. IsFiniteSet(sites)
  BY SitesAssumption, FS_Subset
<1>2. {y \in sites : y < s} \in SUBSET sites
  OBVIOUS
<1>3. QED BY <1>1, <1>2, FS_Subset, FS_CardinalityType DEF SiteIndex

\* describeActivityRule gives back every rule desiredRules installs, under the
\* source it came from: both functions agree on who owns which ID.
THEOREM InstalledRulesAreDescribed ==
  ASSUME NEW c \in Configs, NEW r \in desiredRules(c)
  PROVE  Describes(c, r)
<1> DEFINE subs == SubscriptionRules(c)
           own == LocalRules(c)
           at == r.id - Len(subs)
           sites == {s \in c.disabledSites :
                       OVERRIDE_ID + SiteIndex(s, c.disabledSites) = r.id}
<1>1. c.enabled = TRUE /\ c.disabledSites \in SUBSET Sites
  BY DEF desiredRules, Configs
<1>2. /\ subs \in Seq(NetworkRule) /\ own \in Seq(NetworkRule)
      /\ Len(subs) \in Nat /\ Len(own) \in Nat
      /\ Len(subs) + Len(own) < OVERRIDE_ID
  BY PartIds
<1>3. \A s \in c.disabledSites : SiteIndex(s, c.disabledSites) \in Nat
  BY <1>1, SiteIndexType
<1>4. CASE r \in SubscriptionPart(c)
  <2>1. PICK i \in DOMAIN subs : r = Rule(i, SubscriptionPriority(subs[i]), subs[i])
    BY <1>4 DEF SubscriptionPart
  <2>2. r.id = i /\ i \in 1 .. Len(subs) /\ subs[i] \in NetworkRule
        /\ r.action = subs[i].action /\ r.condition = subs[i].condition
        /\ r.priority = SubscriptionPriority(subs[i])
    BY <2>1, <1>2 DEF Rule
  <2>3. sites = {}
    BY <2>2, <1>2, <1>3 DEF OVERRIDE_ID
  <2> DEFINE d == [source |-> "subscription", action |-> subs[i].action,
                   condition |-> subs[i].condition,
                   priority |-> SubscriptionPriority(subs[i])]
  <2>4. describeActivityRule(c, r.id) = d
    BY <1>1, <2>1, <2>2, <2>3 DEF describeActivityRule
  <2>5. d \in Descriptions
    BY <2>2 DEF Descriptions, NetworkRule, SubscriptionPriority
  <2>6. QED BY <2>1, <2>2, <2>4, <2>5, NoneAssumption DEF Describes
<1>5. CASE r \in LocalPart(c)
  <2>1. PICK i \in DOMAIN own : r = Rule(Len(subs) + i, LocalPriority(own[i]), own[i])
    BY <1>5 DEF LocalPart
  <2>2. r.id = Len(subs) + i /\ i \in 1 .. Len(own) /\ own[i] \in NetworkRule
        /\ r.action = own[i].action /\ r.condition = own[i].condition
        /\ r.priority = LocalPriority(own[i])
    BY <2>1, <1>2 DEF Rule
  <2>3. sites = {}
    BY <2>2, <1>2, <1>3 DEF OVERRIDE_ID
  <2>4. r.id \notin DOMAIN subs /\ at = i /\ at \in DOMAIN own
    BY <2>1, <2>2, <1>2
  <2> DEFINE d == [source |-> "local", action |-> own[i].action,
                   condition |-> own[i].condition, priority |-> LocalPriority(own[i])]
  <2>5. describeActivityRule(c, r.id) = d
    BY <1>1, <2>3, <2>4 DEF describeActivityRule
  <2>6. d \in Descriptions
    BY <2>2 DEF Descriptions, NetworkRule, LocalPriority
  <2>7. QED BY <2>1, <2>2, <2>5, <2>6, NoneAssumption DEF Describes
<1>6. CASE r \in SitePart(c)
  <2>1. PICK s \in c.disabledSites :
          r = Rule(OVERRIDE_ID + SiteIndex(s, c.disabledSites), 100, SiteRule(s))
    BY <1>6 DEF SitePart
  <2>2. r.id = OVERRIDE_ID + SiteIndex(s, c.disabledSites)
        /\ r.action = SiteRule(s).action /\ r.condition = SiteRule(s).condition
        /\ r.priority = 100
    BY <2>1 DEF Rule
  <2>3. \A t \in sites : t = s
    BY <1>1, <1>3, <2>2, SiteIndexInjective DEF OVERRIDE_ID
  <2>4. s \in sites
    BY <2>2
  <2>5. (CHOOSE t \in sites : TRUE) = s
    BY <2>3, <2>4
  <2> DEFINE d == [source |-> "site", action |-> SiteRule(s).action,
                   condition |-> SiteRule(s).condition, priority |-> 100]
  <2>6. describeActivityRule(c, r.id) = d
    BY <1>1, <2>4, <2>5 DEF describeActivityRule
  <2>7. d \in Descriptions
    BY <1>1 DEF Descriptions, SiteRule
  <2>8. QED BY <2>2, <2>6, <2>7, NoneAssumption DEF Describes
<1>7. QED BY <1>1, <1>4, <1>5, <1>6 DEF desiredRules

-----------------------------------------------------------------------------
(* The controller. *)

\* Labels from which `ready` has resolved.
Up == {"idle", "compile"} \cup Committing

\* Labels at which the rules are those of the committed configuration.
Enforcing == {"idle", "compile", "journal", "apply", "unjournal", "rollbackClear",
              "clear", "notify", "initClear", "initStamp"}

\* Labels at which the rules may differ, with the journal written.
Journaled == {"apply", "save", "rollback", "rollbackClear", "initClear"}

MemoryAgrees ==
  /\ pc \in Up \cup (Starting \ {"read"}) => config = Committed
  /\ pc \in Up => (hasCommittedConfig <=> storedConfig # None)

RulesAgree ==
  /\ (pc \in Enforcing /\ ~recoveryError) => dnr = desiredRules(Committed)
  /\ pc = "save" => dnr = desiredRules(next)

JournalCovers ==
  /\ pc \in Journaled => pending # None
  /\ recoveryError => pending # None /\ pc = "idle"
  /\ pc = "initApply" => pending # None \/ storedConfig # None
  /\ pc = "initStamp" => storedConfig # None
  /\ pc \in {"clear", "notify"} => storedConfig # None
  /\ storedConfig = None => appliedRuleStamp = None

AttributionOff ==
  activityRulesReady <=> (pc \in {"idle", "compile"} /\ ~recoveryError)

\* The running job and what it will commit.
JobUnderWay ==
  /\ pc \in {"compile"} \cup Committing => queue # << >>
  /\ pc \in {"compile", "journal", "apply", "save"} => Admitted(Job, config)
  /\ pc \in {"journal", "apply", "save"} => next = Update(Job, config)
  /\ pc = "compile" => Compiled(Job)

Kept ==
  /\ MemoryAgrees
  /\ RulesAgree
  /\ JournalCovers
  /\ AttributionOff
  /\ JobUnderWay
  /\ StampVouches

IInv == TypeOK /\ Kept

-----------------------------------------------------------------------------
\* The stored configuration, or the empty one, is a configuration.
LEMMA CommittedType == TypeOK => Committed \in Configs
BY EmptyConfigType DEF TypeOK, Committed

\* Stamps and rule sets of configurations have their types.
LEMMA DerivedTypes ==
  /\ \A c \in Configs : ruleStamp(c) \in Stamps /\ desiredRules(c) \in RuleSets
  /\ {} \in RuleSets
BY EmptyConfigType, EmptyConfigRules DEF Stamps, RuleSets

\* A worker with nothing to do.
LEMMA IdleType == Idle \in RefreshStates /\ << >> \in Seq(Ops)
BY DEF Idle, RefreshStates

\* Every initial state satisfies the inductive invariant.
LEMMA InitIInv == Init => IInv
<1> SUFFICES ASSUME Init PROVE IInv
  OBVIOUS
<1>1. TypeOK
  <2>1. dnr \in RuleSets /\ storedConfig \in Configs \cup {None}
    BY DerivedTypes DEF Init
  <2>2. refresh \in RefreshStates
    BY IdleType DEF Init
  <2>3. QED
    BY <2>1, <2>2, EmptyConfigType, IdleType DEF Init, TypeOK, Starting
<1>2. MemoryAgrees /\ RulesAgree /\ JournalCovers /\ AttributionOff /\ JobUnderWay
  BY DEF Init, MemoryAgrees, RulesAgree, JournalCovers, AttributionOff, JobUnderWay,
         Up, Enforcing, Journaled, Starting, Committing
<1>3. StampVouches
  <2>1. storedConfig # None => ruleStamp(storedConfig) # None
    BY DerivedTypes, NoneAssumption DEF Init
  <2>2. QED BY <2>1 DEF Init, StampVouches
<1>4. QED BY <1>1, <1>2, <1>3 DEF IInv, Kept

\* Every step keeps the types.
LEMMA TypeStep == TypeOK /\ JobUnderWay /\ MemoryAgrees /\ [Next]_vars => TypeOK'
<1> SUFFICES ASSUME TypeOK, JobUnderWay, MemoryAgrees, [Next]_vars PROVE TypeOK'
  OBVIOUS
<1> USE DEF durable, memory
<1>1. Committed \in Configs /\ emptyConfig \in Configs
  BY CommittedType, EmptyConfigType
<1>2. ASSUME NEW op \in Requestable, Submit(op) PROVE TypeOK'
  <2>1. op \in Ops
    BY DEF Ops
  <2>2. refresh' \in RefreshStates
    BY <1>2 DEF TypeOK, Submit, RefreshStates
  <2>3. queue' \in Seq(Ops) /\ requested' \in Nat
    BY <1>2, <2>1 DEF TypeOK, Submit, Request
  <2>4. QED BY <1>2, <2>2, <2>3 DEF TypeOK, Submit
<1>3. CASE StartRefresh
  BY <1>3 DEF TypeOK, StartRefresh, Request, RefreshStates
<1>4. CASE RefreshReady
  BY <1>4, IdleType DEF TypeOK, RefreshReady, RefreshStates
<1>5. ASSUME NEW snap \in Snapshots, RefreshFetched(snap) PROVE TypeOK'
  <2>1. [kind |-> "apply", snap |-> snap] \in Ops
    BY DEF Ops
  <2>2. QED BY <1>5, <2>1 DEF TypeOK, RefreshFetched, RefreshStates
<1>6. CASE RefreshFails
  BY <1>6, IdleType DEF TypeOK, RefreshFails
<1>7. CASE Initialize
  <2> USE DEF InitUnchanged, NotReady, Ready, Succeeds, Fails, applyRules,
              applyRulesFails, Starting
  <2>1. CASE InitRead
    BY <1>1, <2>1 DEF TypeOK, InitRead
  <2>2. CASE InitApply
    BY <2>2, DerivedTypes DEF TypeOK, InitApply
  <2>3. CASE InitClear
    BY <2>3 DEF TypeOK, InitClear
  <2>4. CASE InitStamp
    BY <2>4, DerivedTypes DEF TypeOK, InitStamp
  <2>5. CASE InitFails
    BY <2>5 DEF TypeOK, InitFails
  <2>6. QED BY <1>7, <2>1, <2>2, <2>3, <2>4, <2>5 DEF Initialize
<1>8. CASE RunQueue
  <2>0. pc \in {"compile"} \cup Committing => queue # << >>
    BY DEF JobUnderWay
  <2>1. queue # << >> => Job \in Ops /\ Tail(queue) \in Seq(Ops)
    BY DEF TypeOK, Job
  <2>A. queue # << >> /\ Settle => queue' \in Seq(Ops) /\ refresh' \in RefreshStates
    BY <2>1, IdleType DEF TypeOK, Settle
  <2>2. queue # << >> => Update(Job, config) \in Configs
    BY <2>1, UpdateType DEF TypeOK
  <2> USE DEF EndJob, Await, CommitUnchanged, KeepConfig, Succeeds,
              Fails, applyRules, applyRulesFails
  <2>3. CASE RefuseAll
    BY <2>A, <2>3 DEF TypeOK, RefuseAll
  <2>4. CASE Refuse
    BY <2>A, <2>4 DEF TypeOK, Refuse, Runnable
  <2>5. CASE StartCompile
    BY <2>5 DEF TypeOK, StartCompile
  <2>6. CASE CompileFails
    BY <2>0, <2>A, <2>6 DEF TypeOK, CompileFails
  <2>7. CASE StartCommit
    <3>1. next' \in Configs
      BY <2>0, <2>2, <2>7 DEF StartCommit, Runnable
    <3>2. subscriptionGeneration' \in Nat
      BY <2>7 DEF TypeOK, StartCommit
    <3>3. QED BY <2>7, <3>1, <3>2 DEF TypeOK, StartCommit, Committing
  <2> USE DEF Committing
  <2>8. CASE Journal
    <3>0. pc = "journal" /\ KeepConfig /\ CommitUnchanged /\ UNCHANGED dnr
      BY <2>8 DEF Journal
    <3>1. CASE Succeeds /\ pending' = next /\ Await("apply")
      BY <3>0, <3>1 DEF TypeOK
    <3>2. CASE EndJob(FALSE) /\ UNCHANGED pending /\ Fails
      <4>1. queue' \in Seq(Ops) /\ refresh' \in RefreshStates
        BY <2>0, <2>A, <3>0, <3>2
      <4>2. faults' \in Nat
        BY <3>2 DEF TypeOK
      <4>3. pc' = "idle" /\ recoveryError' = FALSE /\ activityRulesReady' = TRUE
        BY <3>2
      <4>4. QED BY <3>0, <3>2, <4>1, <4>2, <4>3 DEF TypeOK
    <3>3. QED BY <2>8, <3>1, <3>2 DEF Journal
  <2>9. CASE ApplyRules
    BY <2>9, DerivedTypes DEF TypeOK, ApplyRules
  <2>10. CASE Unjournal
    <3>1. pending' \in Configs \cup {None} /\ faults' \in Nat
      BY <2>10 DEF TypeOK, Unjournal
    <3>2. QED BY <2>0, <2>A, <2>10, <3>1 DEF TypeOK, Unjournal
  <2>11. CASE Save
    BY <2>11, DerivedTypes DEF TypeOK, Save
  <2>12. CASE SaveFails
    BY <2>12 DEF TypeOK, SaveFails
  <2>13. CASE Rollback
    BY <2>13, DerivedTypes DEF TypeOK, Rollback
  <2>14. CASE RollbackClear
    BY <2>0, <2>A, <2>14 DEF TypeOK, RollbackClear
  <2>15. CASE RollbackFails
    BY <2>0, <2>A, <2>15 DEF TypeOK, RollbackFails
  <2>16. CASE Clear
    BY <2>16 DEF TypeOK, Clear
  <2>17. CASE Notify
    BY <2>0, <2>A, <2>17 DEF TypeOK, Notify
  <2>18. QED
    BY <1>8, <2>3, <2>4, <2>5, <2>6, <2>7, <2>8, <2>9, <2>10, <2>11, <2>12, <2>13,
       <2>14, <2>15, <2>16, <2>17 DEF RunQueue
<1>9. CASE Crash \/ Sleep
  <2>1. refresh' \in RefreshStates
    BY <1>9, IdleType DEF Crash, Sleep, Forget
  <2>2. faults' \in Nat
    BY <1>9 DEF TypeOK, Crash, Sleep, Fails, Succeeds
  <2>3. queue' \in Seq(Ops)
    BY <1>9, IdleType DEF Crash, Sleep, Forget
  <2>4. /\ config' \in Configs /\ next' \in Configs /\ pc' = "dead"
        /\ recoveryError' = FALSE /\ activityRulesReady' = FALSE
        /\ hasCommittedConfig' = FALSE /\ subscriptionGeneration' = 0
        /\ UNCHANGED <<storedConfig, pending, appliedRuleStamp, dnr, requested>>
    BY <1>1, <1>9 DEF Crash, Sleep, Forget
  <2>5. QED BY <2>1, <2>2, <2>3, <2>4 DEF TypeOK
<1>10. CASE Wake
  BY <1>10 DEF TypeOK, Wake, Starting
<1>11. CASE UNCHANGED vars
  BY <1>11 DEF TypeOK, vars
<1>12. QED
  BY <1>2, <1>3, <1>4, <1>5, <1>6, <1>7, <1>8, <1>9, <1>10, <1>11
     DEF Next, Requests, Refreshing

-----------------------------------------------------------------------------
\* The steps that leave storage, rules, memory and the label of the worker alone
\* keep the invariant: requests, the refresh's download and refused operations.
Labels == <<durable, pc, memory>>

LEMMA QuietStep ==
  ASSUME IInv, UNCHANGED Labels,
         pc \in {"compile"} \cup Committing => queue' # << >> /\ Head(queue') = Head(queue)
  PROVE  Kept'
<1> USE DEF Labels, durable, memory, IInv, Kept
<1>1. Committed' = Committed
  BY DEF Committed
<1>2. MemoryAgrees' /\ RulesAgree' /\ JournalCovers' /\ AttributionOff' /\ StampVouches'
  BY <1>1 DEF MemoryAgrees, RulesAgree, JournalCovers, AttributionOff, StampVouches
<1>3. JobUnderWay'
  BY DEF JobUnderWay, Job, Committing
<1>4. QED BY <1>2, <1>3

\* The steps of initialize.
LEMMA InitializeStep ==
  ASSUME IInv, Initialize
  PROVE  Kept'
<1> USE DEF IInv, Kept, InitUnchanged, NotReady, Ready, Succeeds, Fails, Up, Enforcing,
            Journaled, Starting, Committing
<1>0. Committed' = Committed
  BY DEF Initialize, InitRead, InitApply, InitClear, InitStamp, InitFails, Committed
<1>1. CASE InitRead
  <2>1. pc' = "idle" => dnr = desiredRules(Committed)
    BY <1>1, EmptyConfigRules DEF InitRead, StampVouches, Committed
  <2>2. MemoryAgrees' /\ RulesAgree' /\ JournalCovers' /\ AttributionOff' /\ StampVouches'
    <3>1. MemoryAgrees' /\ RulesAgree'
      BY <1>0, <1>1, <2>1 DEF InitRead, MemoryAgrees, RulesAgree, JournalCovers
    <3>2. JournalCovers' /\ AttributionOff'
      BY <1>1 DEF InitRead, JournalCovers, AttributionOff
    <3>3. StampVouches'
      BY <1>1 DEF InitRead, StampVouches
    <3>4. QED BY <3>1, <3>2, <3>3
  <2>3. JobUnderWay'
    BY <1>1 DEF InitRead, JobUnderWay
  <2>4. QED BY <2>2, <2>3
<1>2. CASE InitApply
  BY <1>0, <1>2 DEF InitApply, applyRules, MemoryAgrees, RulesAgree, JournalCovers,
     AttributionOff, JobUnderWay, StampVouches, Committed
<1>3. CASE InitClear
  BY <1>0, <1>3, EmptyConfigRules DEF InitClear, MemoryAgrees, RulesAgree, JournalCovers,
     AttributionOff, JobUnderWay, StampVouches, Committed
<1>4. CASE InitStamp
  BY <1>0, <1>4 DEF InitStamp, MemoryAgrees, RulesAgree, JournalCovers,
     AttributionOff, JobUnderWay, StampVouches, Committed
<1>5. CASE InitFails
  BY <1>0, <1>5 DEF InitFails, applyRulesFails, MemoryAgrees, RulesAgree, JournalCovers,
     AttributionOff, JobUnderWay, StampVouches, Committed
<1>6. QED BY <1>1, <1>2, <1>3, <1>4, <1>5 DEF Initialize

\* The steps of the queue and of commit.
LEMMA QueueStep ==
  ASSUME IInv, RunQueue
  PROVE  Kept'
<1> USE DEF IInv, Kept, Up, Enforcing, Journaled, Starting, Committing, Succeeds, Fails,
            EndJob, Await, CommitUnchanged, KeepConfig
<1>1. CASE RefuseAll \/ Refuse
  <2>1. UNCHANGED Labels
    BY <1>1 DEF RefuseAll, Refuse, Labels, durable, memory
  <2>2. pc \notin {"compile"} \cup Committing
    BY <1>1 DEF RefuseAll, Refuse, Runnable
  <2>3. QED BY <2>1, <2>2, QuietStep
<1>2. CASE StartCompile
  <2>1. UNCHANGED <<durable, memory, queue>> /\ pc = "idle" /\ ~recoveryError
        /\ pc' = "compile" /\ queue # << >> /\ Compiled(Job) /\ Admitted(Job, config)
    BY <1>2 DEF StartCompile, Runnable
  <2>2. Job' = Job /\ Committed' = Committed
    BY <2>1 DEF Job, Committed, durable, memory
  <2>3. QED
    BY <2>1, <2>2 DEF durable, memory, MemoryAgrees, RulesAgree, JournalCovers,
       AttributionOff, JobUnderWay, StampVouches
<1>3. CASE CompileFails
  <2>1. UNCHANGED <<durable, memory>> /\ pc = "compile" /\ pc' = "idle"
    BY <1>3 DEF CompileFails
  <2>2. Committed' = Committed
    BY <2>1 DEF Committed, durable
  <2>3. QED
    BY <2>1, <2>2 DEF durable, memory, MemoryAgrees, RulesAgree, JournalCovers,
       AttributionOff, JobUnderWay, StampVouches
<1>4. CASE StartCommit
  <2>1. /\ UNCHANGED <<durable, config, recoveryError, hasCommittedConfig, queue>>
        /\ pc \in {"idle", "compile"} /\ ~recoveryError /\ pc' = "journal"
        /\ queue # << >> /\ Admitted(Job, config)
        /\ next' = Update(Job, config) /\ activityRulesReady' = FALSE
    BY <1>4 DEF StartCommit, Runnable, JournalCovers, JobUnderWay
  <2>2. Job' = Job /\ Committed' = Committed
    BY <2>1 DEF Job, Committed, durable
  <2>3. QED
    BY <2>1, <2>2 DEF durable, MemoryAgrees, RulesAgree, JournalCovers,
       AttributionOff, JobUnderWay, StampVouches
<1>5. CASE Journal \/ Unjournal \/ Clear \/ RollbackClear
  <2>1. UNCHANGED <<storedConfig, appliedRuleStamp, dnr, config, hasCommittedConfig, next>>
    BY <1>5 DEF Journal, Unjournal, Clear, RollbackClear
  <2>2. Committed' = Committed
    BY <2>1 DEF Committed
  <2>3. next \in Configs /\ None \notin Configs
    BY NoneAssumption DEF TypeOK
  <2>4. CASE Journal
    <3>1. CASE Await("apply")
      <4>1. pending' = next /\ Job' = Job /\ pc = "journal" /\ queue' = queue
        BY <2>4, <3>1 DEF Journal, Job
      <4>2. QED
        BY <2>1, <2>2, <2>3, <3>1, <4>1 DEF MemoryAgrees, RulesAgree, JournalCovers,
           AttributionOff, JobUnderWay, StampVouches
    <3>2. CASE EndJob(FALSE) /\ UNCHANGED pending
      <4>1. /\ pc = "journal" /\ pc' = "idle" /\ UNCHANGED pending
            /\ recoveryError' = FALSE /\ activityRulesReady' = TRUE
        BY <2>4, <3>2 DEF Journal
      <4>2. dnr = desiredRules(Committed)
        BY <4>1 DEF RulesAgree, JournalCovers
      <4>3. QED
        BY <2>1, <2>2, <4>1, <4>2 DEF MemoryAgrees, RulesAgree, JournalCovers,
           AttributionOff, JobUnderWay, StampVouches
    <3>3. QED BY <2>4, <3>1, <3>2 DEF Journal
  <2>5. CASE Unjournal \/ RollbackClear
    <3>1. /\ pc \in {"unjournal", "rollbackClear"} /\ pc' = "idle"
          /\ recoveryError' = FALSE /\ activityRulesReady' = TRUE
          /\ pending' = None \/ pending' = pending
      BY <2>5 DEF Unjournal, RollbackClear
    <3>2. dnr = desiredRules(Committed)
      BY <3>1 DEF RulesAgree, JournalCovers
    <3>3. QED
      BY <2>1, <2>2, <3>1, <3>2, EmptyConfigRules DEF Committed, MemoryAgrees, RulesAgree,
         JournalCovers, AttributionOff, JobUnderWay, StampVouches
  <2>6. CASE Clear
    <3>1. /\ pc = "clear" /\ pc' = "notify" /\ Job' = Job
          /\ UNCHANGED <<queue, recoveryError, activityRulesReady>>
          /\ pending' = None \/ pending' = pending
          /\ dnr = desiredRules(Committed)
      BY <2>6 DEF Clear, Job, RulesAgree, JournalCovers
    <3>2. QED
      BY <2>1, <2>2, <3>1 DEF Committed, MemoryAgrees, RulesAgree,
         JournalCovers, AttributionOff, JobUnderWay, StampVouches
  <2>7. QED BY <1>5, <2>4, <2>5, <2>6
<1>6. CASE ApplyRules
  <2>1. /\ UNCHANGED <<storedConfig, appliedRuleStamp, config, hasCommittedConfig, next,
                       pending, queue, recoveryError, activityRulesReady>>
        /\ pc = "apply" /\ pending # None /\ ~recoveryError
        /\ \/ pc' = "save" /\ dnr' = desiredRules(next)
           \/ pc' = "unjournal" /\ dnr' = dnr
    BY <1>6 DEF ApplyRules, applyRules, applyRulesFails, JournalCovers
  <2>2. Job' = Job /\ Committed' = Committed
    BY <2>1 DEF Job, Committed
  <2>3. QED
    BY <2>1, <2>2 DEF MemoryAgrees, RulesAgree, JournalCovers, AttributionOff,
       JobUnderWay, StampVouches
<1>7. CASE Save
  <2>1. /\ UNCHANGED <<next, pending, queue, recoveryError, activityRulesReady, dnr>>
        /\ pc = "save" /\ pending # None /\ ~recoveryError /\ pc' = "clear"
        /\ storedConfig' = next /\ config' = next /\ hasCommittedConfig' = TRUE
        /\ dnr = desiredRules(next)
    BY <1>7 DEF Save, JournalCovers, RulesAgree
  <2>2. next # None
    BY NoneAssumption DEF TypeOK
  <2>3. Committed' = next
    BY <2>1, <2>2 DEF Committed
  <2>4. QED
    BY <2>1, <2>2, <2>3 DEF MemoryAgrees, RulesAgree, JournalCovers, AttributionOff,
       JobUnderWay, StampVouches
<1>8. CASE SaveFails
  <2>1. /\ UNCHANGED <<storedConfig, appliedRuleStamp, config, hasCommittedConfig, next,
                       pending, queue, recoveryError, activityRulesReady, dnr>>
        /\ pc = "save" /\ pc' = "rollback" /\ pending # None /\ ~recoveryError
    BY <1>8 DEF SaveFails, JournalCovers
  <2>2. Committed' = Committed
    BY <2>1 DEF Committed
  <2>3. QED
    BY <2>1, <2>2 DEF MemoryAgrees, RulesAgree, JournalCovers, AttributionOff,
       JobUnderWay, StampVouches
<1>9. CASE Rollback
  <2>1. /\ UNCHANGED <<storedConfig, appliedRuleStamp, config, hasCommittedConfig, next,
                       pending, queue, recoveryError, activityRulesReady>>
        /\ pc = "rollback" /\ pc' = "rollbackClear" /\ pending # None /\ ~recoveryError
        /\ dnr' = desiredRules(Committed)
    BY <1>9 DEF Rollback, applyRules, JournalCovers, MemoryAgrees
  <2>2. Committed' = Committed
    BY <2>1 DEF Committed
  <2>3. QED
    BY <2>1, <2>2 DEF MemoryAgrees, RulesAgree, JournalCovers, AttributionOff,
       JobUnderWay, StampVouches
<1>10. CASE RollbackFails
  <2>1. /\ UNCHANGED <<storedConfig, appliedRuleStamp, config, hasCommittedConfig, next,
                       pending, dnr>>
        /\ pc \in {"rollback", "rollbackClear"} /\ pc' = "idle" /\ pending # None
        /\ recoveryError' = TRUE /\ activityRulesReady' = FALSE
    BY <1>10 DEF RollbackFails, applyRulesFails, JournalCovers
  <2>2. Committed' = Committed
    BY <2>1 DEF Committed
  <2>3. QED
    BY <2>1, <2>2 DEF MemoryAgrees, RulesAgree, JournalCovers, AttributionOff,
       JobUnderWay, StampVouches
<1>11. CASE Notify
  <2>1. /\ UNCHANGED <<storedConfig, appliedRuleStamp, config, hasCommittedConfig, next,
                       pending, dnr>>
        /\ pc = "notify" /\ pc' = "idle"
        /\ recoveryError' = FALSE /\ activityRulesReady' = TRUE
    BY <1>11 DEF Notify
  <2>2. Committed' = Committed
    BY <2>1 DEF Committed
  <2>3. QED
    BY <2>1, <2>2 DEF MemoryAgrees, RulesAgree, JournalCovers, AttributionOff,
       JobUnderWay, StampVouches
<1>12. QED
  BY <1>1, <1>2, <1>3, <1>4, <1>5, <1>6, <1>7, <1>8, <1>9, <1>10, <1>11 DEF RunQueue

\* Requests, the download of a refresh, and the worker's own end and start.
LEMMA OutsideStep ==
  ASSUME IInv, Requests \/ Refreshing \/ Crash \/ Sleep \/ Wake
  PROVE  Kept'
<1>1. queue \in Seq(Ops)
  BY DEF IInv, TypeOK
<1>2. pc \in {"compile"} \cup Committing => queue # << >>
  BY DEF IInv, Kept, JobUnderWay
<1>3. \A op \in Ops : queue' = Append(queue, op) /\ queue # << >>
                        => queue' # << >> /\ Head(queue') = Head(queue)
  BY <1>1
<1>4. ASSUME NEW op \in Requestable, Submit(op) PROVE Kept'
  <2>1. UNCHANGED Labels /\ queue' = Append(queue, op) /\ op \in Ops
    BY <1>4 DEF Submit, Labels, Ops
  <2>2. QED BY <1>2, <1>3, <2>1, QuietStep
<1>5. ASSUME NEW snap \in Snapshots, RefreshFetched(snap) PROVE Kept'
  <2>1. UNCHANGED Labels /\ queue' = Append(queue, [kind |-> "apply", snap |-> snap])
        /\ [kind |-> "apply", snap |-> snap] \in Ops
    BY <1>5 DEF RefreshFetched, Labels, Ops
  <2>2. QED BY <1>2, <1>3, <2>1, QuietStep
<1>6. CASE RefreshReady \/ RefreshFails
  <2>1. UNCHANGED Labels /\ queue' = queue
    BY <1>6 DEF RefreshReady, RefreshFails, Labels
  <2>2. QED BY <1>2, <2>1, QuietStep
<1>7. CASE StartRefresh
  <2>1. UNCHANGED <<durable, pc, config, next, recoveryError, activityRulesReady,
                    hasCommittedConfig, queue>>
    BY <1>7 DEF StartRefresh
  <2>2. Job' = Job /\ Committed' = Committed
    BY <2>1 DEF Job, Committed, durable
  <2>3. QED
    BY <2>1, <2>2 DEF IInv, Kept, durable, MemoryAgrees, RulesAgree, JournalCovers,
       AttributionOff, JobUnderWay, StampVouches
<1>8. CASE Crash \/ Sleep
  <2>1. UNCHANGED durable /\ pc' = "dead" /\ recoveryError' = FALSE
        /\ activityRulesReady' = FALSE
    BY <1>8 DEF Crash, Sleep, Forget
  <2>2. QED
    BY <2>1 DEF IInv, Kept, durable, MemoryAgrees, RulesAgree, JournalCovers,
       AttributionOff, JobUnderWay, StampVouches, Up, Starting, Committing, Enforcing,
       Journaled
<1>9. CASE Wake
  BY <1>9 DEF Wake, IInv, Kept, durable, memory, MemoryAgrees, RulesAgree, JournalCovers,
     AttributionOff, JobUnderWay, StampVouches, Up, Starting, Committing, Enforcing,
     Journaled
<1>10. QED BY <1>4, <1>5, <1>6, <1>7, <1>8, <1>9 DEF Requests, Refreshing

\* Every step keeps the inductive invariant.
LEMMA NextIInv == IInv /\ [Next]_vars => IInv'
<1> SUFFICES ASSUME IInv, [Next]_vars PROVE IInv'
  OBVIOUS
<1>1. TypeOK'
  BY TypeStep DEF IInv, Kept
<1>2. CASE Next
  BY <1>1, <1>2, InitializeStep, QueueStep, OutsideStep DEF Next, IInv
<1>3. CASE UNCHANGED vars
  <2>1. UNCHANGED Labels /\ queue' = queue
    BY <1>3 DEF vars, Labels
  <2>2. pc \in {"compile"} \cup Committing => queue # << >>
    BY DEF IInv, Kept, JobUnderWay
  <2>3. QED BY <1>1, <2>1, <2>2, QuietStep DEF IInv
<1>4. QED BY <1>2, <1>3

-----------------------------------------------------------------------------
\* The inductive invariant holds in every reachable state.
THEOREM Invariance == Spec => []IInv
BY InitIInv, NextIInv, PTL DEF Spec

\* All variables keep their types.
THEOREM TypeCorrect == Spec => []TypeOK
<1>1. IInv => TypeOK
  BY DEF IInv
<1>2. QED BY <1>1, Invariance, PTL

\* Trusting a matching stamp at the start (initialize) is sound: without a journal,
\* a stamp that matches the stored configuration means the browser has its rules,
\* at every point of every start, commit, rollback and crash.
THEOREM StampIsSound == Spec => []StampVouches
<1>1. IInv => StampVouches
  BY DEF IInv, Kept
<1>2. QED BY <1>1, Invariance, PTL

\* A failed rollback leaves the journal for the restart it asks for (commit).
THEOREM JournalSurvives == Spec => []RecoveryKeepsJournal
<1>1. IInv => RecoveryKeepsJournal
  BY DEF IInv, Kept, JournalCovers, RecoveryKeepsJournal
<1>2. QED BY <1>1, Invariance, PTL

\* Between jobs the worker's memory, storage and the browser's rules agree.
THEOREM Agreement == Spec => []AgreeWhenIdle
<1>1. IInv => AgreeWhenIdle
  BY DEF IInv, Kept, MemoryAgrees, RulesAgree, AttributionOff, AgreeWhenIdle, Up, Enforcing
<1>2. QED BY <1>1, Invariance, PTL

\* While describeActivityRule answers, it answers for the rules that are installed.
THEOREM Attribution == Spec => []AttributionExact
<1>1. ASSUME IInv PROVE AttributionExact
  <2>1. activityRulesReady /\ ~recoveryError => config \in Configs /\ dnr = desiredRules(config)
    BY <1>1 DEF IInv, Kept, TypeOK, MemoryAgrees, RulesAgree, AttributionOff, Up, Enforcing
  <2>2. QED BY <2>1, InstalledRulesAreDescribed DEF AttributionExact
<1>2. QED BY <1>1, Invariance, PTL

-----------------------------------------------------------------------------
(* The controller implements AtomicConfig: Save is the moment at which an  *)
(* operation takes effect, and every other step is a request, an answer,   *)
(* the worker's end or start, or invisible.                                *)

\* Nothing waits for a stopped worker.
DeadIsEmpty == pc = "dead" => queue = << >> /\ refresh.phase = "idle"

\* Every initial state satisfies it.
LEMMA InitDeadIsEmpty == Init => DeadIsEmpty
BY DEF Init, DeadIsEmpty

\* Every step keeps it.
LEMMA NextDeadIsEmpty == IInv /\ DeadIsEmpty /\ [Next]_vars => DeadIsEmpty'
<1> SUFFICES ASSUME IInv, DeadIsEmpty, [Next]_vars PROVE DeadIsEmpty'
  OBVIOUS
<1>1. CASE Requests
  <2>1. pc # "dead" /\ pc' = pc
    BY <1>1 DEF Requests, Submit, StartRefresh, Request
  <2>2. QED BY <2>1 DEF DeadIsEmpty
<1>2. CASE Refreshing
  <2>1. refresh.phase # "idle" /\ pc' = pc
    BY <1>2 DEF Refreshing, RefreshReady, RefreshFetched, RefreshFails
  <2>2. QED BY <2>1 DEF DeadIsEmpty
<1>3. CASE Initialize
  BY <1>3 DEF Initialize, InitRead, InitApply, InitClear, InitStamp, InitFails, Ready,
     DeadIsEmpty
<1>4. CASE RunQueue
  <2>1. pc' # "dead"
    BY <1>4 DEF RunQueue, RefuseAll, Refuse, StartCompile, CompileFails, StartCommit, Journal,
       ApplyRules, Unjournal, Save, SaveFails, Rollback, RollbackClear, RollbackFails, Clear,
       Notify, Await, EndJob, Runnable
  <2>2. QED BY <2>1 DEF DeadIsEmpty
<1>5. CASE Crash \/ Sleep
  BY <1>5 DEF Crash, Sleep, Forget, Idle, DeadIsEmpty
<1>6. CASE Wake
  BY <1>6 DEF Wake, DeadIsEmpty
<1>7. CASE UNCHANGED vars
  BY <1>7 DEF vars, DeadIsEmpty
<1>8. QED BY <1>1, <1>2, <1>3, <1>4, <1>5, <1>6, <1>7 DEF Next

\* The abstract specification speaks of the same operations.
LEMMA AbstractOperations ==
  /\ Abstract!Ops = Ops
  /\ Abstract!Configs = Configs
  /\ \A op, c : Abstract!Update(op, c) = Update(op, c)
  /\ \A op, c : Abstract!Admitted(op, c) <=> Admitted(op, c)
<1>0. \A S : Abstract!Cardinality(S) = Cardinality(S)
  BY Zenon DEF Abstract!Cardinality, Cardinality
<1>1. Abstract!Ops = Ops
  BY DEF Abstract!Ops, Abstract!Requestable, Abstract!Locals, Ops, Requestable, Locals
<1>2. Abstract!Configs = Configs
  BY DEF Abstract!Configs, Abstract!Locals, Configs, Locals
<1>3. \A op, c : Abstract!Update(op, c) = Update(op, c)
  BY DEF Abstract!Update, Update
<1>4. ASSUME NEW op, NEW c PROVE Abstract!Admitted(op, c) <=> Admitted(op, c)
  <2>1. CASE op.kind = "site"
    BY <1>3, <1>0, <2>1 DEF Abstract!Admitted, Admitted
  <2>2. CASE op.kind = "pick"
    BY <2>2 DEF Abstract!Admitted, Admitted, Abstract!disabledBy, disabledBy,
       Abstract!AlreadyHidden, AlreadyHidden
  <2>3. CASE op.kind = "unpick"
    BY <2>3 DEF Abstract!Admitted, Admitted
  <2>4. CASE op.kind \notin {"site", "pick", "unpick"}
    BY <2>4 DEF Abstract!Admitted, Admitted
  <2>5. QED BY <2>1, <2>2, <2>3, <2>4
<1>5. QED BY <1>1, <1>2, <1>3, <1>4

AbstractState == <<Committed, pc # "dead", queue, pc \in {"clear", "notify"}>>

\* Initial states map to initial states.
LEMMA InitImplements == Init => Abstract!Init
<1> SUFFICES ASSUME Init PROVE Abstract!Init
  OBVIOUS
<1>1. Committed \in Abstract!Configs
  BY InitIInv, CommittedType, AbstractOperations DEF IInv
<1>2. QED BY <1>1 DEF Init, Abstract!Init

\* Steps of the queue and of commit map to Apply, to Settle or to nothing.
LEMMA QueueImplements ==
  ASSUME IInv, RunQueue
  PROVE  Abstract!Next \/ UNCHANGED AbstractState
<1> DEFINE Answers == /\ queue # << >> /\ queue' = Tail(queue)
                      /\ Committed' = Committed
                      /\ pc # "dead" /\ pc' # "dead" /\ pc' \notin {"clear", "notify"}
           Invisible == /\ Committed' = Committed /\ queue' = queue
                        /\ pc # "dead" /\ pc' # "dead"
                        /\ pc \in {"clear", "notify"} <=> pc' \in {"clear", "notify"}
<1>1. ASSUME Answers PROVE Abstract!Next
  BY <1>1 DEF Abstract!Next, Abstract!Settle
<1>2. ASSUME Invisible PROVE UNCHANGED AbstractState
  BY <1>2 DEF AbstractState
<1>3. pc \in {"compile"} \cup Committing => queue # << >>
  BY DEF IInv, Kept, JobUnderWay
<1>4. CASE Save
  <2>1. /\ queue # << >> /\ queue' = queue
        /\ next = Update(Job, config) /\ Admitted(Job, config)
        /\ config = Committed /\ next # None
        /\ pc = "save" /\ pc' = "clear" /\ storedConfig' = next
    BY <1>3, <1>4, NoneAssumption DEF Save, Await, Committing, Up, IInv, Kept, TypeOK,
       JobUnderWay, MemoryAgrees
  <2>2. Committed' = Abstract!Update(Head(queue), Committed)
    BY <2>1, AbstractOperations DEF Job, Committed
  <2>3. Abstract!Admitted(Head(queue), Committed)
    BY <2>1, AbstractOperations DEF Job
  <2>4. Abstract!Apply
    BY <2>1, <2>2, <2>3 DEF Abstract!Apply
  <2>5. QED BY <2>4 DEF Abstract!Next
<1>5. CASE RefuseAll \/ Refuse \/ CompileFails \/ RollbackClear \/ RollbackFails \/ Notify
           \/ Unjournal \/ (Journal /\ EndJob(FALSE))
  <2>1. Answers
    BY <1>3, <1>5 DEF RefuseAll, Refuse, CompileFails, RollbackClear, RollbackFails, Notify,
       Unjournal, Journal, Runnable, Settle, EndJob, KeepConfig, Committing, Committed, durable
  <2>2. QED BY <1>1, <2>1
<1>6. CASE StartCompile \/ StartCommit \/ ApplyRules \/ SaveFails \/ Rollback \/ Clear
           \/ (Journal /\ Await("apply"))
  <2>1. Invisible
    BY <1>6 DEF StartCompile, StartCommit, ApplyRules, SaveFails, Rollback, Clear, Journal,
       Runnable, Await, KeepConfig, Committed, durable
  <2>2. QED BY <1>2, <2>1
<1>7. Journal => EndJob(FALSE) \/ Await("apply")
  BY DEF Journal
<1>8. QED BY <1>4, <1>5, <1>6, <1>7 DEF RunQueue

\* Every step maps to a step of AtomicConfig or to nothing.
LEMMA NextImplements ==
  ASSUME IInv, DeadIsEmpty, [Next]_vars
  PROVE  Abstract!Next \/ UNCHANGED AbstractState
<1>1. ASSUME NEW op \in Ops, queue' = Append(queue, op), UNCHANGED <<storedConfig, pc>>,
             pc # "dead"
      PROVE  Abstract!Next
  <2>1. queue \in Seq(Ops)
    BY DEF IInv, TypeOK
  <2>2. queue' # << >> /\ Abstract!Newest(queue') = op
    BY <1>1, <2>1 DEF Abstract!Newest
  <2>3. Committed' = Committed
    BY <1>1 DEF Committed
  <2>4. Abstract!Submit
    BY <1>1, <2>2, <2>3, AbstractOperations DEF Abstract!Submit
  <2>5. QED BY <2>4 DEF Abstract!Next
<1>2. ASSUME NEW op \in Requestable, Submit(op) PROVE Abstract!Next
  BY <1>1, <1>2 DEF Submit, Request, Ops, durable
<1>3. ASSUME NEW snap \in Snapshots, RefreshFetched(snap) PROVE Abstract!Next
  <2>1. pc # "dead"
    BY <1>3 DEF RefreshFetched, DeadIsEmpty
  <2>2. [kind |-> "apply", snap |-> snap] \in Ops
    BY DEF Ops
  <2>3. QED BY <1>1, <1>3, <2>1, <2>2 DEF RefreshFetched, durable
<1>4. CASE StartRefresh \/ RefreshReady \/ RefreshFails
  BY <1>4 DEF StartRefresh, RefreshReady, RefreshFails, AbstractState, Committed, durable
<1>5. CASE Initialize
  BY <1>5 DEF Initialize, InitRead, InitApply, InitClear, InitStamp, InitFails, Ready,
     InitUnchanged, AbstractState, Committed, Starting
<1>6. CASE RunQueue
  BY <1>6, QueueImplements
<1>7. CASE Crash \/ Sleep
  <2>1. pc # "dead" /\ pc' = "dead" /\ queue' = << >> /\ Committed' = Committed
    BY <1>7 DEF Crash, Sleep, Quiet, Forget, Committed, durable
  <2>2. Abstract!Stop
    BY <2>1 DEF Abstract!Stop
  <2>3. QED BY <2>2 DEF Abstract!Next
<1>8. CASE Wake
  <2>1. pc = "dead" /\ pc' = "read" /\ queue' = queue /\ Committed' = Committed
    BY <1>8 DEF Wake, Committed, durable
  <2>2. Abstract!Start
    BY <2>1 DEF Abstract!Start
  <2>3. QED BY <2>2 DEF Abstract!Next
<1>9. CASE UNCHANGED vars
  BY <1>9 DEF vars, durable, AbstractState, Committed
<1>10. QED
  BY <1>2, <1>3, <1>4, <1>5, <1>6, <1>7, <1>8, <1>9 DEF Next, Requests, Refreshing

\* The controller implements AtomicConfig: no interleaving of requests, refreshes,
\* failed calls, crashes and restarts makes the stored configuration anything but
\* the result of whole operations, each applied once, in order.
THEOREM Implementation == Spec => ImplementsAtomicConfig
<1>1. IInv /\ DeadIsEmpty /\ [Next]_vars => Abstract!Next \/ UNCHANGED AbstractState
  BY NextImplements
<1>2. IInv /\ DeadIsEmpty /\ [Next]_vars => [Abstract!Next]_(Abstract!vars)
  BY <1>1 DEF Abstract!vars, AbstractState
<1>3. Spec => []DeadIsEmpty
  BY InitDeadIsEmpty, NextDeadIsEmpty, Invariance, PTL DEF Spec
<1>4. QED
  BY <1>2, <1>3, InitImplements, Invariance, PTL DEF Spec, ImplementsAtomicConfig,
     Abstract!Spec

-----------------------------------------------------------------------------
(* The quota.  A configuration within the refresh's budget and the limit   *)
(* on paused sites fits whatever local list it is given.                   *)

Roomy(c) ==
  Len(SubscriptionRules(c)) <= NetworkBudget /\ Cardinality(c.disabledSites) <= MaxSites

BudgetKept ==
  /\ Roomy(Committed)
  /\ Roomy(next)
  /\ \A i \in 1 .. Len(queue) :
       queue[i].kind = "apply" => Len(SnapRules[queue[i].snap]) <= NetworkBudget

\* The empty configuration leaves all the room there is.
LEMMA EmptyIsRoomy == NetworkBudget \in Nat /\ Roomy(emptyConfig)
<1>1. NetworkBudget \in Nat
  BY LimitsAssumption DEF NetworkBudget
<1>2. SubscriptionRules(emptyConfig) = << >> /\ emptyConfig.disabledSites = {}
  BY DEF emptyConfig, SubscriptionRules
<1>3. QED BY <1>1, <1>2, FS_EmptySet, LimitsAssumption DEF Roomy

\* Room is enough for the quota, protection enabled.
LEMMA RoomyFits ==
  ASSUME NEW c \in Configs, Roomy(c), MaxDynamicRules >= MaxRules + MaxSites
  PROVE  WithinQuota([c EXCEPT !.enabled = TRUE])
<1> DEFINE d == [c EXCEPT !.enabled = TRUE]
<1>1. /\ SubscriptionRules(d) = SubscriptionRules(c) /\ LocalRules(d) = LocalRules(c)
      /\ d.disabledSites = c.disabledSites /\ d.enabled
  BY DEF Configs, SubscriptionRules, LocalRules
<1>2. Len(LocalRules(c)) \in Nat /\ Len(LocalRules(c)) <= MaxRules
  BY ListsAssumption DEF Configs, Locals, LocalRules
<1>3. Len(SubscriptionRules(c)) \in Nat
  BY PartIds
<1>4. Cardinality(c.disabledSites) \in Nat
  BY SitesAssumption, FS_Subset, FS_CardinalityType DEF Configs
<1>5. Len(SubscriptionRules(c)) + MaxRules + MaxSites <= MaxDynamicRules
  BY <1>3, LimitsAssumption DEF Roomy, NetworkBudget
<1>6. RuleCount(d) <= MaxDynamicRules
  BY <1>1, <1>2, <1>3, <1>4, <1>5, LimitsAssumption DEF Roomy, RuleCount
<1>7. QED BY <1>6 DEF WithinQuota

\* An admitted operation leaves room; an installed snapshot is within the budget.
LEMMA UpdateIsRoomy ==
  ASSUME NEW op \in Ops, NEW c \in Configs, Roomy(c), Admitted(op, c),
         op.kind = "apply" => Len(SnapRules[op.snap]) <= NetworkBudget
  PROVE  Roomy(Update(op, c))
<1>1. CASE op.kind = "site"
  <2>1. Cardinality(Update(op, c).disabledSites) <= MaxSites
    BY <1>1 DEF Admitted
  <2>2. SubscriptionRules(Update(op, c)) = SubscriptionRules(c)
    BY <1>1 DEF Update, Configs, SubscriptionRules
  <2>3. QED BY <2>1, <2>2 DEF Roomy
<1>2. CASE op.kind = "remove"
  <2>1. SubscriptionRules(Update(op, c)) = << >> /\ Update(op, c).disabledSites = c.disabledSites
    BY <1>2 DEF Update, Configs, SubscriptionRules
  <2>2. QED BY <2>1, EmptyIsRoomy DEF Roomy
<1>3. CASE op.kind = "apply"
  <2>1. /\ SubscriptionRules(Update(op, c)) = SnapRules[op.snap]
        /\ Update(op, c).disabledSites = c.disabledSites
    BY <1>3, SnapshotsAssumption DEF Ops, Requestable, Update, Configs, SubscriptionRules
  <2>2. QED BY <1>3, <2>1 DEF Roomy
<1>4. CASE op.kind \in {"import", "enabled", "pick", "unpick"}
  <2>1. /\ SubscriptionRules(Update(op, c)) = SubscriptionRules(c)
        /\ Update(op, c).disabledSites = c.disabledSites
    BY <1>4 DEF Update, Configs, SubscriptionRules
  <2>2. QED BY <2>1 DEF Roomy
<1>5. op.kind \in {"import", "enabled", "site", "remove", "pick", "unpick", "apply"}
  BY DEF Ops, Requestable
<1>6. QED BY <1>1, <1>2, <1>3, <1>4, <1>5

\* Every initial state keeps to the budget.
LEMMA InitBudget == Init => BudgetKept
<1> SUFFICES ASSUME Init PROVE BudgetKept
  OBVIOUS
<1>1. Roomy(Committed)
  BY EmptyIsRoomy DEF Init, Committed, Installable, Roomy
<1>2. QED BY <1>1, EmptyIsRoomy DEF Init, BudgetKept

\* Every step keeps to it.
LEMMA NextBudget == IInv /\ BudgetKept /\ [Next]_vars => BudgetKept'
<1> SUFFICES ASSUME IInv, BudgetKept, [Next]_vars PROVE BudgetKept'
  OBVIOUS
<1>1. queue \in Seq(Ops) /\ config \in Configs /\ next \in Configs
  BY DEF IInv, TypeOK
<1>2. ASSUME UNCHANGED <<storedConfig, next, queue>> PROVE BudgetKept'
  BY <1>2 DEF BudgetKept, Committed, Roomy
<1>3. ASSUME NEW op \in Ops, UNCHANGED <<storedConfig, next>>, queue' = Append(queue, op),
             op.kind = "apply" => Len(SnapRules[op.snap]) <= NetworkBudget
      PROVE  BudgetKept'
  <2>1. \A i \in 1 .. Len(queue') : queue'[i] = IF i = Len(queue) + 1 THEN op ELSE queue[i]
    BY <1>1, <1>3
  <2>2. Len(queue') = Len(queue) + 1 /\ Len(queue) \in Nat
    BY <1>1, <1>3
  <2>3. QED BY <1>3, <2>1, <2>2 DEF BudgetKept, Committed, Roomy
<1>4. ASSUME UNCHANGED <<storedConfig, next>>, queue # << >>, queue' = Tail(queue)
      PROVE  BudgetKept'
  <2>1. Len(queue') = Len(queue) - 1 /\ Len(queue) \in Nat
        /\ \A i \in 1 .. Len(queue') : queue'[i] = queue[i + 1]
    BY <1>1, <1>4
  <2>2. QED BY <1>4, <2>1 DEF BudgetKept, Committed, Roomy
<1>5. CASE Requests
  <2>1. ASSUME NEW op \in Requestable, Submit(op) PROVE BudgetKept'
    BY <1>3, <2>1 DEF Submit, Requestable, Ops, durable, memory
  <2>2. QED BY <1>2, <1>5, <2>1 DEF Requests, StartRefresh, durable
<1>6. CASE Refreshing
  <2>1. ASSUME NEW snap \in Snapshots, RefreshFetched(snap) PROVE BudgetKept'
    <3>1. [kind |-> "apply", snap |-> snap] \in Ops
      BY DEF Ops
    <3>2. QED BY <1>3, <2>1, <3>1 DEF RefreshFetched, durable, memory
  <2>2. QED BY <1>2, <1>6, <2>1 DEF Refreshing, RefreshReady, RefreshFails, durable, memory
<1>7. CASE Initialize
  BY <1>2, <1>7 DEF Initialize, InitRead, InitApply, InitClear, InitStamp, InitFails,
     InitUnchanged
<1>8. CASE RunQueue
  <2>1. pc \in {"compile"} \cup Committing => queue # << >>
    BY DEF IInv, Kept, JobUnderWay
  <2>2. CASE StartCommit
    <3>1. /\ queue # << >> /\ config = Committed /\ Admitted(Job, config)
          /\ UNCHANGED <<storedConfig, queue>> /\ next' = Update(Job, config)
      BY <2>1, <2>2 DEF StartCommit, Runnable, durable, IInv, Kept, JobUnderWay,
         MemoryAgrees, Up
    <3>2. Job \in Ops /\ (Job.kind = "apply" => Len(SnapRules[Job.snap]) <= NetworkBudget)
      BY <1>1, <3>1 DEF Job, BudgetKept
    <3>3. Roomy(next')
      BY <1>1, <3>1, <3>2, UpdateIsRoomy DEF BudgetKept
    <3>4. QED BY <3>1, <3>3 DEF BudgetKept, Committed, Roomy
  <2>3. CASE Save
    <3>1. Committed' = next /\ UNCHANGED <<next, queue>>
      BY <1>1, <2>3, NoneAssumption DEF Save, Committed, CommitUnchanged, Await
    <3>2. QED BY <3>1 DEF BudgetKept, Roomy
  <2>4. CASE RefuseAll \/ Refuse \/ CompileFails \/ RollbackClear \/ RollbackFails \/ Notify
             \/ Unjournal \/ (Journal /\ EndJob(FALSE))
    BY <1>4, <2>1, <2>4 DEF RefuseAll, Refuse, CompileFails, RollbackClear, RollbackFails,
       Notify, Unjournal, Journal, Runnable, Settle, EndJob, KeepConfig, CommitUnchanged,
       Committing, durable, memory
  <2>5. CASE StartCompile \/ ApplyRules \/ SaveFails \/ Rollback \/ Clear
             \/ (Journal /\ Await("apply"))
    BY <1>2, <2>5 DEF StartCompile, ApplyRules, SaveFails, Rollback, Clear, Journal,
       Await, KeepConfig, CommitUnchanged, durable, memory
  <2>6. Journal => EndJob(FALSE) \/ Await("apply")
    BY DEF Journal
  <2>7. QED BY <1>8, <2>2, <2>3, <2>4, <2>5, <2>6 DEF RunQueue
<1>9. CASE Crash \/ Sleep
  BY <1>9, EmptyIsRoomy DEF Crash, Sleep, Forget, BudgetKept, Committed, durable, Roomy
<1>10. CASE Wake
  BY <1>2, <1>10 DEF Wake, durable, memory
<1>11. CASE UNCHANGED vars
  BY <1>2, <1>11 DEF vars, durable, memory
<1>12. QED BY <1>5, <1>6, <1>7, <1>8, <1>9, <1>10, <1>11 DEF Next

\* The 2,200 rules the refresh sets aside are enough: on a browser with that much
\* room no operation, rollback or reconciliation ever meets the quota check.
THEOREM QuotaSuffices == Spec => []QuotaNeverBlocks
<1>1. ASSUME IInv, BudgetKept PROVE QuotaNeverBlocks
  <2>1. Committed \in Configs /\ next \in Configs
    BY <1>1, CommittedType DEF IInv, TypeOK
  <2>2. QED BY <1>1, <2>1, RoomyFits DEF BudgetKept, QuotaNeverBlocks
<1>2. Spec => []BudgetKept
  BY InitBudget, NextBudget, Invariance, PTL DEF Spec
<1>3. QED BY <1>1, <1>2, Invariance, PTL

-----------------------------------------------------------------------------
(* Removals and refreshes.  A removal asked for during a refresh either    *)
(* has moved the generation on, or still waits behind the running job, or  *)
(* will be refused together with the refresh's result.                     *)

NoneAnswers == recoveryError \/ pc = "failed"

RemovalWaits ==
  \E i \in 1 .. Len(queue) : queue[i].kind = "remove" /\ (i = 1 => pc \notin Committing)

RefreshOrder ==
  /\ refresh.phase # "idle" => refresh.generation <= subscriptionGeneration
  /\ \A i \in 1 .. Len(queue) : queue[i].kind = "apply" => refresh.phase = "queued"
  /\ \A i, j \in 1 .. Len(queue) :
       queue[i].kind = "apply" /\ queue[j].kind = "apply" => i = j
  /\ (refresh.phase # "idle" /\ refresh.removalRequested)
       => \/ refresh.generation < subscriptionGeneration
          \/ RemovalWaits
          \/ NoneAnswers
  /\ (pc \in {"journal", "apply", "save"} /\ Job.kind = "apply")
       => refresh.generation = subscriptionGeneration

\* Every initial state satisfies it.
LEMMA InitRefreshOrder == Init => RefreshOrder
BY DEF Init, RefreshOrder, Idle

\* A step that touches neither the queue nor the refresh and ends no job keeps it.
LEMMA SameQueueOrder ==
  ASSUME IInv, RefreshOrder, UNCHANGED <<queue, refresh, subscriptionGeneration>>,
         pc' \in {"journal", "apply", "save"} => pc' = pc \/ pc \in {"journal", "apply"},
         pc' \in Committing => pc \in Committing,
         NoneAnswers => NoneAnswers'
  PROVE  RefreshOrder'
<1>1. Job' = Job
  BY DEF Job
<1>2. RemovalWaits => RemovalWaits'
  BY DEF RemovalWaits
<1>3. QED BY <1>1, <1>2 DEF RefreshOrder

\* Answering a job that is not a waiting removal keeps it.
LEMMA SettleOrder ==
  ASSUME IInv, RefreshOrder, queue # << >>, Settle, UNCHANGED subscriptionGeneration,
         pc' \notin Committing,
         Job.kind = "remove" => pc \in Committing \/ NoneAnswers,
         NoneAnswers => NoneAnswers'
  PROVE  RefreshOrder'
<1>1. queue \in Seq(Ops)
  BY DEF IInv, TypeOK
<1>2. Len(queue') = Len(queue) - 1 /\ Len(queue) \in Nat
      /\ \A i \in 1 .. Len(queue') : queue'[i] = queue[i + 1] /\ i + 1 \in 1 .. Len(queue)
  BY <1>1 DEF Settle
<1>3. Job = queue[1] /\ 1 \in 1 .. Len(queue)
  BY <1>1 DEF Job
<1>4. CASE Job.kind = "apply"
  <2>1. refresh' = Idle
    BY <1>4 DEF Settle
  <2>2. \A i \in 1 .. Len(queue') : queue'[i].kind # "apply"
    BY <1>2, <1>3, <1>4 DEF RefreshOrder
  <2>3. QED BY <2>1, <2>2 DEF RefreshOrder, Idle, Committing
<1>5. CASE Job.kind # "apply"
  <2>1. refresh' = refresh
    BY <1>5 DEF Settle
  <2>2. RemovalWaits => RemovalWaits' \/ NoneAnswers
    <3> SUFFICES ASSUME RemovalWaits, ~NoneAnswers PROVE RemovalWaits'
      OBVIOUS
    <3>1. PICK i \in 1 .. Len(queue) :
            queue[i].kind = "remove" /\ (i = 1 => pc \notin Committing)
      BY DEF RemovalWaits
    <3>2. i # 1
      BY <3>1, <1>3
    <3>3. i - 1 \in 1 .. Len(queue') /\ queue'[i - 1].kind = "remove"
      BY <1>2, <3>1, <3>2
    <3>4. QED BY <3>3 DEF RemovalWaits
  <2>3. \A i, j \in 1 .. Len(queue') :
          queue'[i].kind = "apply" /\ queue'[j].kind = "apply" => i = j
    <3> SUFFICES ASSUME NEW i \in 1 .. Len(queue'), NEW j \in 1 .. Len(queue'),
                        queue'[i].kind = "apply", queue'[j].kind = "apply"
                 PROVE  i = j
      OBVIOUS
    <3>1. i + 1 = j + 1
      BY <1>2 DEF RefreshOrder
    <3>2. QED BY <3>1
  <2>4. \A i \in 1 .. Len(queue') : queue'[i].kind = "apply" => refresh'.phase = "queued"
    BY <1>2, <2>1 DEF RefreshOrder
  <2>5. QED BY <2>1, <2>2, <2>3, <2>4 DEF RefreshOrder, Committing
<1>6. QED BY <1>4, <1>5

\* A request or a finished download at the end of the queue keeps it.
LEMMA AppendOrder ==
  ASSUME IInv, RefreshOrder, NEW op \in Ops, queue' = Append(queue, op),
         UNCHANGED <<pc, recoveryError, subscriptionGeneration>>,
         refresh'.generation = refresh.generation,
         refresh'.phase # "idle" => refresh.phase # "idle",
         refresh.phase = "queued" => refresh'.phase = "queued",
         op.kind = "apply" => refresh.phase # "queued" /\ refresh'.phase = "queued",
         (refresh'.phase # "idle" /\ refresh'.removalRequested)
           => refresh.removalRequested \/ op.kind = "remove"
  PROVE  RefreshOrder'
<1>1. queue \in Seq(Ops) /\ (pc \in Committing => queue # << >>)
  BY DEF IInv, Kept, TypeOK, JobUnderWay
<1>2. Len(queue') = Len(queue) + 1 /\ Len(queue) \in Nat
      /\ \A i \in 1 .. Len(queue') : queue'[i] = IF i = Len(queue) + 1 THEN op ELSE queue[i]
  BY <1>1
<1>3. pc \in Committing => Job' = Job
  BY <1>1, <1>2 DEF Job
<1>4. RemovalWaits => RemovalWaits'
  BY <1>2 DEF RemovalWaits
<1>5. op.kind = "remove" => RemovalWaits'
  <2> SUFFICES ASSUME op.kind = "remove" PROVE RemovalWaits'
    OBVIOUS
  <2>1. Len(queue) + 1 \in 1 .. Len(queue') /\ queue'[Len(queue) + 1].kind = "remove"
    BY <1>2
  <2>2. Len(queue) + 1 = 1 => pc' \notin Committing
    BY <1>1, <1>2
  <2>3. QED BY <2>1, <2>2 DEF RemovalWaits
<1>6. \A i \in 1 .. Len(queue') : queue'[i].kind = "apply" => refresh'.phase = "queued"
  BY <1>2 DEF RefreshOrder
<1>7. \A i, j \in 1 .. Len(queue') :
        queue'[i].kind = "apply" /\ queue'[j].kind = "apply" => i = j
  BY <1>2 DEF RefreshOrder
<1>8. NoneAnswers' <=> NoneAnswers
  BY DEF NoneAnswers
<1>9. QED BY <1>3, <1>4, <1>5, <1>6, <1>7, <1>8 DEF RefreshOrder, Committing

\* Starting a commit keeps it: a removal moves the generation on, and the apply
\* job has just compared it.
LEMMA StartCommitOrder ==
  ASSUME IInv, RefreshOrder, StartCommit
  PROVE  RefreshOrder'
<1>1. /\ queue \in Seq(Ops) /\ queue # << >> /\ subscriptionGeneration \in Nat
      /\ refresh.generation \in Int /\ ~recoveryError /\ pc \notin Committing /\ pc # "failed"
  BY DEF IInv, Kept, TypeOK, RefreshStates, JobUnderWay, JournalCovers, StartCommit, Runnable,
     Committing
<1>2. Job = queue[1] /\ 1 \in 1 .. Len(queue) /\ Job' = Job
  BY <1>1 DEF Job, StartCommit
<1>3. UNCHANGED <<queue, refresh>>
  BY DEF StartCommit
<1>4. Job.kind = "apply" => refresh.generation = subscriptionGeneration
                             /\ subscriptionGeneration' = subscriptionGeneration
  BY <1>1 DEF StartCommit, Outdated, IInv, Kept, JobUnderWay, Compiled
<1>5. CASE Job.kind = "remove"
  <2>1. subscriptionGeneration' = subscriptionGeneration + 1
    BY <1>5 DEF StartCommit
  <2>2. QED BY <1>1, <1>2, <1>3, <1>5, <2>1 DEF RefreshOrder
<1>6. CASE Job.kind # "remove"
  <2>1. subscriptionGeneration' = subscriptionGeneration
    BY <1>1, <1>6 DEF StartCommit
  <2>2. RemovalWaits => RemovalWaits'
    BY <1>2, <1>3, <1>6 DEF RemovalWaits
  <2>3. ~NoneAnswers
    BY <1>1 DEF NoneAnswers
  <2>4. QED BY <1>2, <1>3, <1>4, <2>1, <2>2, <2>3 DEF RefreshOrder
<1>7. QED BY <1>5, <1>6

\* Every step keeps it.
LEMMA NextRefreshOrder == IInv /\ DeadIsEmpty /\ RefreshOrder /\ [Next]_vars => RefreshOrder'
<1> SUFFICES ASSUME IInv, DeadIsEmpty, RefreshOrder, [Next]_vars PROVE RefreshOrder'
  OBVIOUS
<1>1. ASSUME NEW op \in Requestable, Submit(op) PROVE RefreshOrder'
  <2>1. op \in Ops /\ op.kind # "apply"
    BY DEF Ops, Requestable
  <2>2. refresh \in RefreshStates
    BY DEF IInv, TypeOK
  <2>3. /\ refresh'.generation = refresh.generation /\ refresh'.phase = refresh.phase
        /\ (refresh'.removalRequested => refresh.removalRequested \/ op.kind = "remove")
    BY <1>1, <2>2 DEF Submit, RefreshStates
  <2>4. queue' = Append(queue, op) /\ UNCHANGED <<pc, recoveryError, subscriptionGeneration>>
    BY <1>1 DEF Submit, memory
  <2>5. QED BY <2>1, <2>3, <2>4, AppendOrder
<1>2. CASE StartRefresh
  <2>1. /\ refresh.phase = "idle" /\ UNCHANGED <<pc, queue>>
        /\ refresh'.phase = "waiting" /\ refresh'.removalRequested = FALSE
        /\ refresh'.generation = subscriptionGeneration'
        /\ subscriptionGeneration' \in Nat
    BY <1>2 DEF StartRefresh, IInv, TypeOK
  <2>2. pc \in Committing => queue # << >>
    BY DEF IInv, Kept, JobUnderWay
  <2>3. \A i \in 1 .. Len(queue) : queue[i].kind # "apply"
    BY <2>1 DEF RefreshOrder
  <2>4. (pc \in Committing => Job.kind # "apply") /\ Job' = Job
    BY <2>1, <2>2, <2>3 DEF Job, IInv, TypeOK
  <2>5. QED BY <2>1, <2>3, <2>4 DEF RefreshOrder, Committing
<1>3. CASE RefreshReady \/ RefreshFails
  <2>1. /\ UNCHANGED <<pc, queue, subscriptionGeneration, recoveryError>>
        /\ refresh.phase \in {"waiting", "fetching"}
        /\ refresh' = Idle \/ refresh' = [refresh EXCEPT !.phase = "fetching"]
    BY <1>3 DEF RefreshReady, RefreshFails, memory
  <2>2. refresh \in RefreshStates /\ (pc \in Committing => queue # << >>) /\ queue \in Seq(Ops)
    BY DEF IInv, Kept, JobUnderWay, TypeOK
  <2>3. \A i \in 1 .. Len(queue) : queue[i].kind # "apply"
    BY <2>1 DEF RefreshOrder
  <2>4. (pc \in Committing => Job.kind # "apply") /\ Job' = Job
    BY <2>1, <2>2, <2>3 DEF Job
  <2>5. (RemovalWaits' <=> RemovalWaits) /\ (NoneAnswers' <=> NoneAnswers)
    BY <2>1 DEF RemovalWaits, NoneAnswers
  <2>6. refresh'.phase # "idle" => refresh'.generation = refresh.generation
                                    /\ refresh'.removalRequested = refresh.removalRequested
    BY <2>1, <2>2 DEF Idle, RefreshStates
  <2>7. QED BY <2>1, <2>3, <2>4, <2>5, <2>6 DEF RefreshOrder, Committing
<1>4. ASSUME NEW snap \in Snapshots, RefreshFetched(snap) PROVE RefreshOrder'
  <2> DEFINE op == [kind |-> "apply", snap |-> snap]
  <2>1. op \in Ops /\ op.kind = "apply"
    BY DEF Ops
  <2>2. /\ refresh.phase = "fetching" /\ refresh'.phase = "queued"
        /\ refresh'.generation = refresh.generation
        /\ refresh'.removalRequested = refresh.removalRequested
    BY <1>4 DEF RefreshFetched, IInv, TypeOK, RefreshStates
  <2>3. queue' = Append(queue, op) /\ UNCHANGED <<pc, recoveryError, subscriptionGeneration>>
    BY <1>4 DEF RefreshFetched, memory
  <2> HIDE DEF op
  <2>4. QED BY <2>1, <2>2, <2>3, AppendOrder
<1>5. CASE Initialize
  <2>1. /\ UNCHANGED <<queue, refresh, subscriptionGeneration, recoveryError>>
        /\ pc' \notin Committing /\ pc # "failed"
    BY <1>5 DEF Initialize, InitRead, InitApply, InitClear, InitStamp, InitFails,
       InitUnchanged, Ready, Starting, Committing
  <2>2. QED BY <2>1, SameQueueOrder DEF NoneAnswers, Committing
<1>6. CASE RunQueue
  <2>1. /\ pc \in {"compile"} \cup Committing => queue # << >>
        /\ recoveryError => pc = "idle"
    BY DEF IInv, Kept, JobUnderWay, JournalCovers
  <2>2. CASE RefuseAll \/ Refuse
    <3>1. /\ queue # << >> /\ Settle /\ UNCHANGED <<pc, recoveryError, subscriptionGeneration>>
          /\ pc \notin Committing
          /\ Job.kind = "remove" => NoneAnswers
      BY <2>2 DEF RefuseAll, Refuse, Runnable, NoneAnswers, Outdated, Admitted, memory,
         Committing
    <3>2. QED BY <3>1, SettleOrder DEF NoneAnswers
  <2>3. CASE CompileFails
    <3>1. /\ queue # << >> /\ Settle /\ UNCHANGED <<recoveryError, subscriptionGeneration>>
          /\ pc = "compile" /\ pc' = "idle"
      BY <2>1, <2>3 DEF CompileFails, memory
    <3>2. Job.kind # "remove"
      BY <3>1 DEF IInv, Kept, JobUnderWay, Compiled
    <3>3. QED BY <3>1, <3>2, SettleOrder DEF NoneAnswers, Committing
  <2>4. CASE (Journal /\ EndJob(FALSE)) \/ Unjournal \/ RollbackClear \/ RollbackFails \/ Notify
    <3>1. /\ queue # << >> /\ Settle /\ UNCHANGED subscriptionGeneration
          /\ pc \in Committing /\ pc' = "idle" /\ ~NoneAnswers
      BY <2>1, <2>4 DEF Journal, Unjournal, RollbackClear, RollbackFails, Notify, EndJob,
         CommitUnchanged, Committing, NoneAnswers
    <3>2. QED BY <3>1, SettleOrder DEF Committing
  <2>5. CASE StartCompile
    <3>1. UNCHANGED <<queue, refresh, subscriptionGeneration, recoveryError>>
          /\ pc = "idle" /\ pc' = "compile"
      BY <2>5 DEF StartCompile, Runnable, memory
    <3>2. QED BY <3>1, SameQueueOrder DEF NoneAnswers, Committing
  <2>6. CASE StartCommit
    BY <2>6, StartCommitOrder
  <2>7. CASE (Journal /\ Await("apply")) \/ ApplyRules \/ Save \/ SaveFails \/ Rollback \/ Clear
    <3>1. /\ UNCHANGED <<queue, refresh, subscriptionGeneration, recoveryError>>
          /\ pc \in Committing
          /\ pc' \in {"apply", "save"} => pc \in {"journal", "apply"}
          /\ pc' # "journal"
      BY <2>7 DEF Journal, ApplyRules, Save, SaveFails, Rollback, Clear, Await,
         CommitUnchanged, Committing
    <3>2. QED BY <3>1, SameQueueOrder DEF NoneAnswers, Committing
  <2>8. Journal => EndJob(FALSE) \/ Await("apply")
    BY DEF Journal
  <2>9. QED BY <1>6, <2>2, <2>3, <2>4, <2>5, <2>6, <2>7, <2>8 DEF RunQueue
<1>7. CASE Crash \/ Sleep
  BY <1>7 DEF Crash, Sleep, Forget, Idle, RefreshOrder
<1>8. CASE Wake
  BY <1>8, SameQueueOrder DEF Wake, memory, NoneAnswers, Committing
<1>9. CASE UNCHANGED vars
  BY <1>9, SameQueueOrder DEF vars, memory, NoneAnswers
<1>10. QED
  BY <1>1, <1>2, <1>3, <1>4, <1>5, <1>6, <1>7, <1>8, <1>9 DEF Next, Requests, Refreshing

\* Comparing generations inside the queue (refreshSubscriptions) is enough: whatever
\* the interleaving, a removal asked for during a refresh is either honoured or still
\* to come when the refresh's snapshot is saved.
THEOREM RemovalWins == Spec => RemovedStaysRemoved
<1>1. ASSUME IInv, RefreshOrder, Next, pc = "save", pc' = "clear", Job.kind = "apply",
             refresh.removalRequested
      PROVE  \E i \in 2 .. Len(queue) : queue[i].kind = "remove"
  <2>1. queue \in Seq(Ops) /\ queue # << >> /\ refresh \in RefreshStates /\ ~recoveryError
        /\ subscriptionGeneration \in Nat
    BY <1>1 DEF IInv, Kept, TypeOK, JobUnderWay, JournalCovers, Committing
  <2>2. Job = queue[1] /\ 1 \in 1 .. Len(queue)
    BY <2>1 DEF Job
  <2>3. refresh.phase = "queued" /\ refresh.generation = subscriptionGeneration
    BY <1>1, <2>2 DEF RefreshOrder
  <2>4. RemovalWaits
    BY <1>1, <2>1, <2>3 DEF RefreshOrder, NoneAnswers, RefreshStates
  <2>5. QED BY <1>1, <2>2, <2>4 DEF RemovalWaits
<1>2. IInv /\ RefreshOrder /\ [Next]_vars
        => [(pc = "save" /\ pc' = "clear" /\ Job.kind = "apply" /\ refresh.removalRequested)
              => \E i \in 2 .. Len(queue) : queue[i].kind = "remove"]_vars
  BY <1>1
<1>3. Spec => []DeadIsEmpty
  BY InitDeadIsEmpty, NextDeadIsEmpty, Invariance, PTL DEF Spec
<1>4. Spec => []RefreshOrder
  BY <1>3, InitRefreshOrder, NextRefreshOrder, Invariance, PTL DEF Spec
<1>5. QED BY <1>2, <1>4, Invariance, PTL DEF Spec, RemovedStaysRemoved
=============================================================================
