------------------------------ MODULE Controller ------------------------------
(***************************************************************************)
(* The extension's controller: one service worker that keeps three things  *)
(* in step which no transaction spans - its configuration in memory, the   *)
(* configuration in extension storage and the dynamic rules of the browser *)
(* - while storage and the rule engine may fail any call and the browser   *)
(* may stop the worker between any two of them.                            *)
(*                                                                         *)
(* Operations run one at a time through a promise queue; pc is the await   *)
(* at which the worker stands, in initialize, in a job or in commit.  The  *)
(* subscription refresh downloads outside the queue and re-enters it with  *)
(* an "apply" operation.  A call to the browser takes effect or fails as a *)
(* whole (chrome.storage and declarativeNetRequest are external); a step   *)
(* is the effect of one awaited call with the code that runs when it       *)
(* answers, and Crash stands between any two.                              *)
(***************************************************************************)
EXTENDS RuleConfig

CONSTANTS
  MaxOps,    \* bound: operations and refreshes requested in a behaviour
  MaxFaults  \* bound: failed browser calls and crashes in a behaviour

ASSUME BoundsAssumption == {MaxOps, MaxFaults} \subseteq Nat

VARIABLES
  \* Durable: chrome.storage.local and the browser's dynamic rules.
  storedConfig, pending, appliedRuleStamp, dnr,
  \* The worker's memory.
  pc, config, next, queue, recoveryError, activityRulesReady,
  hasCommittedConfig, subscriptionGeneration, refresh,
  \* The bounds' counters.
  requested, faults

durable == <<storedConfig, pending, appliedRuleStamp, dnr>>
memory == <<config, next, recoveryError, activityRulesReady, hasCommittedConfig,
            subscriptionGeneration>>
vars == <<durable, pc, memory, queue, refresh, requested, faults>>

Starting == {"read", "initApply", "initClear", "initStamp"}
Committing == {"journal", "apply", "unjournal", "save", "rollback",
               "rollbackClear", "clear", "notify"}
RefreshStates == [phase : {"idle", "waiting", "fetching", "queued"},
                  generation : Nat, removalRequested : BOOLEAN]
Idle == [phase |-> "idle", generation |-> 0, removalRequested |-> FALSE]

-----------------------------------------------------------------------------
(* The stored configuration, and the one a worker that finds none starts from. *)
Committed == IF storedConfig = None THEN emptyConfig ELSE storedConfig

\* Configurations a commit on this browser can have left behind.
Installable(c) ==
  /\ WithinQuota(c)
  /\ Len(SubscriptionRules(c)) <= NetworkBudget
  /\ Cardinality(c.disabledSites) <= MaxSites

\* A profile that never saved, or one an earlier version left without a stamp
\* and with rules nobody vouches for; the worker has just been started.
Init ==
  /\ storedConfig \in {c \in Configs : Installable(c)} \cup {None}
  /\ pending = None
  /\ appliedRuleStamp = None
  /\ dnr \in IF storedConfig = None THEN {{}} ELSE RuleSets
  /\ pc = "read"
  /\ config = emptyConfig
  /\ next = emptyConfig
  /\ queue = << >>
  /\ recoveryError = FALSE
  /\ activityRulesReady = FALSE
  /\ hasCommittedConfig = FALSE
  /\ subscriptionGeneration = 0
  /\ refresh = Idle
  /\ requested = 0
  /\ faults = 0

-----------------------------------------------------------------------------
(* Calls to the browser. *)

Succeeds == UNCHANGED faults
Fails == faults < MaxFaults /\ faults' = faults + 1

\* applyRules: the quota is checked first, then the rules are replaced at once.
applyRules(c) == WithinQuota(c) /\ Succeeds /\ dnr' = desiredRules(c)
applyRulesFails(c) ==
  /\ IF WithinQuota(c) THEN Fails ELSE Succeeds
  /\ UNCHANGED dnr

-----------------------------------------------------------------------------
(* Requests: messages from the interface pages and the picker. *)

Request == pc # "dead" /\ requested < MaxOps /\ requested' = requested + 1

Submit(op) ==
  /\ Request
  /\ queue' = Append(queue, op)
  /\ refresh' = [refresh EXCEPT
       !.removalRequested = @ \/ (op.kind = "remove" /\ refresh.phase # "idle")]
  /\ UNCHANGED <<durable, pc, memory, faults>>

\* The generation is taken before the first await; a second refresh is refused.
StartRefresh ==
  /\ Request
  /\ refresh.phase = "idle"
  /\ subscriptionGeneration' = subscriptionGeneration + 1
  /\ refresh' = [phase |-> "waiting", generation |-> subscriptionGeneration + 1,
                 removalRequested |-> FALSE]
  /\ UNCHANGED <<durable, pc, config, next, recoveryError, activityRulesReady,
                 hasCommittedConfig, queue, faults>>

RefreshReady ==
  /\ refresh.phase = "waiting"
  /\ pc \notin Starting
  /\ refresh' = IF pc = "failed" \/ recoveryError THEN Idle
                ELSE [refresh EXCEPT !.phase = "fetching"]
  /\ UNCHANGED <<durable, pc, memory, queue, requested, faults>>

\* Mutant: the generation is taken when the download ends.
RefreshFetchedLate(snap) ==
  /\ refresh.phase = "fetching"
  /\ Len(SnapRules[snap]) <= NetworkBudget
  /\ refresh' = [refresh EXCEPT !.phase = "queued", !.generation = subscriptionGeneration]
  /\ queue' = Append(queue, [kind |-> "apply", snap |-> snap])
  /\ UNCHANGED <<durable, pc, memory, requested, faults>>

\* Every page of a snapshot within the budget arrived and was validated.
RefreshFetched(snap) ==
  /\ refresh.phase = "fetching"
  /\ Len(SnapRules[snap]) <= NetworkBudget
  /\ refresh' = [refresh EXCEPT !.phase = "queued"]
  /\ queue' = Append(queue, [kind |-> "apply", snap |-> snap])
  /\ UNCHANGED <<durable, pc, memory, requested, faults>>

\* Mutant: a failed download is tried again, for as long as it takes.
RefreshFailsRetrying ==
  /\ refresh.phase = "fetching"
  /\ refresh' = [refresh EXCEPT !.phase = "waiting"]
  /\ UNCHANGED <<durable, pc, memory, queue, requested, faults>>

\* The companion is missing, failed, timed out or answered nonsense.
RefreshFails ==
  /\ refresh.phase = "fetching"
  /\ refresh' = Idle
  /\ UNCHANGED <<durable, pc, memory, queue, requested, faults>>

-----------------------------------------------------------------------------
(* initialize *)

Ready(committedBefore) ==
  /\ pc' = "idle"
  /\ activityRulesReady' = TRUE
  /\ hasCommittedConfig' = committedBefore

InitUnchanged ==
  UNCHANGED <<storedConfig, next, queue, recoveryError, subscriptionGeneration,
              refresh, requested>>

NotReady == UNCHANGED <<activityRulesReady, hasCommittedConfig>>

\* Mutant: rules of an earlier version are trusted without a stamp.
InitReadTrusting ==
  /\ pc = "read"
  /\ Succeeds
  /\ config' = Committed
  /\ \/ pending # None /\ pc' = "initApply" /\ NotReady
     \/ pending = None /\ Ready(storedConfig # None)
  /\ InitUnchanged
  /\ UNCHANGED <<pending, appliedRuleStamp, dnr>>

InitRead ==
  /\ pc = "read"
  /\ Succeeds
  /\ config' = Committed
  /\ \/ /\ \/ pending # None
           \/ storedConfig # None /\ appliedRuleStamp # ruleStamp(Committed)
        /\ pc' = "initApply"
        /\ NotReady
     \/ /\ pending = None
        /\ storedConfig = None \/ appliedRuleStamp = ruleStamp(Committed)
        /\ Ready(storedConfig # None)
  /\ InitUnchanged
  /\ UNCHANGED <<pending, appliedRuleStamp, dnr>>

InitApply ==
  /\ pc = "initApply"
  /\ applyRules(config)
  /\ pc' = IF pending # None THEN "initClear" ELSE "initStamp"
  /\ NotReady
  /\ InitUnchanged
  /\ UNCHANGED <<pending, appliedRuleStamp, config>>

InitClear ==
  /\ pc = "initClear"
  /\ Succeeds
  /\ pending' = None
  /\ \/ storedConfig # None /\ pc' = "initStamp" /\ NotReady
     \/ storedConfig = None /\ Ready(FALSE)
  /\ InitUnchanged
  /\ UNCHANGED <<appliedRuleStamp, dnr, config>>

InitStamp ==
  /\ pc = "initStamp"
  /\ Succeeds
  /\ appliedRuleStamp' = ruleStamp(config)
  /\ Ready(TRUE)
  /\ InitUnchanged
  /\ UNCHANGED <<pending, dnr, config>>

\* Any failed call rejects `ready` for the rest of the worker's life.
InitFails ==
  /\ pc \in Starting
  /\ IF pc = "initApply" THEN applyRulesFails(config) ELSE (Fails /\ UNCHANGED dnr)
  /\ pc' = "failed"
  /\ NotReady
  /\ InitUnchanged
  /\ UNCHANGED <<pending, appliedRuleStamp, config>>

Initialize == InitRead \/ InitApply \/ InitClear \/ InitStamp \/ InitFails

-----------------------------------------------------------------------------
(* The queue: one job at a time, none before `ready`. *)

Job == Head(queue)

\* The job's promise settles; an apply job ends its refresh.
Settle ==
  /\ queue' = Tail(queue)
  /\ refresh' = IF Job.kind = "apply" THEN Idle ELSE refresh

\* A failed start, or a latched recovery error, answers every operation.
RefuseAll ==
  /\ pc = "failed" \/ (pc = "idle" /\ recoveryError)
  /\ queue # << >>
  /\ Settle
  /\ UNCHANGED <<durable, pc, memory, requested, faults>>

Runnable == pc = "idle" /\ ~recoveryError /\ queue # << >>

\* A removal since the refresh began makes its result unwelcome.
Outdated(op) == op.kind = "apply" /\ refresh.generation # subscriptionGeneration

Refuse ==
  /\ Runnable
  /\ Outdated(Job) \/ ~Admitted(Job, config)
  /\ Settle
  /\ UNCHANGED <<durable, pc, memory, requested, faults>>

\* Mutant: compiles and commits without the operation's checks.
StartCompileUnchecked ==
  /\ Runnable
  /\ Compiled(Job)
  /\ pc' = "compile"
  /\ UNCHANGED <<durable, memory, queue, refresh, requested, faults>>

StartCompile ==
  /\ Runnable
  /\ Compiled(Job)
  /\ Admitted(Job, config)
  /\ pc' = "compile"
  /\ UNCHANGED <<durable, memory, queue, refresh, requested, faults>>

\* The companion refuses, times out, or does not support a picked selector.
CompileFails ==
  /\ pc = "compile"
  /\ Settle
  /\ pc' = "idle"
  /\ UNCHANGED <<durable, memory, requested, faults>>

-----------------------------------------------------------------------------
(* commit *)

\* Mutant: activity keeps being attributed while the rules change.
StartCommitAttributing ==
  /\ \/ pc = "compile"
     \/ Runnable /\ ~Compiled(Job) /\ ~Outdated(Job) /\ Admitted(Job, config)
  /\ next' = Update(Job, config)
  /\ subscriptionGeneration' = subscriptionGeneration
                               + (IF Job.kind = "remove" THEN 1 ELSE 0)
  /\ pc' = "journal"
  /\ UNCHANGED <<durable, config, recoveryError, activityRulesReady,
                 hasCommittedConfig, queue, refresh, requested, faults>>

StartCommit ==
  /\ \/ pc = "compile"
     \/ Runnable /\ ~Compiled(Job) /\ ~Outdated(Job) /\ Admitted(Job, config)
  /\ next' = Update(Job, config)
  /\ activityRulesReady' = FALSE
  /\ subscriptionGeneration' = subscriptionGeneration
                               + (IF Job.kind = "remove" THEN 1 ELSE 0)
  /\ pc' = "journal"
  /\ UNCHANGED <<durable, config, recoveryError, hasCommittedConfig, queue, refresh,
                 requested, faults>>

\* The commit returns or throws; its `finally` restores attribution unless a
\* failed rollback latched the recovery error.
EndJob(latched) ==
  /\ Settle
  /\ pc' = "idle"
  /\ recoveryError' = latched
  /\ activityRulesReady' = ~latched

CommitUnchanged == UNCHANGED <<next, subscriptionGeneration, requested>>
KeepConfig == UNCHANGED <<storedConfig, appliedRuleStamp, config, hasCommittedConfig>>
Await(label) ==
  pc' = label /\ UNCHANGED <<queue, refresh, activityRulesReady, recoveryError>>

\* Mutant: rules change without a journal.
JournalSkipped ==
  /\ pc = "journal"
  /\ Succeeds /\ UNCHANGED pending /\ Await("apply")
  /\ KeepConfig /\ CommitUnchanged /\ UNCHANGED dnr

Journal ==
  /\ pc = "journal"
  /\ \/ Succeeds /\ pending' = next /\ Await("apply")
     \/ Fails /\ UNCHANGED pending /\ EndJob(FALSE)
  /\ KeepConfig /\ CommitUnchanged /\ UNCHANGED dnr

ApplyRules ==
  /\ pc = "apply"
  /\ \/ applyRules(next) /\ Await("save")
     \/ applyRulesFails(next) /\ Await("unjournal")
  /\ KeepConfig /\ CommitUnchanged /\ UNCHANGED pending

Unjournal ==
  /\ pc = "unjournal"
  /\ \/ Succeeds /\ pending' = None
     \/ Fails /\ UNCHANGED pending
  /\ EndJob(FALSE)
  /\ KeepConfig /\ CommitUnchanged /\ UNCHANGED dnr

\* The configuration and the stamp of its rules are one write.
Save ==
  /\ pc = "save"
  /\ Succeeds
  /\ storedConfig' = next
  /\ appliedRuleStamp' = ruleStamp(next)
  /\ config' = next
  /\ hasCommittedConfig' = TRUE
  /\ Await("clear")
  /\ CommitUnchanged /\ UNCHANGED <<pending, dnr>>

SaveFails ==
  /\ pc = "save"
  /\ Fails
  /\ Await("rollback")
  /\ KeepConfig /\ CommitUnchanged /\ UNCHANGED <<pending, dnr>>

\* Mutant: the rules are not restored.
RollbackSkipped ==
  /\ pc = "rollback"
  /\ Succeeds
  /\ Await("rollbackClear")
  /\ KeepConfig /\ CommitUnchanged /\ UNCHANGED <<pending, dnr>>

\* Mutant: the journal is dropped before the rollback is complete.
RollbackUnjournals ==
  /\ pc = "rollback"
  /\ applyRules(config)
  /\ pending' = None
  /\ Await("rollbackClear")
  /\ KeepConfig /\ CommitUnchanged

Rollback ==
  /\ pc = "rollback"
  /\ applyRules(config)
  /\ Await("rollbackClear")
  /\ KeepConfig /\ CommitUnchanged /\ UNCHANGED pending

RollbackClear ==
  /\ pc = "rollbackClear"
  /\ Succeeds
  /\ pending' = None
  /\ EndJob(FALSE)
  /\ KeepConfig /\ CommitUnchanged /\ UNCHANGED dnr

\* Nobody knows the installed rules now; only a restart recovers.
RollbackFails ==
  /\ \/ pc = "rollback" /\ applyRulesFails(config)
     \/ pc = "rollbackClear" /\ Fails /\ UNCHANGED dnr
  /\ EndJob(TRUE)
  /\ KeepConfig /\ CommitUnchanged /\ UNCHANGED pending

Clear ==
  /\ pc = "clear"
  /\ \/ Succeeds /\ pending' = None
     \/ Fails /\ UNCHANGED pending
  /\ Await("notify")
  /\ KeepConfig /\ CommitUnchanged /\ UNCHANGED dnr

\* Open pages are told; whether that works changes nothing here.
Notify ==
  /\ pc = "notify"
  /\ EndJob(FALSE)
  /\ KeepConfig /\ CommitUnchanged /\ UNCHANGED <<pending, dnr, faults>>

RunQueue ==
  \/ RefuseAll \/ Refuse \/ StartCompile \/ CompileFails \/ StartCommit
  \/ Journal \/ ApplyRules \/ Unjournal \/ Save \/ SaveFails
  \/ Rollback \/ RollbackClear \/ RollbackFails \/ Clear \/ Notify

-----------------------------------------------------------------------------
(* The worker's lifetime. *)

Forget ==
  /\ pc' = "dead"
  /\ queue' = << >>
  /\ refresh' = Idle
  /\ config' = emptyConfig
  /\ next' = emptyConfig
  /\ recoveryError' = FALSE
  /\ activityRulesReady' = FALSE
  /\ hasCommittedConfig' = FALSE
  /\ subscriptionGeneration' = 0
  /\ UNCHANGED <<durable, requested>>

\* The browser stops the worker while something is under way.
Crash ==
  /\ pc # "dead"
  /\ Fails
  /\ Forget

\* An idle worker is put to sleep, or the user reloads the extension.
Quiet == pc \in {"idle", "failed"} /\ queue = << >> /\ refresh = Idle

Sleep == Quiet /\ Succeeds /\ Forget

Wake ==
  /\ pc = "dead"
  /\ pc' = "read"
  /\ UNCHANGED <<durable, memory, queue, refresh, requested, faults>>

Requests == (\E op \in Requestable : Submit(op)) \/ StartRefresh

Refreshing ==
  RefreshReady \/ (\E snap \in Snapshots : RefreshFetched(snap)) \/ RefreshFails

Next == Requests \/ Refreshing \/ Initialize \/ RunQueue \/ Crash \/ Sleep \/ Wake

Spec == Init /\ [][Next]_vars

\* Every awaited call answers, a stopped worker is woken by the next event, and
\* the browser stops a worker that has nothing to do.
Fairness ==
  WF_vars(Initialize) /\ WF_vars(RunQueue) /\ WF_vars(Refreshing)
    /\ WF_vars(Wake) /\ WF_vars(Sleep)

FairSpec == Spec /\ Fairness

-----------------------------------------------------------------------------
(* Properties. *)

\* Types of all variables.
TypeOK ==
  /\ storedConfig \in Configs \cup {None}
  /\ pending \in Configs \cup {None}
  /\ appliedRuleStamp \in Stamps \cup {None}
  /\ dnr \in RuleSets
  /\ pc \in {"dead", "failed", "idle", "compile"} \cup Starting \cup Committing
  /\ config \in Configs
  /\ next \in Configs
  /\ queue \in Seq(Ops)
  /\ recoveryError \in BOOLEAN
  /\ activityRulesReady \in BOOLEAN
  /\ hasCommittedConfig \in BOOLEAN
  /\ subscriptionGeneration \in Nat
  /\ refresh \in RefreshStates
  /\ requested \in Nat
  /\ faults \in Nat

\* A start that finds no journal and a matching stamp leaves the browser's rules
\* alone (initialize): at every instant, a stopped worker's included, storage in
\* that state means the installed rules are those of the stored configuration.
StampVouches ==
  /\ (pending = None /\ storedConfig # None /\ appliedRuleStamp = ruleStamp(storedConfig))
       => dnr = desiredRules(storedConfig)
  /\ (pending = None /\ storedConfig = None) => dnr = {}

\* Whenever describeActivityRule answers, every installed rule is described as
\* itself, under the list it came from: the debug event of a reused ID is never
\* explained by the configuration before or after.
AttributionExact ==
  (activityRulesReady /\ ~recoveryError) => \A r \in dnr : Describes(config, r)

\* Between two jobs memory, storage and the browser agree, after failed jobs as
\* after successful ones, unless a failed rollback has been reported; and page
\* totals are offered exactly when a configuration was ever committed.
AgreeWhenIdle ==
  (pc = "idle" /\ ~recoveryError) =>
    /\ config = Committed
    /\ dnr = desiredRules(Committed)
    /\ activityRulesReady
    /\ hasCommittedConfig <=> storedConfig # None

\* A latched recovery error leaves the journal behind, so that the restart it
\* asks for reconciles the rules.
RecoveryKeepsJournal == recoveryError => pending # None

\* With room for the local rules and site allowances set aside by the refresh's
\* budget, no configuration the worker commits, restores or re-enables can ever
\* exceed the browser's quota.
QuotaNeverBlocks ==
  MaxDynamicRules >= MaxRules + MaxSites =>
    \A c \in {Committed, next} : WithinQuota([c EXCEPT !.enabled = TRUE])

\* A refresh's snapshot is committed after a removal was requested only while
\* that removal still waits its turn: removed subscriptions do not come back
\* when an older refresh finishes, even if the removal's own commit failed.
RemovedStaysRemoved ==
  [][(pc = "save" /\ pc' = "clear" /\ Job.kind = "apply" /\ refresh.removalRequested)
       => \E i \in 2 .. Len(queue) : queue[i].kind = "remove"]_vars

\* The committed configuration behaves as AtomicConfig says.
Abstract == INSTANCE AtomicConfig
  WITH committed <- Committed, running <- pc # "dead", waiting <- queue,
       applied <- pc \in {"clear", "notify"}

ImplementsAtomicConfig == Abstract!Spec

\* Every operation is answered and every refresh ends, so that no failure leaves
\* the queue blocked or the refresh button dead.
EverythingSettles == []<>(queue = << >> /\ refresh = Idle)

\* Once calls stop failing, memory, storage and the browser agree again, however
\* the worker was stopped and whatever was latched.
EventuallyEnforced ==
  []<>(pc = "idle" /\ ~recoveryError /\ dnr = desiredRules(Committed))
=============================================================================
