# Formal models of not-another-ad-blocker

TLA+ modules that model the parts of this program where several things must
stay in step while calls fail, processes are stopped and events arrive in any
order; TLC configurations that check them on small instances; and TLAPS proofs,
for every instance, of the safety properties of the controller, of the activity log and of
the element picker's sessions, of the snapshot store that companion processes share, of the
compiler of downloaded lists and the way its rules take through pages, of the DNS policy
with its reports, of the DNS server with its cache, and of the order of style updates in a page. Every definition is
translated from the source; `PROJECT.json` gives the lines each one stands for.

1. [The system](#the-system): inventory, interaction, hard behaviours
2. [Modules](#modules): what models what
3. [Runs](#runs): what is checked, bounds, fairness
4. [Proofs](#proofs)
5. [What the models found](#what-the-models-found)
6. [Not modelled, and the plan](#not-modelled-and-the-plan)

## The system

A Chromium extension (TypeScript, `src/extension`) keeps a configuration -
enabled, paused sites, a local filter list, downloaded subscriptions - and
enforces it with the browser's dynamic declarativeNetRequest rules. A local
companion (Rust, `src/companion`) compiles filter lists for it over native
messaging. A DNS policy server (Rust, `src/companion/src/dns`) stands beside
them and shares nothing with the extension yet.

| component | source | state it keeps | operations | properties that make it correct |
|---|---|---|---|---|
| controller | `background/controller.ts`, `shared/types.ts` | in memory: config, recovery error, attribution flag, generation of subscription changes, promise queue; in extension storage: config, journal (`pending`), rule stamp; in the browser: dynamic rules | initialize, import, setEnabled, setSite, pick and unpick a block, refresh and remove subscriptions, view, describe a rule, cosmetics of a page | storage, memory and rules agree between operations and after any crash; an operation happens entirely or not at all, in turn, on the current configuration; a matched rule is described as the rule it is; removed subscriptions stay removed; the quota is never the reason an operation fails |
| recent activity | `background/activity.ts` | rows, deduplication keys, pending matches, dirty flag, timer, write in flight; rows in session storage | record, clear, removeTab, retainTabs, snapshot | no row of a closed tab; cleared rows do not come back; one row per match; what is not saved is reported |
| background wiring | `background/index.ts` | known tabs, tabs touched during startup | tab listeners, startup query, the storage and rule backends | the late startup answer never overrides a newer event |
| message router | `background/routes.ts` | none | sender checks, one call per message | only the extension's own pages reach the controller |
| picker sessions | `background/picker.ts`, `content/picker.ts` | a promise queue; a grant per tab in session storage; the panel in the page | start, save, undo, cancel, expiry, removal with the tab | what a session left in the list is what its grant lets the user undo, and never two rules; the panel is always answered |
| native client | `shared/native-client.ts` | request counter | status, compile, refresh (pages), timeout | a timed-out or malformed answer changes nothing |
| content script | `content/index.ts` | revision of the last cosmetic update, the style element | refresh at the start of a page, on a message of the worker and for the picker | the older of two overlapping updates never wins; every page comes to show the stored rules |
| snapshot store | `companion/src/lists.rs` | directories of staged and committed snapshots, shared by all companion processes | refresh (download, compile, cut into pages, stage, commit), page, prune | a committed snapshot is complete and immutable; pages are served whole or refused, and partition the rules; nobody's staging is removed under it |
| subscription compiler | `companion/src/subscription_rules.rs` | none (pure) | compile lists within a budget | nothing is blocked or hidden that the lists allow; what is lost is reported, and the reports add up |
| local list compiler | `companion/src/rules.rs` | none (pure) | compile a local list | limits |
| native host | `companion/src/main.rs`, `messaging.rs`, `protocol.rs` | one message at a time | frame, dispatch, answer | one answer per request; clean end of input |
| DNS cache, resolver, server, lists | `companion/src/dns` | cached answers with TTL; permits and tasks; sockets | lookup, store, query upstream with TCP retry, serve, shut down | no expired answer; permits are returned; exceptions before blocks |
| interface pages, build, packaging | `popup`, `options`, `activity` pages, `src/scripts` | forms | messages to the router | - |

How they interact: the pages and the picker send messages to the router, which
calls the controller; the controller calls the companion through the native
client (each call starts a companion process and may time out) and the browser
through its backend; each commit ends with a message to every open page, where
the content script asks for its cosmetics again. The browser reports matched
rules to the activity log, which asks the controller what an ID means. Refreshes
download through the companion, which keeps the snapshot on disk for the pages
requested afterwards by other processes.

What is hard here. The browser may stop the service worker between any two
awaits, and no transaction spans extension storage and the rule engine: a commit
is five awaited calls, each of which may fail, followed by a rollback of two more.
The worker's memory is lost at any time, its storage is not. Refreshes run for
minutes outside the queue that orders everything else. Rule IDs are positions
and mean something else after the next commit. Events reach a worker that has
not read its storage yet. Writes of the activity log are in flight while rows
change. `PROJECT.json` lists these as hazards, each at its line with the
properties that would catch it.

## Modules

| module | what it is |
|---|---|
| `RuleConfig` | configurations as values; `desiredRules` with its three ID ranges and priorities, `describeActivityRule`, `ruleStamp`, the budget of a refresh, what each operation checks (`Admitted`) and does (`Update`) |
| `AtomicConfig` | the abstract specification: one committed configuration and a queue; the oldest waiting operation takes effect at once or not at all |
| `Controller` | the worker: initialize, the queue, commit with rollback, refresh, crash, sleep and wake; refines `AtomicConfig` |
| `MCController` | the small instances |
| `ControllerProofs` | theorems, also of `RuleConfig` |
| `ActivityLog`, `MCActivityLog` | recent activity with the tab tracking that feeds it, and its instances |
| `ActivityLogProofs` | theorems |
| `Compilation` | what the subscription compiler hands on: a sequence of items per kind |
| `SubscriptionCompiler` | compiling downloaded lists line by line, and what becomes of the rules within a budget |
| `Paging` | cutting what was compiled into pages, and a client that puts them together again |
| `ListRefresh`, `MCListRefresh` | the compiler, its pages and the client's checks composed; the instance |
| `ListRefreshProofs` | theorems of the compiler, of the pages and of both together |
| `CosmeticSync` | pages, their overlapping refreshes, and the worker that answers and tells them |
| `CosmeticSyncProofs` | theorems |
| `SnapshotStore`, `MCSnapshotStore` | companion processes that share the cache of downloaded snapshots, clients that page them, and the instances |
| `SnapshotStoreProofs` | theorems |
| `Picker`, `MCPicker` | sessions of the element picker: popup, panels, the worker's queue of requests and the grants; the instances |
| `PickerProofs` | theorems |
| `DnsPolicy`, `MCDnsPolicy` | compiling DNS filter sources line by line, and deciding about a name; the instance |
| `DnsPolicyProofs` | theorems |
| `DnsCache` | the answer cache as a value: lifetimes, ageing, lookup, insertion with eviction |
| `DnsServer`, `MCDnsServer` | tasks, permits, upstreams and shutdown around that cache; the instance |
| `DnsServerProofs` | theorems |

**Controller.** `pc` is the await at which the worker stands:

| `pc` | code (`controller.ts`) | action |
|---|---|---|
| `read`, `initApply`, `initClear`, `initStamp` | `initialize`: read storage; apply rules; drop the journal; write the stamp | `InitRead` ... `InitStamp`, `InitFails` |
| `idle` | `serial`: the next job of the promise chain | `RefuseAll`, `Refuse`, `StartCompile`, `StartCommit` |
| `compile` | `native.compile` in import, pick and unpick | `CompileFails`, `StartCommit` |
| `journal`, `apply`, `save`, `clear`, `notify` | `commit` in order | `Journal`, `ApplyRules`, `Save`, `Clear`, `Notify` |
| `unjournal` | the rules could not be applied: drop the journal | `Unjournal` |
| `rollback`, `rollbackClear` | the save failed: reapply the old rules, drop the journal | `Rollback`, `RollbackClear`, `RollbackFails` (latches `recoveryError`) |
| `failed` | `ready` rejected | `RefuseAll` |
| `dead` | no worker | `Wake` |

A step is the effect of one awaited browser call together with the code that runs
when it answers. A call takes effect or fails as a whole: `chrome.storage` and
`updateDynamicRules` are external, documented to be atomic, and the code relies
on it; that the quota refuses a rule set before anything changes is in the
code (`applyRules`). `Crash` may come between any two steps and loses the
memory; `storedConfig`, `pending`, `appliedRuleStamp` and `dnr` survive.
`Init` also covers a profile an older version left: a stored configuration, no
stamp, and any rules.

Abstractions: a list text is a model value with the network rules and cosmetic
rules the companion compiles from it (`ListRules`, `ListCosmetics`), a snapshot
likewise (`SnapRules`); hosts are numbers, because the code sorts the
paused sites and only their order decides the allowance IDs; the two timestamps
in the stamp are left out (a stamp that ignored them would vouch for more, and
`StampVouches` is about just that); `refresh.removalRequested` is history for a
property. Progress texts and the read-only operations have no action.

**ActivityLog.** One worker at a time with the tab listeners of `index.ts`.
Everything that only waits for the resolved `ready` of the log runs in the same
microtask checkpoint and is therefore part of the step that caused it; before
that, matches wait in `pending`, closed tabs in `removals`, a clear in
`clearing`, and the answer of the startup query in `tabsQuery = "answered"`. `lookups`
is what `chrome.tabs.get` has still to answer, of a tab that replaced another one
(`TabReplaced`) or that `activity.get` was asked about (`View`), and the count
`activity.get` asks for next. `LookupAnswered` hands the tab to `rememberTab` (`Remember`)
whenever the answer arrives, closed meanwhile or not, as the code does; `resurrected` is the history of
those that were closed. `LookupFails` is the lookup of a closed tab, or a failed call;
`activity.get` then forgets the tab, an open one included. `Private` is the incognito tabs,
which `rememberTab` forgets with their rows; what a tab shows (its URL) is left out.
`saving` is the write in flight: `chrome.storage.session.set` is given a
copy, so rows recorded meanwhile are not part of it. `life`, `doomed`, `gone`
and `log.recorded` are history. A stopped worker's write may still take effect.

**SnapshotStore.** `run[r].pc` is where the process that serves one
`lists.refresh` stands:

| `pc` | code (`lists.rs`) | action |
|---|---|---|
| `download` | `refresh_with`: download and compile, then `persist_snapshot` makes the staging directory | `Stage`, `DownloadFails` |
| `write` | `write_new`, one file after the other, the index last | `Write`, `WriteFails` |
| `check` | `destination.exists()` | `Check` |
| `compare` | the index of the existing snapshot equals ours | `Compare` |
| `rename` | `fs::rename(staging, destination)`; a failure is returned | `Rename`, `RenameFails` |
| `prune`, `remove` | `prune_snapshots`: list the directory; remove what is doomed, entry by entry | `Prune`, `Open`, `Unlink`, `RemoveDir`, `RemoveFails` |
| `answer` | the response | `Answer` of the client that asked |

Every file system call is a step. A client (`native-client.ts` `refresh`) asks for a refresh
and then for index, manifest and pages, each request served by a process that
lives for it and only reads (`page_at`), so that a read is one step per file;
`GiveUp` is the timeout of a request, after which the process goes on and the
client may start again with another run. A snapshot's ID is the digest of its
index, so `Snapshot(c)` stands for the ID of content `c`. `newer` is the pairs of
directories of which the first was modified after the second. `opened`, `suspended`, `completed` and
`indexed` are history.

Abstractions: listing the cache is one step (the metadata of its entries is read
one by one); identical snapshots occur although the code's timestamp makes them rare;
the text files of the sources, written after the pages and never read again,
are left out; removal keeps the opened directory when it is renamed, as POSIX does.

**SubscriptionCompiler** and **ListRefresh.** `compile_subscriptions` takes one step
per line and one action per branch of its loop, `Emit` for everything after the loop:

| action | code (`subscription_rules.rs`) |
|---|---|
| `Ignore`, `Reject` | blank lines and comments; lines too long, of an extended syntax, or with a hash that no rule comes of |
| `DropException` | an exception with a hash in its text, which is left out like them |
| `Hide`, `Unhide`, `RejectCosmetic` | element hiding and its exceptions |
| `Badfilter` | a line that takes a filter back |
| `Exempt`, `ExemptsAll` | exceptions from hiding (`elemhide`, `generichide`), for the hosts their pattern or `domain=` names |
| `Accept` | a filter that compiles to rules |
| `Omit` | one that does not: a block is left out, an exception leaves guards behind (`Guards`), or suppresses all blocks if its URLs cannot be expressed |
| `NextSource` | the next list |
| `Emit`, `Refuse` | badfilters applied, blocks suppressed, exceptions before blocks within the budget, hosts packed, exemptions merged into hiding rules; an error if the exceptions alone exceed it |

`ListRefresh` is `refresh_with`: the compiler, `Persist` to hand its result to
`Paging`, and the client's checks on counts (`ManifestAccepted`) and items
(`Validated`). `RefuseManifest` is the client that refuses the counts: it asks for no page
of what the companion has stored. A line is a record of what the code looks for in its text, a URL pattern
a name with the URLs it matches, and a host has its parents. What the
rules mean is the browser's part, external: `RulesBlock` and `RulesHide` say what a
set of rules does to a request and to a page, and `ListsBlock`, `ListsAllow`,
`ListsHide` what the lists say about them. Rules of equal rank are dropped in any
order, where the code takes that of their texts.

**Paging.** `step` is `cut` while `persist_snapshot` looks for the end of the
next page (`Shrink` halves, `WritePage`, `TooLarge`) and `read` while the client asks
for pages (`Receive`, `RejectPage`). Items have no content but
`PageBytes`, the length of a page, and `ValidItem`, what the client thinks of one.
One process writes and one client reads after it; concurrency is `SnapshotStore`'s.

**CosmeticSync.** A commit gives the rules a new version; a page shows a version.
`calls[p]` is the refreshes of a page by their revision, each pending, answered or
closed, and `Receive` takes the answers in any order (`content/index.ts:9`). The
worker's queue (`serial`) holds commits and requests; of a commit the steps after the
rules are applied are kept, with `pc` at the await: `Save` (storage), `Install` (memory),
`Notify` (`tabs.query`), `Tell` (one message per page), `CommitEnds`. A page is a
document: a navigation closes one and opens another, `rootless` is one whose script
ran before its root element was there. A worker whose start failed (`WakeFails`) or
that could not roll back (`RollbackFails`) is `refusing`: it answers every request
with an error until the browser stops it (`Sleep`, `Stop`), and a page that is refused
keeps what it has (`Refuse`). `missed` is history: the pages a fault or a refusal has
kept from an update since they last asked.

**Picker.** Requests wait in `queue`; the oldest one runs, and `job.pc` is the
await at which it stands:

| `job.pc` | code (`background/picker.ts`) | action |
|---|---|---|
| `idle` | `serial`: the next request; `start` looks the tab up, `handle` reads the grant and checks it | `StartLook`, `HandleCancel`, `HandleUndo`, `HandleSave`, `Refuse` |
| `config`, `grant`, `send` | `start`: `snapshot`, `write`, `backend.start` | `StartConfig`, `StartRefused`, `StartGrant`, `StartSend`, `StartSendFails` |
| `mark`, `add`, `unmark` | `handle`, a save: write the selector into the grant; `addPickerRule`; if that fails write the old grant back | `Mark`, `Add`, `AddFails`, `Unmark` |
| `remove` | an undo: `removePickerRule` | `Remove` |
| `revoke` | `backend.remove` of a cancel, an undo or a failed start | `Revoke` |
| `reply` | the answer reaches `persist` or `revert` in the page, if its panel is still there | `Reply` |

`job.grant` is the copy that `handle` read before its awaits. The page is its host
and its panel (`PressSave`, `PressUndo`, `Finish`, `Navigate`, `CloseTab`), and
`ForgetTab` the listener for closed tabs, which does not wait for its turn.
`Crash` fails the requests at the worker and keeps session storage and the list.
The controller appears as what `AtomicConfig` promises: `Add` and `Remove` take
effect at once or fail. A token is the number of its session; `text` is the set of
rules in the list, each with the token in its marker, and a rule hides an element
on its own host only (in the code also on subdomains). `expired` is the tokens whose ten minutes
are over. That a failed answer of `backend.start` can hide a panel that did open is
not modelled: the page answers in the call that opens it.

**DnsPolicy.** `compile` (`dns/blocklist.rs`) takes one step per line, and one
action per branch of its loop: `Ignore` (comments, element hiding, exceptions
from element hiding), `TakeAllow` and `TakeBlock` (plain `||host^`), `Suppress`
(preprocessing directives, exceptions for whole pages or without a host: no list
block may decide any more), `Protect` (other exceptions and badfilters, widened to
their host), `Omit`. `Refuse` stands for the checks before, `Finish` for the
rules credited to each source. `decide` and `suffix_match` are operators; a host
name is the sequence of its labels. A line is what the code looks for in its
text (exception or not, a cosmetic marker, plain, its host, which kinds of
options), so the syntax of rules is data; of the limits, those on the number of
sources, user names and samples are kept and those on bytes and lines left out.

**DnsServer** and **DnsCache.** `task[c].pc` is what the task of client `c` waits
for:

| `pc` | code (`dns/server.rs`, `dns/resolver.rs`) | action |
|---|---|---|
| `idle` | `serve`: the select loop takes a permit or drops packet or connection | `Receive`, `Accept` |
| `read` | `tcp_client`: the next frame, with a timeout | `ReadFrame`, `ReadEnds` |
| `handle` | `State::handle` up to its first await: decode, validate, decide, look up | `Malformed`, `Refuse`, `Block`, `CacheHit`, `CacheMiss` |
| `udp`, `tcp` | `forward`: the exchange with the upstream in turn | `ExchangeFails`, `TruncatedReply`, `UnableReply`, `GoodReply` (which also inserts into the cache) |
| `write` | the reply is sent, over TCP with a timeout | `Written`, `WriteFails` |
| any | the shutdown future completes: `abort_all`, and `join_next` until no task is left | `Shutdown`, `Abort`, `Stopped` |
| any | receiving or accepting fails (`?`): `serve` returns at once, and the dropped `JoinSet` aborts its tasks | `SocketFails`, `Abort` |

The cache mutex is held for one `get` or one `insert`, never across an await, so
that each is part of a step. A request is what validation, policy and cache
see of it, with the cache key as a value (`DnsPolicy` says what is blocked); of a reply the
code, the TTLs, the SOA minimum, truncation, options and size. A timeout and
a reply that does not match the question are both `ExchangeFails`; ages are whole seconds, as in
the code. A client's one packet or connection is one task. Left out: the
diagnostics log, the check of the peer's address (always loopback on a loopback
socket), failing to bind, and replies that even truncated do not fit.
`given`, `born` and `taken` of an answer are history.

## Runs

Every run finishes within four minutes with two workers. Each property is
known to be able to fail: for each, `PROJECT.json` names a variant of one action
(a dropped guard, a missing reset, a swapped order; marked `Mutant:` in the
modules) under which TLC reports it violated.

| run | instance | shows |
|---|---|---|
| `ControllerCommit` | 2 operations, 3 faults, one site, two list texts, two blocks hiding the same element, a quota of one rule, fairness | commit, rollback, initialize and reconciliation under every placement of three failures or crashes, with quota refusals among them: `StampVouches`, `AgreeWhenIdle`, `RecoveryKeepsJournal`, refinement of `AtomicConfig`; every operation settles, the stored configuration is enforced again |
| `ControllerRefresh` | 2 operations, 2 faults, snapshots of two and three rules and one beyond the budget, two sites, a quota that full lists, snapshots and sites fill exactly; every stored configuration there can be at first | refreshes against removals and other operations: `RemovedStaysRemoved`, `AttributionExact` when IDs move, and the budget is enough (`QuotaNeverBlocks`) |
| `ActivitySample` | 3 tabs, one of them incognito, 2 requests, limit 1, 4 events, 1 fault, fairness | rows, keys, tabs opened, looked up, replaced and closed around the startup query, clear and writes in flight: `ClearedForGood`, `SavedOrReported`, `OneRowPerMatch`, `ClosedTabsForgotten`; clears are answered, changes are saved or reported |
| `Store` | 2 refreshes over a full cache of 2, 3 contents, 1 client, 1 fault | staging, sharing, commit and pruning interleaved file by file: `CommittedComplete`, `StagingOwned`, `CacheBounded`, `PruneSparesLatest`; what a client assembles is one snapshot (`AssembledGenuine`) while snapshots are removed under it |
| `StoreLatest` | 2 refreshes, no fault | a violation, see below |
| `Picker` | two sessions of one tab, two sites, two selectors, two requests at a time, a rule that may be in the list already, 1 fault, fairness | `SavedUndoable`: whatever fails or stops on the way, what a live session left in the list is the rule its grant names; `OneRulePerSession`; `PanelAnswered`: no panel keeps its buttons disabled |
| `PickerClosed` | one session, no fault | a violation, see below |
| `DnsPolicy` | two sources of up to two and one lines out of twelve kinds, three names, user rules | `DecisionsByMeaning`: a list blocks a name only if no line of any list, before or after, could let a request to it through; `CountsAddUp`: coverage is credited to the source it comes from; `OmissionsReported` |
| `ListRefresh` | up to three lines of twenty-four in two lists, three hosts, one of them below another, budgets of one and three rules, pages of two items | what the compiled rules do to each request and page against what the lists say of it: `NeverOverblocks`, `NeverOverhides`; the same answer for every request and element unless a report says otherwise (`ExactUnlessReported`); every line counted once, and counts the client accepts but for their size (`ReportsAddUp`); `ReadBack` |
| `ExceptionLost` | two lines of seven | a violation, see below |
| `CosmeticSync` | 2 pages, 2 commits, 2 refreshes a page, 1 fault (a failed call, start or rollback, or a stopped worker), fairness | `StyleNeverGoesBack` under any order of answers; `EventuallyCurrent`: a page that starts, asks or is told at any point of a commit comes to show the stored rules |
| `DnsServer` | two datagrams, one connection of two requests, two permits, a cache of one answer, two upstreams, two instants, fairness | permits come back whatever ends a task (`PermitsReturned`); `CacheConsistent`; `AnswersAlive`: no record is served beyond its life; `AnswersOwn`: nothing meant for one client reaches another; `CompleteOverTcp` |

Bounds. `MaxOps` and `MaxFaults` count requests and failed calls or crashes of a
whole behaviour. Three faults are the deepest single story of the code: save
fails, rollback fails, and the restart that should recover fails too; two
operations let a second one run into what the first left behind, or a removal
meet a refresh. Two
snapshots of different length make local rules move to other IDs, which is when
attribution can go wrong. `OVERRIDE_ID` keeps its real value; `MaxRules`,
`MaxSites`, `MaxSubscriptionNetwork` and `MaxDynamicRules` are small so that the
limits are reached. For the safety properties of the controller the bounds no
longer matter: they are proved without them. `ActivitySample` uses a limit of one
row so that two requests evict rows and keys; four events are a
match, its duplicate after an eviction, and a clear in between, or a tab that replaces another
one, is closed and brought back by a late answer, and a look at it. `MaxEvents` and
`MaxFaults` bound the log the same way. The run switches
deadlock checking off: with the events used up and nothing to save the system
really is at rest. The controller's is never at rest, since an idle worker is
stopped and may wake. `KEEP_SNAPSHOTS` is 2 instead of 3: what matters is that
the cache is full when two runs commit, so that each prune has something to
remove while the other one commits, and the number of directories it keeps plays
no other part. Index, manifest and page are three requests of the client, any of which can be refused
after another was served; how many pages there are is `Paging`'s matter. Three contents let two runs
produce what is there, what the other produces, or what nobody has. The store's runs serve
one request each and then stop, so deadlock checking is off; contents, runs and the snapshots
that were there before are symmetric (they are only compared for equality).
`DnsPolicy` has every kind of line, at a name and at its parent, before and after
the line it meets, which is all that two lines can do to each other; its samples hold two lines and one
reason, so that three lines fill them. In `Picker` two sessions let one start where
another has left its rule, its grant or a request; two requests at a time are
one that runs and one that overtook the end of its page. One fault is a failed
write, a failed save or a stopped worker at any await; more faults and tabs are
covered by the proofs. In `ListRefresh` three lines are a
block, an exception that tames it and a badfilter that takes one of them back, or a hiding rule
and two things that limit it, in every order and split over two lists in every way.
`MAX_PACKED`, `MAX_COSMETIC`, `MAX_COUNT` and the samples are so small that each is exceeded, a budget of one
is exceeded by a block beside an exception, and a page of two items of different lengths has
to be halved; the client's limit on all pages is reached as well. `CosmeticSync` has two commits so that
there is an older and a newer answer to confuse, and two refreshes by the
picker or at the start, which messages of the worker add to; more pages and
refreshes are covered by the proof. Lines, refreshes and commits run out, so deadlock checking is off in
both. In `DnsServer` three clients compete for
two permits, so that two tasks share the cache while a third is dropped; two
keys and one entry make each answer evict the other; a TTL of two is aged
by one second and a negative TTL of one expires. 64 requests per connection are
two: one that is followed by another and the last. Both stop, so deadlock checking is off.

Fairness. `Controller` is weakly fair in `Initialize`, `RunQueue` and
`Refreshing` (every awaited promise settles: browser calls answer, and the
native client bounds the companion with a timeout), in `Wake` (some event
starts the worker again) and in `Sleep` (the browser stops a worker with nothing
to do; it is what ends a worker whose start failed or whose recovery error is
latched, and the error text asks the user for just that). Requests and crashes
are not fair, and the number of faults is finite. `ActivityLog` is weakly fair in
`Initialize`, `TimerFires`, `Writing` and `Start`, not in the answer of the tabs
query, nor of a lookup, nor in events. `DnsServer` is weakly fair in `Progress(c)`, because each
await of a task has a timeout (`tcp_client`, `forward`) or is a send on a UDP
socket, and in `Abort` and `Stopped`: an aborted task ends at its await, and after a shutdown
`serve` joins them all (after a socket error nothing waits for them);
not in arrivals, the shutdown, a failing socket or the clock. `CosmeticSync` is weakly fair in
`Step`, the worker's next step (its calls settle, as in `Controller`, and a message
starts it again), and in each page's `Script`: documents load and answers arrive. That a
commit waits for the messages to all tabs (`Promise.allSettled`) and ends is part
of that: every tab answers or is gone. Requests, closing and faults are not fair. `Picker` is weakly fair in `Work`: the
browser's and the controller's calls answer or fail (the controller's settle by
`EverythingSettles`), while the user, expiry and crashes owe nothing.

## Proofs

`ControllerProofs` holds for every value of the constants
that satisfies the named assumptions in `RuleConfig` and `Controller`: any lists
and snapshots within the compilers' limits, any finite or infinite set of
configurations built from them, any quota, any number of operations, faults and
crashes. The assumptions are that lists and snapshots compile to sequences of
rules within their limits, that the empty text compiles to nothing, that both
compilers together stay below `OVERRIDE_ID`, that `Sites` is finite, that `None`
is no configuration, stamp or description, and that bounds are naturals.

- `InstalledRulesAreDescribed`: `describeActivityRule` inverts `desiredRules`. IDs
  of the three parts are disjoint by `LimitsAssumption`; within the allowances the
  argument is that `SiteIndex`, the number of smaller members, is injective.
- `Invariance`: `Spec => []IInv`. The properties are not inductive: whether
  `StampVouches` survives a crash depends on what every await may rely on. `IInv`
  adds `MemoryAgrees` (when memory is the stored configuration), `RulesAgree`
  (at which `pc` the browser's rules are those of the stored configuration, and at
  `save` those of the next), `JournalCovers` (where they may differ the journal is
  written; where a stamp will be written a configuration is stored),
  `AttributionOff` (attribution is on exactly between jobs) and `JobUnderWay` (the
  next configuration is the job's update of the current one). The proof has one
  step per action.
- `TypeCorrect`, `StampIsSound`, `JournalSurvives`, `Agreement`, `Attribution`
  follow from it.
- `Implementation`: every step of the worker is a step of `AtomicConfig` or a
  stutter. `Save` is the moment an operation takes effect, because the restart
  reads what it wrote; `waiting` is the queue, and `applied` holds at `clear` and
  `notify`.
- `QuotaSuffices` adds `DeadIsEmpty` (a stopped worker has no memory or queue) and
  `BudgetKept` (every configuration in storage, memory or the queue is within the
  budget).
- `RemovalWins` adds `RefreshOrder`: as long as the generation is the refresh's, a
  requested removal is still in the queue, behind nothing but what was there; an
  action property proved from it.

`DnsPolicyProofs` holds for any set of host names and lines, any texts of any length
and any user rules, given the named assumptions of `DnsPolicy` (`None` is no name,
names are sequences of labels, a plain line has a host and no options).

- `Invariance`: `IInv` says that the host names of `list_block` are exactly those of
  the plain blocks at places already read (`BlocksRead`), likewise `list_allow`
  (`AllowsRead`), and that `suppressed` holds exactly if a line read suppresses
  (`SuppressionRead`). `DecisionsByMeaning` itself is only about the end and says
  nothing about the maps on the way, so it cannot be inductive.
- `DecisionsAreMeant`: at the end every place has been read (`AllRead`), and the
  first map with a match decides (`FirstDecides`), which together are
  `ShouldBlock`.
- `CoverageIsAttributable` and `NothingOmittedInSilence` need `CountsInv`: every line read is
  counted once for its source (`LinesCounted`), what was left out is counted in total and
  sampled (`OmissionsCounted`), names in the maps are credited to the source that
  brought them first (`Credited`), and `Finish` makes the rows from that (`RowsMade`). A sum over
  sources is the number of a set of units, one more with every unit (`TotalOneMore`), and
  equal to that of the names by a bijection (`TotalOfParts`).

`PickerProofs` holds for any number of tabs, hosts, selectors, sessions, requests and
faults, given that `None` is no host, selector or number and that rules are written
for known hosts. `SavedUndoable` is about grant and list alone, but a save carries a
copy of the grant across three awaits while the tab may be closed, the list edited
and the worker stopped. `IInv` says what the copy is still good for: session storage
has a grant of its session or none, what the list holds of the session is the rule
the copy names (`CopyKept`), a save repeats that rule or is the first, and the grant
names it before the list has it (`SaveKept`); tokens are numbered in order
(`TokensKept`), and each await has the kind of request it was reached with
(`JobKept`). `TypeCorrect`, `SessionsUndoable` and `OneRule` follow.

`ListRefreshProofs` holds for any lists of any length in any order, any patterns, hosts,
selectors and resource types, any limits and budgets, and any lengths of pages, given `LinesAssumption`
and `PatternAssumption` (a line is one of the kinds of line, what is matched case-sensitively
is matched, an anchor names a host of all that is matched; hosts are finitely many and there
is a resource type), `SourcesAssumption` (at least one list is asked for), `LimitsAssumption`
and `LimitAssumption` (limits are numbers, a packed rule has room for a host and a page for
an item, and the envelope is within the headroom).

The compiler goes through lines and does something else at the end, so that its properties, which
are about the end, need what the lines have left behind:

- `CompilerInv`: `Gathered` says that each set the compiler keeps is the union of what the
  lines read so far bring to it (`Given`, `TakenBack`, `Lifting`, ...), whatever their order and
  list; `EveryLineCounted` and `UnsupportedCounted` that each line is in exactly one count
  of its list, and that a list without unsupported lines has none that must be
  reported; `ResultOK` that the result is made of what has been gathered.
- `HiddenOnlyAsListed`: a rule that hides on a page comes from a line that hides, and its
  exclusions have the hosts of every line that is read and protects (`NotUnhidden`, `NotExempt`).
- `BlockedOnlyAsListed`: a rule that blocks was made from a line that blocks, also when it is
  packed (`UnpackedMatches`); each live exception that is read and matches has a rule, or a guard for
  every type it could be about (`GuardMatches`), which packing keeps (`PackedMatches`) and the budget
  drops only after the blocks.
- `ExactlyAsListed`: if nothing is reported, every line is read (`NothingLost`) and has its
  rule, none was dropped, and no guard stands in for anything.
- `ReportsAreConsistent`: the counts of the manifest are recomputed from `Counted`
  as the client does; merged, dropped and omitted rules are differences of finite sets,
  which must not be negative. That no number is above `MAX_COUNT` is assumed
  (`CountsInBounds`), as the code does not guarantee it.

Paging is proved for whatever is compiled, then put behind the compiler:

- `Assembled`: `WholeInv` says that the pages of the index are pieces of what was
  compiled, each at its offset, with the next offset it should have, and that the client has
  what lies before the offset it asks for next and all of the kinds before.
- `CommittedReadable`: `LinkInv` adds that where a page leads there is a page or
  one is being cut (`LinkedOK`), that each kind that was begun has a first page
  (`FirstOK`), and that the page the client asks for exists (`FoundOK`); that such a page passes
  the checks of `page_at` and of the client follows from `WholeInv`. For the pages alone it needs
  the hypothesis `ItemsAreFair`: the length of a page is a number, and the client accepts
  the items.
- `RefreshedWhole` proves the second half of that hypothesis of the composed system: `RefreshInv` is
  `CompilerInv`, `LinkInv`, and that each item handed on is one the client's `Validated` accepts
  (`Handed`), which follows from how rules are made, packed and sampled. What is left
  is `PagesAreMeasured`: a page has a length, and `ValidItem`, the name `Paging` has for the client's
  check, says no less than `Validated`, by which `ListRefresh.cfg` defines it.

`CosmeticSyncProofs` holds for any number of pages, commits, refreshes and faults, given
that `None` is no page. `StyleNeverGoesBack` compares the style with an answer that may have been
on its way since before the worker was stopped. The invariant says that versions only grow
along style, memory and storage (`VersionsOK`), that no answer under way is newer
than the worker's memory, and that the answer to a page's newest request is not older than
the style it shows (`Timely`): a new request has no answer yet, and the older ones lose their
claim with it. `HeadOK` says that a commit under way stays at the head of the queue, so
that no request is served between storage and memory.
`TypeCorrect` and `NeverGoesBack` follow.

`DnsServerProofs` holds for any number of clients, upstreams, permits and queries, any
requests and replies, and any capacity of the cache, given `ServerAssumption` and
`CacheAssumption` (bounds are numbers, requests and replies are records of their type,
and no client is both a datagram and a connection).

- `PermitsNeverLost`: each step changes one task, and the lemmas on permits follow the
  number of tasks under way through the four ways it can take: begun, ended, neither,
  or still under way. That an `Abort` may come wherever a task waits is one more end.
- `AnswersNeverMixed`: `CacheInv` says that whatever is in the cache was given, plainly, to a
  plain request with that key; `TaskOK` that what a task is about to write fits its
  request, taken at once from an upstream if either is not plain (`Fits`).
- `ConnectionsGetAll`: the same invariant says that what is kept is `Whole`, so that the cut
  `encode` makes for a datagram is not in the cache when a connection asks.

- `AnswersStayAlive`: `Alive` goes with an answer from the exchange to the client, through
  the cache: the lifetime an entry was stored with is not above that of any record, nor of
  the SOA for a negative answer (`LifetimeFacts`), and a lookup serves it only below that age.
- `CacheStaysConsistent`: `OrderOK` says that the order holds the entries' keys, each once
  (`DistinctCount`). What removal and eviction do to it is shown by induction (`RetainedFacts`,
  `ShrunkOrder`).

`ActivityLogProofs` holds for any tabs, requests, limits and numbers of events, failed calls
and restarts, given that bounds are numbers, that a behaviour has no more events than
sequence numbers (`IdsAssumption`), and that `None` is no sequence of rows.

- `Invariant`: `LogInv` has a part for each property. A clear is kept because the rows it
  dooms are known by worker and sequence number, and no write that ends after it has them
  (`ClearsOK`, `IdsOK`): a write under way holds a copy made before the clear. `SavesOK` says
  that what is in memory is being written, or is dirty with a timer, or is written, or that an
  error shows; `TabsOK` that tabs which the late answer of the startup query may still name
  are open or known to be closed, and that tabs it has named, and those of matches that wait for storage, are
  permitted or known to be closed (`Permitted`: open or brought back by a lookup, and not incognito).
- `NoDuplicates`: the keys remembered are the newest of all recorded (`Remembers`), so that
  two equal ones in the history are more than `2 * LIMIT` apart, which is further than
  there are rows.
- `ClearedStaysCleared`, `NothingUnsaved`.
- `ClosedTabsStayForgotten` is about the guarded startup query and all events. A tab that a late
  answer of an unguarded lookup brought back is its exception, until `activity.get` looks for that tab
  and does not find it (`Sought`).

`SnapshotStoreProofs` holds for any number of processes, clients, contents, pages and
faults, given `StoreAssumption` (finitely many runs and earlier snapshots, contents with a
sequence of pages, numbers as bounds) and that `None` is no path.

- `StoreInv` is about files and processes: where directories are and what is in them
  (`DirsOK`), what each process has still to write or to remove (`RunsOK`), and what a
  client has got so far (`ClientsOK`). `TypeCorrect` and `AssembledIsGenuine` follow: the
  client's pages are those of the snapshot it asked for, whatever was removed meanwhile.
- `CommittedIsComplete` and `StagingIsOwned` need `OwnedInv`: a staging directory that nobody
  has begun to remove has the files its run has written (`StagedOK`), a run that has not staged
  yet has none that could be old or half removed (`FreshOK`), only what was committed or left behind by
  a suspended or finished run is removed (`RemovalsOK`), and a snapshot whose removal
  has not begun has all its files and the ID of its content (`CommittedOK`).
- `LatestSpared` needs `RecentInv`: a whole snapshot modified after a directory's index was
  written was committed since.
- `CacheIsBounded`: `BoundedInv` says of every set of the removals under way that, were they
  alone to finish, what remains is still bounded; a removal that fails leaves such a set.
  A prune keeps few, since the rank of a kept directory is below `KEEP_SNAPSHOTS` and no two
  have the same (`KeptAreFew`).

Only model-checked: the liveness properties (`EverythingSettles`, `EventuallyEnforced`,
`ClearAnswered`, `EventuallySaved`, `TasksEnd`, `ShutdownEnds`, `PanelAnswered`, `EventuallyCurrent`), which are
out of the prover's reach.

Induction over data is out of reach as the library states it, with an operator for the
induction hypothesis. Where a proof needs one (`DnsServerProofs`, `ActivityLogProofs`,
`ListRefreshProofs`) the statement is put as a set of numbers, of which `Least` finds the smallest
from the well-foundedness of `Nat`; that recursive functions exist (`Recursion`) follows the same way.

## What the models found

`StoreLatest`: `prune_snapshots` keeps the directories modified last
(`lists.rs:745`), and removing a file modifies its directory. While one process
removes an old snapshot file by file, another that prunes takes the half-removed
directory for a recent one and removes a snapshot completed after it, although
`protocol/README.md:26` promises the three latest completed snapshots. Each process still spares
the snapshot it has just committed unless others commit after it
(`PruneSparesLatest`), and a client whose pages are gone gets a refusal, never a mixture.

`PickerClosed`: `handle` reads the grant (`picker.ts:44`) and writes it back
(lines 56 and 58) without another look at the tab, and the listener that removes the
grant of a closed tab (`index.ts:98`) does not wait for its turn. A tab closed during
a save leaves its grant behind, although `docs/privacy-model.md:34` says that closing
the tab removes it. The grant expires after ten minutes, and that it outlives
its tab breaks neither `SavedUndoable` nor `OneRulePerSession`, which are proved.

`ExceptionLost`: a line with a hash that is neither a `##` nor a `#@#`
rule is taken for extended cosmetic syntax before anything looks for an `@@`
(`subscription_rules.rs:356`), and one with `##` for a hiding rule with a bad scope
(line 337). An exception whose regular expression has a hash in it
(`@@/^https:\/\/ads\.test\/[^?#]*$/$script`) is therefore dropped: reported as unsupported,
but without the guard or the suppression that other exceptions get which cannot be
expressed, so that requests it allows are blocked and, if it has `elemhide`, pages it
exempts have elements hidden. `shared/protocol/subscriptions.md:34` excludes "just
dropping the exception"; `shared/protocol/README.md:49` and `docs/architecture.md:30` say the same.
`NeverOverblocks` and `NeverOverhides` are about the exceptions that are read
(`LiveExceptions`); that one which is not read is at least reported is part of `ExactUnlessReported`.

Differences without a run. What `chrome.tabs.get` answers is handed to `rememberTab`
(`index.ts:32`, and 77-78 in `activity.get`) without a look at what was closed since, while
the startup query is guarded against just that (lines 35-37: "Do not resurrect a
closed/private tab"). An answer that arrives after `onRemoved` makes the closed tab known
again, and a match reported for it late is recorded and kept, although
`docs/privacy-model.md:28` says that closed-tab entries are removed; when `activity.get` looks for
that tab it is forgotten, as it is with the worker. It takes an answer and an event that arrive in the other
order than the browser sent them. `ClosedTabsForgotten` shows that closed tabs are
known in no other way.

`removeSubscriptions` moves the generation when its job runs
(`controller.ts:211`), a refresh when it is requested (line 190). A removal that
is requested while the worker starts, and so waits for `ready` (line 103), or behind
another job cancels a refresh that was requested after it, with the message that a *newer*
change did (line 200). Nothing is lost but the refresh; removed subscriptions
never come back, which is the property `RemovedStaysRemoved`, proved.

Badfilter removes rules by
their compiled form (`subscription_rules.rs:503`), guards included. In lists with
`@@||a^$ping-pong` (an exception with an unknown modifier, which leaves the guard
`@@||a^` behind) and `@@||a^$badfilter`, which is about another filter, the guard goes
with the filter, and a block it was to tame comes through, which
`docs/architecture.md:30` and `shared/protocol/README.md:49` exclude. `NeverOverblocks`
is therefore about lists in which no badfilter removes the rule of an exception that it
does not name (`Hit`), and `ExactUnlessReported` about lists in which none removes
that of any such filter. And what is left of a hiding exemption counts as being about
requests unless its modifiers are known to be conditions (lines 432-442): `3p`, `~3p`, `1p` and
`~1p` are not among them although `network` accepts them (lines 112 and 120), so that
`@@||a^$generichide,3p` becomes an allow rule for third-party requests, and nothing is
reported as unsupported. Party modifiers are left out of the model, so `OnlyHiding` knows
the other conditions only and no property sees this.

## Not modelled, and the plan

Left out for good: DOM work (choosing and previewing elements, interface pages), parsing of
filter syntax and of DNS messages, downloads, packaging. The router keeps no state. What
the companion and the browser do inside a call is external. The local list compiler
(`rules.rs`), the native host and the DNS configuration are parsers and dispatch
of one message, without order, failure or concurrency that a model checker would reach.

Left out of modelled parts: of the subscription compiler, the modifiers `third-party`
and `first-party` with their aliases and modifiers given twice, exceptions with `#@#` in
their pattern, regular expressions with a `$` (which are cut at it, lines 96 and 367), and the
limits on bytes and lines; of the client's checks, the syntax of fields, `kind.maximum`
(the compiler's own limits are not larger) and the size of the assembled state; of
`persist_snapshot`, the size of the raw lists; of `CosmeticSync`, pages restored
from the back/forward cache, which do not ask again, and an unending sequence of commits.

Every safety property the runs check is proved. What could be added are the parts
left out above.
