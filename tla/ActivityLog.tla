------------------------------ MODULE ActivityLog ------------------------------
(***************************************************************************)
(* Recent activity: the rows the extension keeps of matched requests, in   *)
(* the service worker's memory and, batched, in session storage, together  *)
(* with the set of tabs it may keep rows of.                               *)
(*                                                                         *)
(* A worker starts with an empty memory, reads storage and asks the        *)
(* browser for its tabs; matches, closed tabs and clear requests arrive    *)
(* meanwhile.  Code that only awaits the resolved `ready` runs in the same *)
(* microtask checkpoint as its cause and is part of that step.  The        *)
(* browser, its tab events and session storage are external.               *)
(***************************************************************************)
EXTENDS Integers, FiniteSets, SequencesExt

CONSTANTS
  None,
  Tabs,         \* tab IDs; the browser uses each at most once per session
  Private,      \* the incognito ones
  Requests,     \* request IDs
  LIMIT,        \* ACTIVITY_LIMIT, 300 in the code
  MaxSequence,  \* Number.MAX_SAFE_INTEGER
  MaxEvents,    \* bound: matches, clear requests, events of tabs
  MaxFaults     \* bound: failed browser calls and stopped workers

ASSUME LogAssumption ==
  /\ Private \subseteq Tabs
  /\ {LIMIT, MaxSequence} \subseteq Nat \ {0}
  /\ {MaxEvents, MaxFaults} \subseteq Nat

\* A session does not see as many matches as there are IDs.
ASSUME IdsAssumption == MaxEvents <= MaxSequence

VARIABLES
  \* The browser: its tabs, those still to be opened, session storage.
  open, fresh, stored,
  \* The worker's memory, index.ts: known tabs and the startup query.
  alive, knownTabs, tabsQuery, queried, tabsTouchedDuringStartup,
  lookups,  \* of tabs that are being looked up, with the purpose
  resurrected,  \* history: closed tabs remembered after a late answer, and not looked for since
  \* The worker's memory, ActivityLog; saving is the write in flight.
  log, pending, initialized, removals, dirty, timer, saving, clearing, storageError,
  \* History: the worker's number, rows a clear dooms, rows cleared for good.
  life, doomed, gone,
  \* The bounds' counters.
  events, faults

browser == <<open, fresh>>
tabs == <<knownTabs, tabsQuery, queried, tabsTouchedDuringStartup, lookups, resurrected>>
batch == <<dirty, timer, saving, clearing, storageError, stored>>
history == <<life, doomed, gone>>
vars == <<browser, alive, tabs, log, pending, initialized, removals, batch, history,
          events, faults>>

Matches == [tabId : Tabs, request : Requests]

\* A row and the worker that recorded it; the match stands for its contents.
Rows == [id : 1 .. MaxSequence, match : Matches, life : Nat]

ASSUME NoneAssumption == None \notin Seq(Rows)

\* rows are the entries, seen their deduplication keys, oldest first; recorded
\* (history) is every match this worker made a row of.
EmptyLog == [rows |-> << >>, seen |-> << >>, sequence |-> 0, recorded |-> << >>]

Fresh ==
  /\ knownTabs = {}
  /\ queried = open
  /\ tabsQuery = "asked"
  /\ tabsTouchedDuringStartup = {}
  /\ lookups = {} /\ resurrected = {}
  /\ log = EmptyLog
  /\ pending = << >>
  /\ initialized = FALSE
  /\ removals = {}
  /\ dirty = FALSE
  /\ timer = FALSE
  /\ saving = None
  /\ clearing = FALSE
  /\ storageError = FALSE
  /\ doomed = {}

Init ==
  /\ open \in SUBSET Tabs
  /\ fresh = Tabs \ open
  /\ stored = << >>
  /\ alive = TRUE
  /\ Fresh
  /\ life = 1
  /\ gone = {}
  /\ events = 0
  /\ faults = 0

\* What a tab is looked up for: it has replaced another one, or activity.get was called, of
\* an open tab or a closed one; and then activity.get's question for its count.
Purposes == {"replaced", "view", "closed", "count"}

Event == events < MaxEvents /\ events' = events + 1
Succeeds == UNCHANGED faults
Fails == faults < MaxFaults /\ faults' = faults + 1

-----------------------------------------------------------------------------
(* ActivityLog *)

LastRows(s) == SubSeq(s, IF Len(s) > LIMIT THEN Len(s) - LIMIT + 1 ELSE 1, Len(s))

\* Mutant: keys are evicted as early as rows.
appendForgetting(l, match) ==
  IF Contains(l.seen, match) THEN l
  ELSE LET id == IF l.sequence >= MaxSequence THEN 1 ELSE l.sequence + 1
       IN  [rows |-> LastRows(Append(l.rows, [id |-> id, match |-> match, life |-> life])),
            seen |-> LastRows(Append(l.seen, match)),
            sequence |-> id,
            recorded |-> Append(l.recorded, match)]

\* append: one row per key among the last 2 * LIMIT keys, the newest LIMIT rows.
append(l, match) ==
  IF Contains(l.seen, match) THEN l
  ELSE LET id == IF l.sequence >= MaxSequence THEN 1 ELSE l.sequence + 1
           keys == Append(l.seen, match)
       IN  [rows |-> LastRows(Append(l.rows, [id |-> id, match |-> match, life |-> life])),
            seen |-> IF Len(keys) > 2 * LIMIT THEN Tail(keys) ELSE keys,
            sequence |-> id,
            recorded |-> Append(l.recorded, match)]

\* What was observed before storage was read is appended in order.
appendAll(l, matches) ==
  LET after[n \in 0 .. Len(matches)] ==
        IF n = 0 THEN l ELSE append(after[n - 1], matches[n])
  IN  after[Len(matches)]

\* entries.filter
RowsOfTabs(rows, kept) ==
  LET taken[n \in 0 .. Len(rows)] ==
        IF n = 0 THEN << >>
        ELSE IF rows[n].match.tabId \in kept THEN Append(taken[n - 1], rows[n]) ELSE taken[n - 1]
  IN  taken[Len(rows)]

Keeping(l, kept) == [l EXCEPT !.rows = RowsOfTabs(@, kept)]

\* Mutant: no write is planned.
ChangedUnplanned(l) == IF l # log THEN dirty' = TRUE /\ UNCHANGED timer ELSE UNCHANGED <<dirty, timer>>

\* changed: unsaved rows are written in 250 ms unless that is already planned.
Changed(l) == IF l # log THEN dirty' = TRUE /\ timer' = TRUE ELSE UNCHANGED <<dirty, timer>>

\* retainTabs and removeTab
Retain(kept) ==
  /\ log' = Keeping(log, kept)
  /\ Changed(log')
  /\ UNCHANGED <<saving, clearing, storageError, stored>>

\* The debug event of a matched rule; delivered again it may be a duplicate.
Record(match) ==
  /\ alive /\ Event
  /\ match.tabId \in knownTabs
  /\ IF initialized
       THEN /\ log' = append(log, match)
            /\ Changed(log')
            /\ UNCHANGED pending
       ELSE /\ pending' = LastRows(Append(pending, match))
            /\ UNCHANGED <<log, dirty, timer>>
  /\ UNCHANGED <<browser, alive, tabs, initialized, removals, saving, clearing,
                 storageError, stored, history, faults>>

RowsOf(s) == ToSet(s)
WrittenRows == RowsOf(stored) \cup (IF saving = None THEN {} ELSE RowsOf(saving))

\* flush with unsaved rows: the write starts unless one is in flight, which then
\* is followed by another.
Flush(rows) ==
  /\ timer' = FALSE
  /\ IF saving = None THEN saving' = rows /\ dirty' = FALSE ELSE dirty' = TRUE /\ UNCHANGED saving

\* initialize, and what awaited it: tabs removed meanwhile, the startup query's
\* retainTabs, a clear.
Initialize ==
  /\ alive /\ ~initialized
  /\ initialized' = TRUE
  /\ \E rows \in {stored, << >>} :
       /\ \/ Succeeds /\ rows = stored /\ UNCHANGED storageError
          \/ Fails /\ rows = << >> /\ storageError' = TRUE
       /\ LET ids == {row.id : row \in RowsOf(rows)}
              restored == [EmptyLog EXCEPT
                !.rows = rows,
                !.sequence = IF ids = {} THEN 0 ELSE CHOOSE i \in ids : \A j \in ids : j <= i]
              added == appendAll(restored, pending)
              kept == Keeping(added, (IF tabsQuery = "answered" THEN queried ELSE Tabs) \ removals)
          IN  IF clearing
                THEN /\ log' = [kept EXCEPT !.rows = << >>]
                     /\ doomed' = WrittenRows \cup RowsOf(kept.rows)
                     /\ Flush(<< >>)
                ELSE /\ log' = kept
                     /\ dirty' = (kept # restored)
                     /\ timer' = dirty'
                     /\ UNCHANGED <<saving, doomed>>
  /\ pending' = << >>
  /\ removals' = {}
  /\ tabsQuery' = IF tabsQuery = "answered" THEN "done" ELSE tabsQuery
  /\ tabsTouchedDuringStartup' =
       IF tabsQuery = "answered" THEN {} ELSE tabsTouchedDuringStartup
  /\ UNCHANGED <<browser, alive, knownTabs, queried, lookups, resurrected, clearing, stored,
                 life, gone, events>>

\* clear; every clear waiting for the same write is answered with it.
Clear ==
  /\ alive /\ Event
  /\ clearing' = TRUE
  /\ IF initialized
       THEN /\ log' = [log EXCEPT !.rows = << >>]
            /\ doomed' = WrittenRows \cup RowsOf(log.rows) \cup doomed
            /\ Flush(<< >>)
       ELSE UNCHANGED <<log, doomed, timer, saving, dirty>>
  /\ UNCHANGED <<browser, alive, tabs, pending, initialized, removals, storageError, stored,
                 life, gone, faults>>

TimerFires ==
  /\ alive /\ timer
  /\ IF dirty THEN Flush(log.rows) ELSE timer' = FALSE /\ UNCHANGED <<saving, dirty>>
  /\ UNCHANGED <<browser, alive, tabs, log, pending, initialized, removals, clearing,
                 storageError, stored, history, events, faults>>

\* A clear that waited is answered with success, and its rows are gone for good.
Answer ==
  /\ clearing' = FALSE
  /\ gone' = IF clearing THEN gone \cup doomed ELSE gone
  /\ doomed' = {}

\* Mutant: rows that changed during the write are not written again.
WriteDoneOnce ==
  /\ alive /\ saving # None
  /\ Succeeds
  /\ stored' = saving
  /\ storageError' = FALSE
  /\ saving' = None /\ UNCHANGED dirty /\ Answer
  /\ UNCHANGED <<browser, alive, tabs, log, pending, initialized, removals, timer, life, events>>

\* The loop of flush: write again while rows changed during the write.
WriteDone ==
  /\ alive /\ saving # None
  /\ Succeeds
  /\ stored' = saving
  /\ storageError' = FALSE
  /\ IF dirty
       THEN saving' = log.rows /\ dirty' = FALSE /\ UNCHANGED <<clearing, gone, doomed>>
       ELSE saving' = None /\ UNCHANGED dirty /\ Answer
  /\ UNCHANGED <<browser, alive, tabs, log, pending, initialized, removals, timer, life, events>>

\* Mutant: a failed write is not reported.
WriteFailsSilently ==
  /\ alive /\ saving # None
  /\ Fails
  /\ saving' = None
  /\ Answer
  /\ UNCHANGED <<browser, alive, tabs, log, pending, initialized, removals, dirty, timer,
                 stored, storageError, life, events>>

\* Mutant: the failure is noted but nobody who waits is told.
WriteFailsUnanswered ==
  /\ alive /\ saving # None
  /\ Fails
  /\ storageError' = TRUE
  /\ saving' = None
  /\ UNCHANGED <<browser, alive, tabs, log, pending, initialized, removals, dirty, timer,
                 clearing, doomed, stored, life, gone, events>>

\* Nothing tries again before the next change; clear answers with the error.
WriteFails ==
  /\ alive /\ saving # None
  /\ Fails
  /\ storageError' = TRUE
  /\ saving' = None
  /\ clearing' = FALSE
  /\ doomed' = {}
  /\ UNCHANGED <<browser, alive, tabs, log, pending, initialized, removals, dirty, timer,
                 stored, life, gone, events>>

-----------------------------------------------------------------------------
(* index.ts: the tabs *)

Touch(tab) ==
  tabsTouchedDuringStartup' =
    IF tabsQuery \in {"asked", "answered"} THEN tabsTouchedDuringStartup \cup {tab}
    ELSE tabsTouchedDuringStartup

\* A tab and its rows are forgotten.
Forget(tab) ==
  /\ knownTabs' = knownTabs \ {tab}
  /\ IF initialized
       THEN Retain(Tabs \ {tab}) /\ UNCHANGED removals
       ELSE removals' = removals \cup {tab} /\ UNCHANGED <<log, batch>>

\* Mutant: incognito tabs are remembered.
RememberAny(tab) ==
  /\ Touch(tab)
  /\ knownTabs' = knownTabs \cup {tab} /\ UNCHANGED <<removals, log, batch>>

\* rememberTab
Remember(tab) ==
  /\ Touch(tab)
  /\ IF tab \in Private
       THEN Forget(tab)
       ELSE knownTabs' = knownTabs \cup {tab} /\ UNCHANGED <<removals, log, batch>>

\* What the two change.
Heard == <<knownTabs, removals, log, batch>>
Unheard == UNCHANGED <<tabsTouchedDuringStartup, Heard>>

TabOpened(tab) ==
  /\ Event
  /\ tab \in fresh
  /\ open' = open \cup {tab}
  /\ fresh' = fresh \ {tab}
  /\ IF alive THEN Remember(tab) ELSE Unheard
  /\ UNCHANGED <<alive, tabsQuery, queried, lookups, resurrected, pending, initialized,
                 history, faults>>

TabUpdated(tab) ==
  /\ alive /\ Event
  /\ tab \in open
  /\ Remember(tab)
  /\ UNCHANGED <<browser, alive, tabsQuery, queried, lookups, resurrected, pending,
                 initialized, history, faults>>

TabRemoved(tab) ==
  /\ Event
  /\ tab \in open
  /\ open' = open \ {tab}
  /\ IF alive THEN Touch(tab) /\ Forget(tab) ELSE Unheard
  /\ UNCHANGED <<fresh, alive, tabsQuery, queried, lookups, resurrected, pending,
                 initialized, history, faults>>

\* One tab takes the place of another, and is known when it has been looked up.
TabReplaced(added, removed) ==
  /\ Event
  /\ added \in fresh /\ removed \in open
  /\ open' = (open \ {removed}) \cup {added}
  /\ fresh' = fresh \ {added}
  /\ IF alive
       THEN Touch(removed) /\ Forget(removed) /\ lookups' = lookups \cup {<<added, "replaced">>}
       ELSE Unheard /\ UNCHANGED lookups
  /\ UNCHANGED <<alive, tabsQuery, queried, resurrected, pending, initialized, history, faults>>

\* activity.get of a tab: when the startup query has settled the tab is looked up.
View(tab) ==
  /\ alive /\ Event
  /\ tab \notin fresh /\ tabsQuery \in {"done", "failed"}
  /\ lookups' = lookups \cup {<<tab, IF tab \in open THEN "view" ELSE "closed">>}
  /\ Unheard
  /\ UNCHANGED <<browser, alive, tabsQuery, queried, resurrected, pending, initialized, history,
                 faults>>

\* The tab was found.  The answer is of the moment the browser looked, and nobody asks
\* whether the tab was closed since.
LookupAnswered(tab, purpose) ==
  /\ alive /\ <<tab, purpose>> \in lookups /\ purpose \in {"replaced", "view"}
  /\ Remember(tab)
  /\ resurrected' = IF tab \in open THEN resurrected ELSE resurrected \cup {tab}
  /\ lookups' = (lookups \ {<<tab, purpose>>})
                  \cup (IF purpose = "view" /\ tab \notin Private THEN {<<tab, "count">>} ELSE {})
  /\ UNCHANGED <<browser, alive, tabsQuery, queried, pending, initialized, history, events,
                 faults>>

\* The end of a lookup that found nothing.
Sought(tab, purpose) ==
  /\ lookups' = lookups \ {<<tab, purpose>>}
  /\ resurrected' = IF purpose = "replaced" THEN resurrected ELSE resurrected \ {tab}
  /\ UNCHANGED <<browser, alive, tabsQuery, queried, pending, initialized, history, events>>

\* Mutant: activity.get does not forget a tab that is not there.
LookupFailsQuietly(tab, purpose) ==
  /\ alive /\ <<tab, purpose>> \in lookups
  /\ \/ Succeeds /\ tab \notin open
     \/ Fails
  /\ Unheard
  /\ Sought(tab, purpose)

\* It was not, or the count of blocked requests that activity.get asks for next cannot be
\* had: it is forgotten, by activity.get.
LookupFails(tab, purpose) ==
  /\ alive /\ <<tab, purpose>> \in lookups
  /\ \/ Succeeds /\ tab \notin open
     \/ Fails
  /\ IF purpose = "replaced" THEN UNCHANGED Heard ELSE Forget(tab)
  /\ UNCHANGED tabsTouchedDuringStartup
  /\ Sought(tab, purpose)

\* The count is there, and the request is answered.
Counted(tab) ==
  /\ alive /\ <<tab, "count">> \in lookups
  /\ lookups' = lookups \ {<<tab, "count">>}
  /\ Unheard
  /\ UNCHANGED <<browser, alive, tabsQuery, queried, resurrected, pending, initialized, history,
                 events, faults>>

\* Mutant: the query's answer wins over later events.
TabsAnsweredLate ==
  /\ alive /\ tabsQuery = "asked"
  /\ Succeeds
  /\ knownTabs' = knownTabs \cup (queried \ Private)
  /\ queried' = knownTabs'
  /\ IF initialized
       THEN /\ tabsQuery' = "done" /\ tabsTouchedDuringStartup' = {}
            /\ Retain(knownTabs')
       ELSE /\ tabsQuery' = "answered"
            /\ UNCHANGED <<tabsTouchedDuringStartup, log, batch>>
  /\ UNCHANGED <<browser, alive, lookups, resurrected, pending, initialized, removals, history,
                 events>>

\* The tabs of the moment of the question, but for those an event told of since.
TabsAnswered ==
  /\ alive /\ tabsQuery = "asked"
  /\ Succeeds
  /\ knownTabs' = knownTabs \cup (queried \ (tabsTouchedDuringStartup \cup Private))
  /\ queried' = knownTabs'
  /\ IF initialized
       THEN /\ tabsQuery' = "done" /\ tabsTouchedDuringStartup' = {}
            /\ Retain(knownTabs')
       ELSE /\ tabsQuery' = "answered"
            /\ UNCHANGED <<tabsTouchedDuringStartup, log, batch>>
  /\ UNCHANGED <<browser, alive, lookups, resurrected, pending, initialized, removals, history,
                 events>>

TabsFail ==
  /\ alive /\ tabsQuery = "asked"
  /\ Fails
  /\ tabsQuery' = "failed"
  /\ tabsTouchedDuringStartup' = {}
  /\ UNCHANGED <<browser, alive, knownTabs, queried, lookups, resurrected, log, pending,
                 initialized, removals, batch, history, events>>

-----------------------------------------------------------------------------
(* The worker's lifetime: it may be stopped at any step, a write in flight     *)
(* may still take effect, and the next event starts it with an empty memory.   *)

Stop ==
  /\ alive
  /\ Fails
  /\ alive' = FALSE
  /\ stored' \in IF saving = None THEN {stored} ELSE {stored, saving}
  /\ log' = EmptyLog
  /\ pending' = << >> /\ removals' = {} /\ initialized' = FALSE
  /\ knownTabs' = {} /\ queried' = {} /\ tabsQuery' = "asked"
  /\ tabsTouchedDuringStartup' = {} /\ lookups' = {} /\ resurrected' = {}
  /\ dirty' = FALSE /\ timer' = FALSE /\ saving' = None
  /\ clearing' = FALSE /\ storageError' = FALSE /\ doomed' = {}
  /\ UNCHANGED <<browser, life, gone, events>>

Start ==
  /\ ~alive
  /\ alive' = TRUE
  /\ queried' = open
  /\ life' = life + 1
  /\ UNCHANGED <<browser, knownTabs, tabsQuery, tabsTouchedDuringStartup, lookups, resurrected,
                 log, pending, initialized, removals, batch, doomed, gone, events, faults>>

Writing == WriteDone \/ WriteFails

Next ==
  \/ \E match \in Matches : Record(match)
  \/ \E tab \in Tabs : TabOpened(tab) \/ TabUpdated(tab) \/ TabRemoved(tab)
  \/ \E added, removed \in Tabs : TabReplaced(added, removed)
  \/ \E tab \in Tabs :
       \/ View(tab) \/ Counted(tab)
       \/ \E purpose \in Purposes : LookupAnswered(tab, purpose) \/ LookupFails(tab, purpose)
  \/ Clear \/ Initialize \/ TimerFires \/ Writing
  \/ TabsAnswered \/ TabsFail \/ Stop \/ Start

Spec == Init /\ [][Next]_vars

\* Browser calls answer, timers fire, a stopped worker is started by some event.
FairSpec ==
  Spec /\ WF_vars(Initialize) /\ WF_vars(TimerFires) /\ WF_vars(Writing) /\ WF_vars(Start)

-----------------------------------------------------------------------------
(* Properties. *)

LogStates ==
  [rows : Seq(Rows), seen : Seq(Matches), sequence : 0 .. MaxSequence, recorded : Seq(Matches)]

\* Types of all variables, and the limits on what memory and storage hold.
TypeOK ==
  /\ open \in SUBSET Tabs /\ fresh \in SUBSET (Tabs \ open)
  /\ stored \in Seq(Rows) /\ Len(stored) <= LIMIT
  /\ alive \in BOOLEAN
  /\ knownTabs \in SUBSET Tabs /\ queried \in SUBSET Tabs
  /\ tabsQuery \in {"asked", "answered", "done", "failed"}
  /\ tabsTouchedDuringStartup \in SUBSET Tabs /\ resurrected \in SUBSET Tabs
  /\ lookups \in SUBSET (Tabs \X Purposes)
  /\ log \in LogStates /\ Len(log.rows) <= LIMIT /\ Len(log.seen) <= 2 * LIMIT
  /\ pending \in Seq(Matches) /\ Len(pending) <= LIMIT
  /\ initialized \in BOOLEAN /\ removals \in SUBSET Tabs
  /\ dirty \in BOOLEAN /\ timer \in BOOLEAN
  /\ saving = None \/ (saving \in Seq(Rows) /\ Len(saving) <= LIMIT)
  /\ clearing \in BOOLEAN /\ storageError \in BOOLEAN
  /\ life \in Nat /\ doomed \in SUBSET Rows /\ gone \in SUBSET Rows
  /\ events \in Nat /\ faults \in Nat

\* Once clear has answered with success, no row it removed is in memory, in
\* storage or on its way there, also after the worker was stopped and restarted.
ClearedForGood == gone \cap (RowsOf(log.rows) \cup WrittenRows) = {}

\* A worker with nothing planned and no error shown has its rows in storage:
\* rows are lost silently only with a worker that is stopped too early.
SavedOrReported ==
  (initialized /\ ~timer /\ saving = None /\ ~storageError) => stored = log.rows

\* A match delivered twice makes one row, a clear in between or not, as long as
\* fewer than 2 * LIMIT others came between; and rows, keys and matches that wait for
\* storage stay within their limits (TypeOK has them).
OneRowPerMatch ==
  /\ TypeOK
  /\ \A i, j \in DOMAIN log.recorded :
       (i < j /\ log.recorded[i] = log.recorded[j]) => j - i > 2 * LIMIT

\* Tabs whose rows there may be: open ones, and closed ones remembered after a late answer.
Permitted == (open \cup resurrected) \ Private

\* No closed or private tab is known, so none is taken for the site of a match, and no row
\* of one is shown: not one recorded by this worker, and none restored once the
\* startup query has been answered.  The exception are tabs of which a lookup was answered
\* when they were closed, until activity.get looks for such a tab and does not find it.
ClosedTabsForgotten ==
  /\ knownTabs \subseteq Permitted
  /\ initialized =>
       \A row \in RowsOf(log.rows) :
         (row.life = life \/ tabsQuery = "done") => row.match.tabId \in Permitted

\* Whoever clears the activity gets an answer, unless the worker is stopped.
ClearAnswered == clearing ~> ~clearing

\* Every change reaches storage or is reported, unless the worker is stopped.
EventuallySaved ==
  (initialized /\ stored # log.rows) ~> (stored = log.rows \/ storageError \/ ~alive)
=============================================================================
