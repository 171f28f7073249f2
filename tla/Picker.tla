--------------------------------- MODULE Picker ---------------------------------
(***************************************************************************)
(* The element picker: the popup starts a session on a tab, its panel in   *)
(* the page asks the worker to save one cosmetic rule, to undo it, or to   *)
(* end the session.  The permission is a grant in session storage, so that *)
(* it survives the worker; requests of all tabs are handled in turn.       *)
(*                                                                         *)
(* The controller is what AtomicConfig promises: an operation takes effect *)
(* on the local list at once or not at all.  The page is its panel's       *)
(* state; choosing and previewing elements is not modelled.                *)
(***************************************************************************)
EXTENDS Integers, Sequences, FiniteSets

CONSTANTS
  None,
  Tabs, Hosts, Selectors,
  Written,     \* rules a user may write into the list: [host, selector]
  MaxTokens,   \* bound: sessions
  MaxRequests, \* bound: requests at the worker at a time
  MaxFaults    \* bound: failed calls and stopped workers

VARIABLES
  grants,    \* session storage: tab -> grant or None
  text,      \* rules in the local list, those of the picker with their session's token
  paused,    \* hosts where protection is off
  open,      \* tabs that are open
  site,      \* tab -> the host of its page
  panel,     \* tab -> the picker's panel in its page, or None
  queue,     \* requests at the worker, oldest first
  job,       \* the oldest one's [pc, host, grant, result]
  removing,  \* closed tabs whose grant the listener is about to remove
  tokens,    \* sessions so far; tokens are their numbers
  expired,   \* those whose ten minutes are over
  faults

page == <<open, site, panel>>  \* what the browser shows
vars == <<grants, text, paused, page, queue, job, removing, tokens, expired, faults>>

ASSUME PickerAssumption ==
  /\ None \notin Hosts \cup Selectors \cup Nat
  /\ Written \subseteq [host : Hosts, selector : Selectors]
  /\ {MaxTokens, MaxRequests, MaxFaults} \subseteq Nat

Tokens == Nat \ {0}

\* selector: the rule that may be undone.
Grants == [token : Tokens, host : Hosts, selector : Selectors \cup {None}]

Rule(host, selector, token) == [host |-> host, selector |-> selector, token |-> token]
Rules == [host : Hosts, selector : Selectors, token : Tokens \cup {None}]

\* rule: what became of the rule it saved.  asking: what it waits for, its buttons disabled.
Panels ==
  [token : Tokens, rule : {"none", "known", "added"}, asking : {"nothing", "save", "undo"}]

Requests ==
  {r \in [type : {"start", "save", "undo", "cancel"}, tab : Tabs, host : Hosts \cup {None},
          token : Tokens \cup {None}, selector : Selectors \cup {None}] :
     r.type = "save" => r.selector # None}

Jobs ==
  [pc : {"idle", "config", "grant", "send", "mark", "add", "unmark", "remove", "revoke",
         "reply"},
   host : Hosts \cup {None}, grant : Grants \cup {None},
   result : {None, "ok", "error", "added", "known"}]

NoJob == [pc |-> "idle", host |-> None, grant |-> None, result |-> None]

Init ==
  /\ grants = [t \in Tabs |-> None]
  /\ text \in SUBSET {Rule(w.host, w.selector, None) : w \in Written}
  /\ paused = {}
  /\ open = Tabs /\ site \in [Tabs -> Hosts]
  /\ panel = [t \in Tabs |-> None]
  /\ queue = << >>
  /\ job = NoJob
  /\ removing = {}
  /\ tokens = 0 /\ expired = {}
  /\ faults = 0

Succeeds == UNCHANGED faults
Fails == faults < MaxFaults /\ faults' = faults + 1

-----------------------------------------------------------------------------
(* The page and the popup. *)

PanelIs(t, p) == panel' = [panel EXCEPT ![t] = p] /\ UNCHANGED <<open, site>>

Ask(type, t, token, selector) ==
  /\ Len(queue) < MaxRequests
  /\ queue' = Append(queue, [type |-> type, tab |-> t, host |-> site[t],
                             token |-> token, selector |-> selector])

WorkerUnchanged == UNCHANGED <<grants, text, paused, job, removing, tokens, expired, faults>>

StartsAsked == Cardinality({i \in DOMAIN queue : queue[i].type = "start"})

PopupStart(t) ==
  /\ t \in open
  /\ tokens + StartsAsked < MaxTokens
  /\ Ask("start", t, None, None)
  /\ WorkerUnchanged /\ UNCHANGED page

\* persist: any element may have been chosen and previewed.
PressSave(t, s) ==
  /\ panel[t] # None /\ panel[t].asking = "nothing" /\ panel[t].rule = "none"
  /\ PanelIs(t, [panel[t] EXCEPT !.asking = "save"])
  /\ Ask("save", t, panel[t].token, s)
  /\ WorkerUnchanged

\* revert
PressUndo(t) ==
  /\ panel[t] # None /\ panel[t].asking = "nothing" /\ panel[t].rule = "added"
  /\ PanelIs(t, [panel[t] EXCEPT !.asking = "undo"])
  /\ Ask("undo", t, panel[t].token, None)
  /\ WorkerUnchanged

\* finish: Cancel, Done or Escape.
Finish(t) ==
  /\ panel[t] # None /\ panel[t].asking = "nothing"
  /\ PanelIs(t, None)
  /\ Ask("cancel", t, panel[t].token, None)
  /\ WorkerUnchanged

\* The page is left; its panel goes without a word.
Navigate(t, h) ==
  /\ t \in open
  /\ site' = [site EXCEPT ![t] = h] /\ panel' = [panel EXCEPT ![t] = None]
  /\ WorkerUnchanged /\ UNCHANGED <<open, queue>>

CloseTab(t) ==
  /\ t \in open
  /\ open' = open \ {t} /\ panel' = [panel EXCEPT ![t] = None]
  /\ removing' = removing \cup {t}
  /\ UNCHANGED <<grants, text, paused, site, queue, job, tokens, expired, faults>>

-----------------------------------------------------------------------------
(* The worker: one request after the other. *)

Request == Head(queue)
Running(type) == job.pc = "idle" /\ queue # << >> /\ Request.type = type
At(pc) == job.pc = pc

Goes(pc) == job' = [job EXCEPT !.pc = pc]
Result(result) == job' = [job EXCEPT !.pc = "reply", !.result = result]

PageUnchanged == UNCHANGED <<page, queue, removing>>
Grant(t, grant) == grants' = [grants EXCEPT ![t] = grant]

\* start: the tab is looked up, then the configuration, the grant written, the page told.
StartLook ==
  /\ Running("start")
  /\ Request.tab \in open
  /\ job' = [NoJob EXCEPT !.pc = "config", !.host = site[Request.tab]]
  /\ PageUnchanged /\ UNCHANGED <<grants, text, paused, tokens, expired, faults>>

StartConfig ==
  /\ At("config")
  /\ job.host \notin paused
  /\ Goes("grant")
  /\ PageUnchanged /\ UNCHANGED <<grants, text, paused, tokens, expired, faults>>

\* The tab is gone, or not one to pick in; protection is paused, or unknown.
StartRefused ==
  /\ \/ Running("start") /\ IF Request.tab \in open THEN Fails ELSE Succeeds
     \/ At("config") /\ IF job.host \in paused THEN Succeeds ELSE Fails
  /\ Result("error")
  /\ PageUnchanged /\ UNCHANGED <<grants, text, paused, tokens, expired>>

StartGrant ==
  /\ At("grant")
  /\ tokens' = tokens + 1
  /\ \/ /\ Succeeds
        /\ Grant(Request.tab, [token |-> tokens', host |-> job.host, selector |-> None])
        /\ Goes("send")
     \/ Fails /\ Result("error") /\ UNCHANGED grants
  /\ PageUnchanged /\ UNCHANGED <<text, paused, expired>>

NewPanel == [token |-> tokens, rule |-> "none", asking |-> "nothing"]

\* startPicker closes an older panel before it opens its own.
StartSend ==
  /\ At("send")
  /\ Request.tab \in open
  /\ PanelIs(Request.tab, NewPanel)
  /\ Result("ok")
  /\ UNCHANGED <<grants, text, paused, queue, removing, tokens, expired, faults>>

\* Nobody listens in the page, or startPicker throws.
StartSendFails ==
  /\ At("send")
  /\ IF Request.tab \in open THEN Fails ELSE Succeeds
  /\ \/ UNCHANGED page
     \/ PanelIs(Request.tab, None)
  /\ job' = [job EXCEPT !.pc = "revoke", !.result = "error"]
  /\ UNCHANGED <<grants, text, paused, queue, removing, tokens, expired>>

\* The grant is removed; that it cannot be is an error.
Revoke ==
  /\ At("revoke")
  /\ \/ Succeeds /\ Grant(Request.tab, None) /\ Result(job.result)
     \/ Fails /\ Result("error") /\ UNCHANGED grants
  /\ PageUnchanged /\ UNCHANGED <<text, paused, tokens, expired>>

\* handle: the grant must be that of the panel, its page and its tab.
Permitted(grant) ==
  /\ grant # None /\ grant.token \notin expired
  /\ grant.token = Request.token /\ grant.host = Request.host

\* Mutant: a second rule may be saved in one session.
SaveableAny(grant) == TRUE

\* A session saves one rule; asking again for the same is a retry.
Saveable(grant) == grant.selector \in {None, Request.selector}

Acceptable ==
  LET grant == grants[Request.tab]
  IN  /\ Permitted(grant)
      /\ Request.type = "undo" => grant.selector # None
      /\ Request.type = "save" => Saveable(grant)

Handle(type, pc) ==
  /\ Running(type) /\ Acceptable
  /\ job' = [NoJob EXCEPT !.pc = pc, !.grant = grants[Request.tab], !.result = "ok"]
  /\ PageUnchanged /\ UNCHANGED <<grants, text, paused, tokens, expired, faults>>

HandleCancel == Handle("cancel", "revoke")
HandleUndo == Handle("undo", "remove")
HandleSave == Handle("save", "mark")

\* The session is over, not this page's, or cannot be read.
Refuse ==
  /\ \E type \in {"cancel", "undo", "save"} : Running(type)
  /\ IF Acceptable THEN Fails ELSE Succeeds
  /\ Result("error")
  /\ PageUnchanged /\ UNCHANGED <<grants, text, paused, tokens, expired>>

\* The permission to undo is written before the rule.
Mark ==
  /\ At("mark")
  /\ \/ Succeeds /\ Grant(Request.tab, [job.grant EXCEPT !.selector = Request.selector])
                 /\ Goes("add")
     \/ Fails /\ Result("error") /\ UNCHANGED grants
  /\ PageUnchanged /\ UNCHANGED <<text, paused, tokens, expired>>

Block(selector) == Rule(job.grant.host, selector, job.grant.token)

\* addPickerRule: a rule that is there already, from elsewhere, is not added.
Add ==
  /\ At("add") /\ job.grant.host \notin paused
  /\ LET block == Block(Request.selector)
         known == \E r \in text : r.host = block.host /\ r.selector = block.selector
     IN  IF block \in text \/ ~known
         THEN text' = text \cup {block} /\ Result("added")
         ELSE UNCHANGED text /\ Result("known")
  /\ PageUnchanged /\ UNCHANGED <<grants, paused, tokens, expired, faults>>

\* Protection is paused, the companion does not answer, or the commit fails.
AddFails ==
  /\ At("add")
  /\ IF job.grant.host \in paused THEN Succeeds ELSE Fails
  /\ Goes("unmark")
  /\ PageUnchanged /\ UNCHANGED <<grants, text, paused, tokens, expired>>

\* Mutant: a save that failed has nothing to undo, not even an earlier one.
UnmarkClears ==
  /\ At("unmark")
  /\ \/ Succeeds /\ Grant(Request.tab, [job.grant EXCEPT !.selector = None])
     \/ Fails /\ UNCHANGED grants
  /\ Result("error")
  /\ PageUnchanged /\ UNCHANGED <<text, paused, tokens, expired>>

\* The grant as it was read is written back; that it cannot be is ignored.
Unmark ==
  /\ At("unmark")
  /\ \/ Succeeds /\ Grant(Request.tab, job.grant)
     \/ Fails /\ UNCHANGED grants
  /\ Result("error")
  /\ PageUnchanged /\ UNCHANGED <<text, paused, tokens, expired>>

\* removePickerRule: exactly the session's block, if it is still there.
Remove ==
  /\ At("remove")
  /\ LET block == Block(job.grant.selector)
     IN  \/ /\ Succeeds
            /\ IF block \in text THEN text' = text \ {block} /\ Goes("revoke")
               ELSE Result("error") /\ UNCHANGED text
         \/ Fails /\ Result("error") /\ UNCHANGED text
  /\ PageUnchanged /\ UNCHANGED <<grants, paused, tokens, expired>>

\* Mutant: a refused request leaves the buttons as they are.
ToldStuck(p) ==
  IF p = None \/ p.token # Request.token \/ job.result = "error" THEN p
  ELSE IF Request.type = "undo" THEN None
  ELSE [p EXCEPT !.asking = "nothing", !.rule = job.result]

\* persist and revert, when they are answered.
Told(p) ==
  IF p = None \/ p.token # Request.token THEN p
  ELSE IF job.result = "error" THEN [p EXCEPT !.asking = "nothing"]
  ELSE IF Request.type = "undo" THEN None
  ELSE [p EXCEPT !.asking = "nothing", !.rule = job.result]

\* The panel that asked hears of the result; after an undo it closes and ends the session.
Reply ==
  /\ At("reply")
  /\ job' = NoJob
  /\ IF Request.type \in {"save", "undo"}
     THEN PanelIs(Request.tab, Told(panel[Request.tab]))
     ELSE UNCHANGED page
  /\ queue' = IF Request.type = "undo" /\ panel[Request.tab] # None /\ panel'[Request.tab] = None
              THEN Append(Tail(queue), [Request EXCEPT !.type = "cancel"]) ELSE Tail(queue)
  /\ UNCHANGED <<grants, text, paused, removing, tokens, expired, faults>>

Work ==
  \/ StartLook \/ StartConfig \/ StartRefused \/ StartGrant \/ StartSend \/ StartSendFails
  \/ HandleCancel \/ HandleUndo \/ HandleSave \/ Refuse \/ Mark \/ Add \/ AddFails \/ Unmark \/ Remove \/ Revoke \/ Reply

\* The worker is stopped: what it was asked fails, what it stored stays.
Crash ==
  /\ Fails
  /\ queue # << >>
  /\ queue' = << >>
  /\ job' = NoJob
  /\ panel' = [t \in Tabs |->
       IF panel[t] = None THEN None ELSE [panel[t] EXCEPT !.asking = "nothing"]]
  /\ UNCHANGED <<grants, text, paused, open, site, removing, tokens, expired>>

-----------------------------------------------------------------------------
(* What happens beside the picker. *)

\* The listener for closed tabs does not wait for its turn.
ForgetTab(t) ==
  /\ t \in removing
  /\ removing' = removing \ {t}
  /\ \/ Succeeds /\ Grant(t, None)
     \/ Fails /\ UNCHANGED grants
  /\ UNCHANGED <<text, paused, page, queue, job, tokens, expired>>

Expire ==
  /\ \E t \in Tabs : grants[t] # None /\ expired' = expired \cup {grants[t].token}
  /\ UNCHANGED <<grants, text, paused, page, queue, job, removing, tokens, faults>>

\* The user edits the local list.
Edit ==
  /\ \/ \E r \in text : text' = text \ {r}
     \/ \E w \in Written : text' = text \cup {Rule(w.host, w.selector, None)}
  /\ UNCHANGED <<grants, paused, page, queue, job, removing, tokens, expired, faults>>

Pause ==
  /\ \E h \in Hosts : paused' = IF h \in paused THEN paused \ {h} ELSE paused \cup {h}
  /\ UNCHANGED <<grants, text, page, queue, job, removing, tokens, expired, faults>>

Use(t) ==
  \/ PopupStart(t) \/ PressUndo(t) \/ Finish(t) \/ CloseTab(t)
  \/ \E s \in Selectors : PressSave(t, s)
  \/ \E h \in Hosts : Navigate(t, h)

Next ==
  \/ \E t \in Tabs : Use(t) \/ ForgetTab(t)
  \/ Expire \/ Work \/ Crash \/ Edit \/ Pause

Spec == Init /\ [][Next]_vars

\* Every awaited call answers.
FairSpec == Spec /\ WF_vars(Work)

-----------------------------------------------------------------------------
(* Properties. *)

\* Types; the worker runs a request of the queue, and a panel is a page's of an open tab.
TypeOK ==
  /\ grants \in [Tabs -> Grants \cup {None}]
  /\ text \in SUBSET Rules
  /\ paused \in SUBSET Hosts
  /\ open \in SUBSET Tabs /\ site \in [Tabs -> Hosts]
  /\ panel \in [Tabs -> Panels \cup {None}]
  /\ queue \in Seq(Requests) /\ Len(queue) <= MaxRequests
  /\ job \in Jobs
  /\ job.pc # "idle" => queue # << >>
  /\ \A t \in Tabs : panel[t] # None => t \in open
  /\ removing \in SUBSET Tabs
  /\ tokens \in Nat /\ expired \in SUBSET Tokens /\ faults \in Nat

\* An interrupted save can be undone: whatever stopped, failed or was tried again, a rule
\* of a session whose grant lives is the one its grant allows to undo.
SavedUndoable ==
  \A t \in Tabs : grants[t] # None =>
    \A r \in text : r.token = grants[t].token =>
      r.host = grants[t].host /\ r.selector = grants[t].selector

\* A session never leaves two rules behind, of which an undo would find only one.
OneRulePerSession ==
  \A r, s \in text : (r.token = s.token /\ r.token # None) => r = s

\* The panel is never stuck with its buttons disabled.
PanelAnswered == \A t \in Tabs : []<>(panel[t] = None \/ panel[t].asking = "nothing")

\* What the privacy model says: closing a tab removes its grant.
ClosedTabsRevoked ==
  \A t \in Tabs : (t \notin open /\ removing = {} /\ queue = << >>) => grants[t] = None
=============================================================================
