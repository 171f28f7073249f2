----------------------------- MODULE PickerProofs -----------------------------
(***************************************************************************)
(* The picker's sessions for any number of tabs, hosts, selectors,         *)
(* sessions and faults: what a session left in the list can be undone as   *)
(* long as its grant lives, and it is never more than one rule.            *)
(*                                                                         *)
(* Neither is inductive: a save holds a copy of the grant across three     *)
(* awaits, while the tab may be closed and the list edited.  IInv says     *)
(* what that copy still has to do with the list and with session storage.  *)
(***************************************************************************)
EXTENDS Picker, TLAPS

\* Sessions under way are numbered, and no two tabs share one.
TokensKept ==
  /\ \A t \in Tabs : grants[t] # None => grants[t].token <= tokens
  /\ \A r \in text : r.token # None => r.token <= tokens
  /\ \A t, u \in Tabs :
       (grants[t] # None /\ grants[u] # None /\ grants[t].token = grants[u].token) => t = u

\* The awaits that hold a copy of the grant.
Saving == {"mark", "add", "unmark"}
Holding == Saving \cup {"remove"}

\* What each await of a job relies on.
JobKept ==
  /\ job.pc \in {"config", "grant", "send"} => Request.type = "start"
  /\ job.pc \in {"config", "grant"} => job.host \in Hosts
  /\ job.pc = "send" => tokens > 0
  /\ job.pc \in Saving => Request.type = "save"
  /\ job.pc \in {"remove", "revoke"} => Request.type # "save"
  /\ job.pc \in Holding => job.grant # None
  /\ (job.pc = "reply" /\ Request.type = "save") => job.result \in {"error", "added", "known"}

\* What the list holds of a session is the rule its grant names.
Accounts(grant) ==
  \A r \in text : r.token = grant.token => r.host = grant.host /\ r.selector = grant.selector

\* The copy still speaks for its session: session storage has that session's grant or none,
\* and another tab has neither.
CopyKept ==
  job.pc \in Holding =>
    /\ job.grant.token <= tokens
    /\ Accounts(job.grant)
    /\ \A t \in Tabs : grants[t] # None =>
         IF t = Request.tab THEN grants[t].token = job.grant.token /\ grants[t].host = job.grant.host
         ELSE grants[t].token # job.grant.token

\* A save repeats the session's rule or is its first, and is permitted before it is made.
SaveKept ==
  /\ job.pc \in Saving => job.grant.selector \in {None, Request.selector}
  /\ (job.pc = "add" /\ grants[Request.tab] # None) =>
       grants[Request.tab].selector = Request.selector

Kept == TokensKept /\ CopyKept /\ SaveKept /\ SavedUndoable /\ OneRulePerSession

-----------------------------------------------------------------------------
\* What TypeOK says of the page, the queue, the job and the rest.
PageOK ==
  /\ open \in SUBSET Tabs /\ site \in [Tabs -> Hosts]
  /\ panel \in [Tabs -> Panels \cup {None}]
  /\ \A t \in Tabs : panel[t] # None => t \in open
QueueOK == queue \in Seq(Requests) /\ Len(queue) <= MaxRequests
JobOK == job \in Jobs /\ (job.pc # "idle" => queue # << >>)
RestOK ==
  /\ grants \in [Tabs -> Grants \cup {None}]
  /\ text \in SUBSET Rules /\ paused \in SUBSET Hosts
  /\ removing \in SUBSET Tabs
  /\ tokens \in Nat /\ expired \in SUBSET Tokens /\ faults \in Nat

Typed == PageOK /\ QueueOK /\ JobOK /\ JobKept /\ RestOK

IInv == Typed /\ Kept
-----------------------------------------------------------------------------

\* The request that runs is one.
LEMMA RequestType ==
  ASSUME QueueOK, queue # << >>
  PROVE  /\ Request \in Requests /\ Tail(queue) \in Seq(Requests)
         /\ Len(Tail(queue)) = Len(queue) - 1 /\ Len(queue) \in Nat
         /\ Request.tab \in Tabs
<1>1. Request \in Requests /\ Tail(queue) \in Seq(Requests)
  BY DEF QueueOK, Request
<1>2. Len(Tail(queue)) = Len(queue) - 1 /\ Len(queue) \in Nat
  BY DEF QueueOK
<1> QED
  BY <1>1, <1>2 DEF Requests

\* Asking leaves the request that runs alone.
LEMMA AskType ==
  ASSUME PageOK, QueueOK, NEW type \in {"start", "save", "undo", "cancel"}, NEW t \in Tabs,
         NEW token \in Tokens \cup {None}, NEW selector \in Selectors \cup {None},
         type = "save" => selector # None,
         Ask(type, t, token, selector)
  PROVE  /\ QueueOK' /\ queue' # << >>
         /\ queue # << >> => Request' = Request
<1> DEFINE r == [type |-> type, tab |-> t, host |-> site[t], token |-> token,
                 selector |-> selector]
<1>1. r \in Requests
  BY DEF PageOK, Requests
<1>2. queue' = Append(queue, r) /\ Len(queue) < MaxRequests /\ queue \in Seq(Requests)
  BY DEF Ask, QueueOK
<1> HIDE DEF r
<1>3. queue' \in Seq(Requests) /\ Len(queue') = Len(queue) + 1
  BY <1>1, <1>2
<1>4. Len(queue) \in Nat /\ MaxRequests \in Nat
  BY <1>2, PickerAssumption
<1>5. queue # << >> => queue'[1] = queue[1]
  BY <1>1, <1>2
<1>6. queue # << >> => Request' = Request
  BY <1>5, <1>2, <1>3 DEF Request
<1> QED
  BY <1>2, <1>3, <1>4, <1>6 DEF QueueOK

Pcs == {"idle", "config", "grant", "send", "mark", "add", "unmark", "remove", "revoke", "reply"}
Results == {None, "ok", "error", "added", "known"}

\* A job stays one.
LEMMA JobType ==
  ASSUME job \in Jobs, NEW p \in Pcs, NEW r \in Results
  PROVE  /\ Goes(p) => /\ job' \in Jobs /\ job'.pc = p /\ job'.host = job.host
                       /\ job'.grant = job.grant /\ job'.result = job.result
         /\ Result(r) => /\ job' \in Jobs /\ job'.pc = "reply" /\ job'.grant = job.grant
                         /\ job'.result = r
<1>1. job = [pc |-> job.pc, host |-> job.host, grant |-> job.grant, result |-> job.result]
  BY DEF Jobs
<1>2. Goes(p) => job' = [pc |-> p, host |-> job.host, grant |-> job.grant, result |-> job.result]
  BY <1>1 DEF Goes, Jobs
<1>3. Result(r) => job' = [pc |-> "reply", host |-> job.host, grant |-> job.grant, result |-> r]
  BY <1>1 DEF Result, Jobs
<1> QED
  BY <1>2, <1>3 DEF Jobs, Pcs, Results

\* A panel stays one.
LEMMA PanelType ==
  ASSUME PageOK, NEW t \in Tabs, panel[t] # None
  PROVE  /\ panel[t].token \in Tokens /\ t \in open
         /\ \A a \in {"nothing", "save", "undo"}, r \in {"none", "known", "added"} :
              /\ [panel[t] EXCEPT !.asking = a] \in Panels
              /\ [panel[t] EXCEPT !.asking = a, !.rule = r] \in Panels
<1>1. panel[t] \in Panels /\ t \in open
  BY DEF PageOK
<1> DEFINE p == panel[t]
<1> HIDE DEF p
<1>2. p \in Panels
  BY <1>1 DEF p
<1>3. p.token \in Tokens
  BY <1>2 DEF Panels
<1>4. \A a \in {"nothing", "save", "undo"}, r \in {"none", "known", "added"} :
        /\ [p EXCEPT !.asking = a] \in Panels
        /\ [p EXCEPT !.asking = a, !.rule = r] \in Panels
  BY <1>2 DEF Panels
<1> QED
  BY <1>1, <1>3, <1>4 DEF p

\* A job that waits keeps what it relies on, while its request stays.
LEMMA JobStays ==
  ASSUME Typed, UNCHANGED <<job, tokens>>,
         queue # << >> => queue' # << >> /\ Request' = Request
  PROVE  JobOK' /\ JobKept'
<1>1. JobOK'
  BY DEF Typed, JobOK
<1>2. job.pc # "idle" => Request' = Request
  BY DEF Typed, JobOK
<1>3. job' = job /\ tokens' = tokens
  OBVIOUS
<1>4. job.pc # "idle" => Request'.type = Request.type
  BY <1>2
<1> QED
  BY <1>1, <1>3, <1>4 DEF Typed, JobKept, Saving, Holding

\* What the page does.
LEMMA TypeUse ==
  ASSUME Typed, NEW t \in Tabs, Use(t)
  PROVE  Typed'
<1> DEFINE Asked == QueueOK' /\ queue' # << >> /\ (queue # << >> => Request' = Request)
<1>a. PageOK /\ QueueOK /\ RestOK
  BY DEF Typed
<1>b. ASSUME PageOK', Asked, WorkerUnchanged PROVE Typed'
  BY <1>a, <1>b, JobStays DEF Typed, RestOK, WorkerUnchanged
<1>1. CASE PopupStart(t)
  <2>1. Asked
    BY <1>1, <1>a, AskType DEF PopupStart
  <2> QED
    BY <1>1, <1>a, <1>b, <2>1 DEF PopupStart, PageOK, page
<1>2. ASSUME NEW s \in Selectors, PressSave(t, s) PROVE Typed'
  <2>1. PageOK'
    BY <1>2, <1>a, PanelType DEF PressSave, PanelIs, PageOK
  <2>2. Asked
    BY <1>2, <1>a, PanelType, AskType, PickerAssumption DEF PressSave
  <2> QED
    BY <1>2, <1>b, <2>1, <2>2 DEF PressSave
<1>3. CASE PressUndo(t)
  <2>1. PageOK'
    BY <1>3, <1>a, PanelType DEF PressUndo, PanelIs, PageOK
  <2>2. Asked
    BY <1>3, <1>a, PanelType, AskType DEF PressUndo
  <2> QED
    BY <1>3, <1>b, <2>1, <2>2 DEF PressUndo
<1>4. CASE Finish(t)
  <2>1. PageOK'
    BY <1>4, <1>a, PanelType DEF Finish, PanelIs, PageOK
  <2>2. Asked
    BY <1>4, <1>a, PanelType, AskType DEF Finish
  <2> QED
    BY <1>4, <1>b, <2>1, <2>2 DEF Finish
<1>5. CASE CloseTab(t)
  <2>1. PageOK' /\ RestOK' /\ UNCHANGED <<job, tokens, queue>>
    BY <1>5, <1>a DEF CloseTab, PageOK, RestOK
  <2> QED
    BY <1>a, <2>1, JobStays DEF Typed, QueueOK, Request
<1>6. ASSUME NEW h \in Hosts, Navigate(t, h) PROVE Typed'
  <2>1. PageOK' /\ RestOK' /\ UNCHANGED <<job, tokens, queue>>
    BY <1>6, <1>a DEF Navigate, WorkerUnchanged, PageOK, RestOK
  <2> QED
    BY <1>a, <2>1, JobStays DEF Typed, QueueOK, Request
<1> QED
  BY <1>1, <1>2, <1>3, <1>4, <1>5, <1>6 DEF Use

\* What happens beside the picker.
LEMMA TypeBeside ==
  ASSUME Typed,
         Crash \/ Expire \/ Edit \/ Pause \/ UNCHANGED vars \/ \E t \in Tabs : ForgetTab(t)
  PROVE  Typed'
<1> USE DEF page, Succeeds, Fails, Grant
<1>a. PageOK /\ RestOK
  BY DEF Typed
<1>b. ASSUME PageOK', RestOK', UNCHANGED <<job, tokens, queue>> PROVE Typed'
  BY <1>b, JobStays DEF Typed, QueueOK, Request
<1>1. CASE Crash
  <2>1. PageOK'
    BY <1>1, <1>a, PanelType DEF Crash, PageOK
  <2>2. QueueOK' /\ JobOK' /\ RestOK'
    BY <1>1, <1>a, PickerAssumption DEF Crash, QueueOK, JobOK, RestOK, NoJob, Jobs
  <2>3. JobKept'
    BY <1>1 DEF Crash, JobKept, NoJob, Saving, Holding
  <2> QED
    BY <2>1, <2>2, <2>3 DEF Typed
<1>2. CASE Edit
  BY <1>2, <1>a, <1>b, PickerAssumption DEF Edit, PageOK, RestOK, Rules, Rule
<1>3. CASE Pause
  BY <1>3, <1>a, <1>b DEF Pause, PageOK, RestOK
<1>4. CASE UNCHANGED vars
  BY <1>4, <1>a, <1>b DEF vars, PageOK, RestOK
<1>5. ASSUME NEW t \in Tabs, ForgetTab(t) PROVE Typed'
  BY <1>5, <1>a, <1>b DEF ForgetTab, PageOK, RestOK
<1>6. CASE Expire
  BY <1>6, <1>a, <1>b DEF Expire, PageOK, RestOK, Grants
<1> QED
  BY <1>1, <1>2, <1>3, <1>4, <1>5, <1>6

\* A result ends what the job relied on.
LEMMA ResultType ==
  ASSUME Typed, NEW r \in Results, Result(r), UNCHANGED queue,
         Request.type = "save" => r \in {"error", "added", "known"}
  PROVE  job' \in Jobs /\ job'.pc = "reply" /\ JobKept'
<1>1. job' \in Jobs /\ job'.pc = "reply" /\ job'.result = r
  BY JobType DEF Typed, JobOK, Pcs
<1>2. Request' = Request
  BY DEF Request
<1> QED
  BY <1>1, <1>2 DEF JobKept, Saving, Holding

\* Writing a grant.
LEMMA GrantType ==
  ASSUME RestOK, NEW t \in Tabs, NEW grant \in Grants \cup {None}, Grant(t, grant)
  PROVE  grants' \in [Tabs -> Grants \cup {None}]
BY DEF RestOK, Grant

\* What the worker does.
LEMMA TypeWork ==
  ASSUME Typed, Work
  PROVE  Typed'
<1> USE DEF page, Succeeds, Fails
<1>a. PageOK /\ QueueOK /\ JobOK /\ JobKept /\ RestOK
  BY DEF Typed
<1>b. queue # << >>
  BY <1>a DEF Work, StartLook, StartConfig, StartRefused, StartGrant, StartSend, StartSendFails,
              HandleCancel, HandleUndo, HandleSave, Handle, Refuse, Mark, Add, AddFails, Unmark,
              Remove, Revoke, Reply, At, Running, JobOK
<1>c. Request \in Requests /\ Request.tab \in Tabs
  BY <1>a, <1>b, RequestType
<1>d. grants[Request.tab] \in Grants \cup {None}
  BY <1>a, <1>c DEF RestOK
<1>e. ASSUME PageUnchanged, RestOK', job' \in Jobs, JobKept' PROVE Typed'
  <2>1. PageOK' /\ QueueOK'
    BY <1>a, <1>e DEF PageUnchanged, PageOK, QueueOK
  <2>2. JobOK'
    BY <1>a, <1>b, <1>e DEF PageUnchanged, JobOK
  <2> QED
    BY <1>e, <2>1, <2>2 DEF Typed
<1>f. PageUnchanged => Request' = Request
  BY DEF PageUnchanged, Request
<1>k. ASSUME NEW r \in Results, Result(r), PageUnchanged, RestOK',
             Request.type = "save" => r \in {"error", "added", "known"}
      PROVE  Typed'
  BY <1>e, <1>k, ResultType DEF PageUnchanged
<1>1. CASE StartLook
  <2>1. job' \in Jobs /\ job'.pc = "config" /\ job'.host \in Hosts
    BY <1>1, <1>a, <1>c DEF StartLook, NoJob, Jobs, PageOK
  <2>2. JobKept'
    BY <1>1, <1>f, <2>1 DEF StartLook, Running, JobKept, Saving, Holding
  <2> QED
    BY <1>1, <1>a, <1>e, <2>1, <2>2 DEF StartLook, RestOK, PageUnchanged
<1>2. CASE StartConfig
  <2>1. job' \in Jobs /\ job'.pc = "grant" /\ job'.host \in Hosts
    BY <1>2, <1>a, JobType DEF StartConfig, JobOK, JobKept, Pcs, Results, At
  <2>2. JobKept'
    BY <1>2, <1>a, <1>f, <2>1 DEF StartConfig, At, JobKept, Saving, Holding
  <2> QED
    BY <1>2, <1>a, <1>e, <2>1, <2>2 DEF StartConfig, RestOK, PageUnchanged
<1>3. CASE StartRefused
  BY <1>3, <1>a, <1>k DEF StartRefused, RestOK, PageUnchanged, Results
<1>4. CASE StartGrant
  <2> DEFINE grant == [token |-> tokens + 1, host |-> job.host, selector |-> None]
  <2>1. grant \in Grants /\ tokens' \in Nat /\ tokens' > 0
    BY <1>4, <1>a DEF StartGrant, At, JobKept, RestOK, Grants, Tokens
  <2>2. grants' \in [Tabs -> Grants \cup {None}]
    BY <1>4, <1>a, <1>c, <2>1, GrantType DEF StartGrant, RestOK
  <2>3. RestOK'
    BY <1>4, <1>a, <2>1, <2>2 DEF StartGrant, RestOK, PageUnchanged
  <2>4. CASE Goes("send")
    <3>1. job' \in Jobs /\ job'.pc = "send"
      BY <1>a, <2>4, JobType DEF JobOK, Pcs, Results
    <3>2. JobKept'
      BY <1>4, <1>a, <1>f, <2>1, <3>1 DEF StartGrant, At, JobKept, Saving, Holding
    <3> QED
      BY <1>4, <1>e, <2>3, <3>1, <3>2 DEF StartGrant
  <2>5. CASE Result("error")
    BY <1>4, <1>k, <2>3, <2>5 DEF StartGrant, Results
  <2> QED
    BY <1>4, <2>4, <2>5 DEF StartGrant
<1>5. CASE StartSend
  <2>1. PageOK'
    BY <1>5, <1>a, <1>c DEF StartSend, PanelIs, PageOK, NewPanel, Panels, At, JobKept, RestOK, Tokens
  <2>2. job' \in Jobs /\ JobKept'
    BY <1>5, <1>a, ResultType DEF StartSend, At, JobKept, Results
  <2> QED
    BY <1>5, <1>a, <1>b, <2>1, <2>2 DEF StartSend, Typed, QueueOK, JobOK, RestOK
<1>6. CASE StartSendFails
  <2>1. PageOK'
    BY <1>6, <1>a, <1>c DEF StartSendFails, PanelIs, PageOK
  <2>2. job' \in Jobs /\ job'.pc = "revoke"
    BY <1>6, <1>a DEF StartSendFails, JobOK, Jobs
  <2>3. JobKept'
    BY <1>6, <1>a, <1>f, <2>2 DEF StartSendFails, At, Request, JobKept, Saving, Holding
  <2>4. RestOK'
    BY <1>6, <1>a DEF StartSendFails, RestOK
  <2> QED
    BY <1>6, <1>a, <1>b, <2>1, <2>2, <2>3, <2>4 DEF StartSendFails, Typed, QueueOK, JobOK
<1>7. ASSUME NEW type \in {"cancel", "undo", "save"}, NEW pc \in {"revoke", "remove", "mark"},
             Handle(type, pc), pc = "mark" <=> type = "save"
      PROVE  Typed'
  <2>1. grants[Request.tab] # None
    BY <1>7 DEF Handle, Acceptable, Permitted
  <2>2. /\ job' \in Jobs /\ job'.pc = pc /\ job'.grant # None
        /\ Request.type = type
    BY <1>7, <1>d, <2>1 DEF Handle, NoJob, Jobs, Running
  <2>3. JobKept'
    BY <1>7, <1>f, <2>2 DEF Handle, JobKept, Saving, Holding
  <2> QED
    BY <1>7, <1>a, <1>e, <2>2, <2>3 DEF Handle, RestOK, PageUnchanged
<1>8. CASE Refuse
  BY <1>8, <1>a, <1>k DEF Refuse, RestOK, PageUnchanged, Results
<1> DEFINE moved(pc) == Goes(pc) /\ PageUnchanged /\ RestOK'
<1>h. ASSUME job.pc \in Holding PROVE job.grant \in Grants /\ job.grant # None
  BY <1>a, <1>h DEF JobOK, JobKept, Jobs
<1>i. ASSUME job.pc \in Saving PROVE Request.selector \in Selectors
  BY <1>a, <1>c, <1>i DEF JobKept, Requests
<1>j. ASSUME job.pc \in Saving, NEW pc \in Saving, moved(pc) PROVE Typed'
  <2>1. job' \in Jobs /\ job'.pc \in Saving /\ job'.grant = job.grant
    BY <1>a, <1>j, JobType DEF JobOK, Pcs, Results, Saving
  <2>2. JobKept'
    BY <1>a, <1>f, <1>j, <2>1 DEF JobKept, Saving, Holding
  <2> QED
    BY <1>e, <1>j, <2>1, <2>2
<1>9. CASE Mark
  <2>1. job.pc \in Saving /\ job.pc \in Holding /\ PageUnchanged
    BY <1>9 DEF Mark, At, Saving, Holding
  <2>2. [job.grant EXCEPT !.selector = Request.selector] \in Grants
    BY <1>h, <1>i, <2>1 DEF Grants
  <2>3. RestOK'
    BY <1>9, <1>a, <1>c, <2>2, GrantType DEF Mark, RestOK, PageUnchanged
  <2> QED
    BY <1>9, <1>j, <1>k, <2>1, <2>3 DEF Mark, Saving, Results
<1>10. CASE Add
  <2>1. job.pc \in Saving /\ job.pc \in Holding /\ PageUnchanged
    BY <1>10 DEF Add, At, Saving, Holding
  <2>2. Block(Request.selector) \in Rules
    BY <1>h, <1>i, <2>1 DEF Block, Rule, Rules, Grants
  <2>3. RestOK'
    BY <1>10, <1>a, <2>2 DEF Add, RestOK, PageUnchanged
  <2> QED
    BY <1>10, <1>k, <2>1, <2>3 DEF Add, Results
<1>11. CASE AddFails
  <2>1. job.pc \in Saving /\ PageUnchanged /\ RestOK'
    BY <1>11, <1>a DEF AddFails, At, Saving, RestOK, PageUnchanged
  <2> QED
    BY <1>11, <1>j, <2>1 DEF AddFails, Saving
<1>12. CASE Unmark
  <2>1. job.pc \in Holding /\ PageUnchanged
    BY <1>12 DEF Unmark, At, Saving, Holding
  <2>2. RestOK'
    BY <1>12, <1>a, <1>c, <1>h, <2>1, GrantType DEF Unmark, RestOK, PageUnchanged
  <2> QED
    BY <1>12, <1>k, <2>1, <2>2 DEF Unmark, Results
<1>l. ASSUME Goes("revoke"), PageUnchanged, RestOK', Request.type # "save" PROVE Typed'
  <2>1. job' \in Jobs /\ job'.pc = "revoke"
    BY <1>a, <1>l, JobType DEF JobOK, Pcs, Results
  <2>2. JobKept'
    BY <1>f, <1>l, <2>1 DEF JobKept, Saving, Holding
  <2> QED
    BY <1>e, <1>l, <2>1, <2>2
<1>13. CASE Remove
  <2>1. RestOK' /\ PageUnchanged
    BY <1>13, <1>a DEF Remove, RestOK, PageUnchanged
  <2> QED
    BY <1>13, <1>a, <1>k, <1>l, <2>1 DEF Remove, At, JobKept, Results
<1>14. CASE Revoke
  <2>1. RestOK' /\ PageUnchanged
    BY <1>14, <1>a, <1>c, GrantType DEF Revoke, RestOK, PageUnchanged
  <2> QED
    BY <1>14, <1>a, <1>k, <2>1 DEF Revoke, At, JobKept, JobOK, Jobs, Results
<1>15. CASE Reply
  <2> DEFINE t == Request.tab
             saves == Request.type \in {"save", "undo"}
  <2>1. PageOK'
    <3>1. CASE saves /\ panel[t] # None
      <4>1. /\ Told(panel[t]) \in Panels \cup {None} /\ t \in open
            /\ panel' = [panel EXCEPT ![t] = Told(panel[t])]
        <5>1. panel[t] \in Panels /\ t \in open
          BY <1>a, <1>c, <3>1 DEF PageOK
        <5>2. /\ [panel[t] EXCEPT !.asking = "nothing"] \in Panels
              /\ job.result \in {"added", "known"} =>
                   [panel[t] EXCEPT !.asking = "nothing", !.rule = job.result] \in Panels
          BY <1>a, <1>c, <3>1, PanelType
        <5>3. Request.type = "undo" \/ job.result \in {"error", "added", "known"}
          BY <1>15, <1>a, <3>1 DEF Reply, At, JobKept
        <5>4. Told(panel[t]) \in Panels \cup {None}
          BY <5>1, <5>2, <5>3 DEF Told
        <5> QED
          BY <1>15, <3>1, <5>1, <5>4 DEF Reply, PanelIs
      <4> QED
        BY <1>15, <1>a, <4>1 DEF Reply, PanelIs, PageOK
    <3>2. CASE ~(saves /\ panel[t] # None)
      <4>1. UNCHANGED page
        BY <1>15, <1>a, <1>c, <3>2 DEF Reply, PanelIs, Told, PageOK
      <4> QED
        BY <1>a, <4>1 DEF PageOK
    <3> QED
      BY <3>1, <3>2
  <2>2. QueueOK'
    <3> DEFINE cancel == [Request EXCEPT !.type = "cancel"]
               rest == Tail(queue)
    <3>1. cancel \in Requests
      BY <1>c DEF Requests
    <3>2. rest \in Seq(Requests) /\ Len(rest) = Len(queue) - 1 /\ Len(queue) \in Nat
      BY <1>a, <1>b, RequestType
    <3>3. Len(queue) <= MaxRequests /\ MaxRequests \in Nat
      BY <1>a, PickerAssumption DEF QueueOK
    <3>4. queue' = rest \/ queue' = Append(rest, cancel)
      BY <1>15 DEF Reply
    <3> HIDE DEF cancel, rest
    <3>5. /\ Append(rest, cancel) \in Seq(Requests)
          /\ Len(Append(rest, cancel)) = Len(rest) + 1
      BY <3>1, <3>2
    <3> QED
      BY <3>2, <3>3, <3>4, <3>5 DEF QueueOK
  <2>3. JobOK' /\ JobKept'
    BY <1>15, PickerAssumption DEF Reply, JobOK, JobKept, NoJob, Jobs, Saving, Holding
  <2>4. RestOK'
    BY <1>15, <1>a DEF Reply, RestOK
  <2> QED
    BY <2>1, <2>2, <2>3, <2>4 DEF Typed
<1> QED
  BY <1>1, <1>2, <1>3, <1>4, <1>5, <1>6, <1>7, <1>8, <1>9, <1>10, <1>11, <1>12, <1>13, <1>14, <1>15
  DEF Work, HandleCancel, HandleUndo, HandleSave

LEMMA TypeInit ==
  ASSUME Init
  PROVE  Typed
<1>1. \A w \in Written : Rule(w.host, w.selector, None) \in Rules
  BY PickerAssumption DEF Rule, Rules
<1>2. text \in SUBSET Rules
  BY <1>1 DEF Init
<1>3. PageOK /\ QueueOK /\ RestOK
  BY <1>2, PickerAssumption DEF Init, PageOK, QueueOK, RestOK
<1>4. JobOK /\ JobKept
  BY DEF Init, JobOK, JobKept, NoJob, Jobs, Saving, Holding
<1> QED
  BY <1>3, <1>4 DEF Typed

LEMMA TypeStep ==
  ASSUME Typed, [Next]_vars
  PROVE  Typed'
BY TypeUse, TypeBeside, TypeWork DEF Next

\* Every state has the type TypeOK gives it: no panel outlives its tab, and the queue of
\* requests that the worker handles in turn is never over its bound.
THEOREM TypeCorrect == Spec => []TypeOK
<1>1. Init => Typed
  BY TypeInit
<1>2. Typed /\ [Next]_vars => Typed'
  BY TypeStep
<1>3. Typed => TypeOK
  BY DEF Typed, TypeOK, PageOK, QueueOK, JobOK, RestOK
<1> QED
  BY <1>1, <1>2, <1>3, PTL DEF Spec
-----------------------------------------------------------------------------
\* A step that leaves session storage, the list and the job alone.
LEMMA KeptStays ==
  ASSUME Typed, Kept, UNCHANGED <<grants, text, tokens, job>>,
         queue # << >> => Request' = Request
  PROVE  Kept'
<1>1. job.pc # "idle" => Request' = Request
  BY DEF Typed, JobOK
<1>2. TokensKept' /\ SavedUndoable' /\ OneRulePerSession'
  BY DEF Kept, TokensKept, SavedUndoable, OneRulePerSession
<1>3. CopyKept'
  BY <1>1 DEF Kept, CopyKept, Accounts, Holding, Saving
<1>4. SaveKept'
  BY <1>1 DEF Kept, SaveKept, Saving
<1> QED
  BY <1>2, <1>3, <1>4 DEF Kept

\* A step that leaves session storage and the list alone, and lets go of the copy.
LEMMA KeptEnds ==
  ASSUME Kept, UNCHANGED <<grants, text, tokens>>, job'.pc \notin Holding
  PROVE  Kept'
BY DEF Kept, TokensKept, SavedUndoable, OneRulePerSession, CopyKept, SaveKept, Accounts, Holding,
       Saving

\* What is at hand for every action of the worker.
LEMMA AtHand ==
  ASSUME Typed
  PROVE  /\ tokens \in Nat
         /\ \A t \in Tabs : grants[t] # None => grants[t] \in Grants /\ grants[t].token \in Tokens
         /\ \A r \in text : r \in Rules
         /\ queue # << >> => Request.tab \in Tabs
         /\ job.pc \in Holding => job.grant \in Grants /\ job.grant.token \in Tokens
         /\ job.pc \in Saving => Request.selector \in Selectors
<1>1. job.pc # "idle" => queue # << >>
  BY DEF Typed, JobOK
<1>2. queue # << >> => Request \in Requests /\ Request.tab \in Tabs
  BY RequestType DEF Typed
<1>3. job.pc \in Saving => Request.selector \in Selectors
  BY <1>1, <1>2 DEF Typed, JobKept, Saving, Requests
<1>4. job.pc \in Holding => job.grant \in Grants
  BY DEF Typed, JobOK, JobKept, Jobs
<1> QED
  BY <1>2, <1>3, <1>4 DEF Typed, RestOK, Grants

\* A grant goes: the session can no longer be used.
LEMMA KeptRevoked ==
  ASSUME Typed, Kept, NEW t \in Tabs, Grant(t, None), UNCHANGED <<text, tokens>>,
         job'.pc \notin Holding \/ UNCHANGED <<job, queue>>
  PROVE  Kept'
<1>1. grants' = [grants EXCEPT ![t] = None] /\ grants \in [Tabs -> Grants \cup {None}]
  BY DEF Grant, Typed, RestOK
<1>2. \A u \in Tabs : grants'[u] # None => grants'[u] = grants[u]
  BY <1>1
<1>3. TokensKept' /\ SavedUndoable' /\ OneRulePerSession'
  BY <1>2 DEF Kept, TokensKept, SavedUndoable, OneRulePerSession
<1>4. CASE job'.pc \notin Holding
  BY <1>3, <1>4 DEF Kept, CopyKept, SaveKept, Holding, Saving
<1>5. CASE UNCHANGED <<job, queue>>
  <2>1. Request' = Request /\ (job.pc # "idle" => Request.tab \in Tabs)
    BY <1>5, AtHand DEF Request, Typed, JobOK
  <2>2. CopyKept'
    BY <1>2, <1>5, <2>1 DEF Kept, CopyKept, Accounts, Holding, Saving
  <2>3. SaveKept'
    BY <1>2, <1>5, <2>1 DEF Kept, SaveKept, Saving
  <2> QED
    BY <1>3, <2>2, <2>3 DEF Kept
<1> QED
  BY <1>4, <1>5

LEMMA Ended ==
  ASSUME Typed, NEW r \in Results, Result(r)
  PROVE  job'.pc \notin Holding
BY JobType DEF Typed, JobOK, Pcs, Holding, Saving

\* A new session gets a token that nothing bears.
LEMMA KeptStart ==
  ASSUME Typed, Kept, StartGrant
  PROVE  Kept'
<1>1. job'.pc \notin Holding
  BY JobType DEF Typed, JobOK, StartGrant, Pcs, Results, Holding, Saving
<1>2. Request.tab \in Tabs /\ tokens \in Nat /\ tokens' = tokens + 1 /\ text' = text
  BY AtHand DEF StartGrant, At, Typed, JobOK
<1> DEFINE grant == [token |-> tokens + 1, host |-> job.host, selector |-> None]
<1>3. \A t \in Tabs : grants'[t] = grants[t] \/ (t = Request.tab /\ grants'[t] = grant)
  BY <1>2 DEF StartGrant, Grant, Typed, RestOK
<1>4. grant.token = tokens + 1
  OBVIOUS
<1> HIDE DEF grant
<1>5. /\ \A t \in Tabs : grants[t] # None => grants[t].token \in Nat /\ grants[t].token <= tokens
      /\ \A r \in text : r.token # None => r.token \in Nat /\ r.token <= tokens
      /\ None \notin Nat
  BY AtHand, PickerAssumption DEF Kept, TokensKept, Tokens, Rules
<1>6. TokensKept'
  BY <1>2, <1>3, <1>4, <1>5 DEF Kept, TokensKept
<1>7. SavedUndoable' /\ OneRulePerSession'
  BY <1>2, <1>3, <1>4, <1>5 DEF Kept, SavedUndoable, OneRulePerSession
<1>8. CopyKept' /\ SaveKept'
  BY <1>1 DEF CopyKept, SaveKept, Holding, Saving
<1> QED
  BY <1>6, <1>7, <1>8 DEF Kept

\* A request takes its copy.
LEMMA KeptHandle ==
  ASSUME Typed, Kept, NEW type \in {"cancel", "undo", "save"}, NEW pc \in {"revoke", "remove", "mark"},
         Handle(type, pc), pc = "mark" <=> type = "save"
  PROVE  Kept'
<1> DEFINE t == Request.tab
<1>1. t \in Tabs /\ grants[t] # None /\ Request.type = type /\ Request' = Request
  BY AtHand DEF Handle, Running, Acceptable, Permitted, PageUnchanged, Request
<1>2. job'.pc = pc /\ job'.grant = grants[t] /\ UNCHANGED <<grants, text, tokens>>
  BY DEF Handle, NoJob
<1>3. CopyKept'
  BY <1>1, <1>2 DEF Kept, CopyKept, TokensKept, SavedUndoable, Accounts
<1>4. SaveKept'
  BY <1>1, <1>2 DEF Handle, Acceptable, Saveable, SaveKept, Saving
<1>5. TokensKept' /\ SavedUndoable' /\ OneRulePerSession'
  BY <1>2 DEF Kept, TokensKept, SavedUndoable, OneRulePerSession
<1> QED
  BY <1>3, <1>4, <1>5 DEF Kept

\* The copy, perhaps with the selector to be saved, is written to session storage.
LEMMA KeptWritten ==
  ASSUME Typed, Kept, job.pc \in Holding, NEW grant \in Grants,
         grant.token = job.grant.token, grant.host = job.grant.host,
         \A r \in text : r.token = grant.token => r.selector = grant.selector,
         Grant(Request.tab, grant), UNCHANGED text
  PROVE  /\ \A t \in Tabs : grants'[t] = IF t = Request.tab THEN grant ELSE grants[t]
         /\ UNCHANGED tokens => TokensKept' /\ SavedUndoable' /\ OneRulePerSession'
<1>1. Request.tab \in Tabs /\ grants \in [Tabs -> Grants \cup {None}]
  BY AtHand DEF Holding, Saving, Typed, JobOK, RestOK
<1>2. \A t \in Tabs : grants'[t] = IF t = Request.tab THEN grant ELSE grants[t]
  BY <1>1 DEF Grant
<1>3. UNCHANGED tokens => TokensKept'
  BY <1>2 DEF Kept, TokensKept, CopyKept
<1>4. SavedUndoable' /\ OneRulePerSession'
  BY <1>2 DEF Kept, SavedUndoable, OneRulePerSession, CopyKept, Accounts
<1> QED
  BY <1>2, <1>3, <1>4

\* What the list holds of a session that saves is the rule it saves.
LEMMA SavesSame ==
  ASSUME Typed, Kept, job.pc \in Saving
  PROVE  \A r \in text : r.token = job.grant.token =>
           r.host = job.grant.host /\ r.selector = Request.selector
<1>1. \A r \in text : r.selector # None
  BY AtHand, PickerAssumption DEF Rules
<1> QED
  BY <1>1 DEF Kept, CopyKept, SaveKept, Accounts, Holding

LEMMA KeptMark ==
  ASSUME Typed, Kept, Mark
  PROVE  Kept'
<1> DEFINE grant == [job.grant EXCEPT !.selector = Request.selector]
<1>1. job.pc \in Saving /\ job.pc \in Holding /\ job.pc = "mark"
  BY DEF Mark, At, Saving, Holding
<1>2. CASE Grant(Request.tab, grant) /\ Goes("add")
  <2>1. grant \in Grants /\ grant.token = job.grant.token /\ grant.host = job.grant.host
        /\ grant.selector = Request.selector
    BY <1>1, AtHand DEF Grants
  <2> HIDE DEF grant
  <2>2. UNCHANGED <<text, tokens>> /\ Request' = Request
    BY DEF Mark, PageUnchanged, Request
  <2>3. /\ \A t \in Tabs : grants'[t] = IF t = Request.tab THEN grant ELSE grants[t]
        /\ TokensKept' /\ SavedUndoable' /\ OneRulePerSession'
    BY <1>1, <1>2, <2>1, <2>2, SavesSame, KeptWritten
  <2>4. job'.pc = "add" /\ job'.grant = job.grant
    BY <1>2, JobType DEF Typed, JobOK, Pcs, Results
  <2>5. CopyKept'
    BY <1>1, <2>1, <2>2, <2>3, <2>4 DEF Kept, CopyKept, Accounts
  <2>6. Request.tab \in Tabs
    BY <1>1, AtHand DEF Typed, JobOK
  <2>7. SaveKept'
    BY <1>1, <2>1, <2>2, <2>3, <2>4, <2>6 DEF Kept, SaveKept
  <2> QED
    BY <2>3, <2>5, <2>7 DEF Kept
<1>3. CASE Result("error") /\ UNCHANGED grants
  BY <1>3, KeptEnds, Ended DEF Mark, Results
<1> QED
  BY <1>2, <1>3 DEF Mark

LEMMA KeptAdd ==
  ASSUME Typed, Kept, Add
  PROVE  Kept'
<1> DEFINE block == Block(Request.selector)
<1>1. job.pc \in Saving /\ job.pc \in Holding /\ job.pc = "add"
  BY DEF Add, At, Saving, Holding
<1>2. job'.pc \notin Holding /\ UNCHANGED <<grants, tokens>>
  BY Ended DEF Add, Results
<1>3. CASE text' = text \cup {block}
  <2>1. /\ block \in Rules /\ block.token = job.grant.token /\ block.host = job.grant.host
        /\ block.selector = Request.selector /\ block.token # None
    BY <1>1, AtHand, PickerAssumption DEF Block, Rule, Rules, Grants, Tokens
  <2>2. \A r \in text : r.token = block.token => r = block
    <3>1. \A r \in text : r.token = block.token =>
            r \in Rules /\ r.host = block.host /\ r.selector = block.selector
      BY <1>1, <2>1, SavesSame, AtHand
    <3> HIDE DEF block
    <3> QED
      BY <2>1, <3>1 DEF Rules
  <2> HIDE DEF block
  <2>3. TokensKept'
    BY <1>1, <1>2, <1>3, <2>1 DEF Kept, TokensKept, CopyKept
  <2>4. OneRulePerSession'
    BY <1>3, <2>2 DEF Kept, OneRulePerSession
  <2>5. \A t \in Tabs : (grants[t] # None /\ grants[t].token = block.token) =>
          grants[t].host = block.host /\ grants[t].selector = block.selector
    BY <1>1, <2>1 DEF Kept, CopyKept, SaveKept
  <2>6. SavedUndoable'
    BY <1>2, <1>3, <2>5 DEF Kept, SavedUndoable
  <2> QED
    BY <1>2, <2>3, <2>4, <2>6 DEF Kept, CopyKept, SaveKept, Holding, Saving
<1>4. CASE UNCHANGED text
  BY <1>2, <1>4, KeptEnds
<1> QED
  BY <1>3, <1>4 DEF Add

\* After a save that failed the copy is written back as it was read.
LEMMA KeptUnmark ==
  ASSUME Typed, Kept, Unmark
  PROVE  Kept'
<1>1. job.pc \in Holding /\ job'.pc \notin Holding /\ UNCHANGED <<text, tokens>>
  BY Ended DEF Unmark, At, Saving, Holding, Results
<1>2. CASE Grant(Request.tab, job.grant)
  <2>1. TokensKept' /\ SavedUndoable' /\ OneRulePerSession'
    BY <1>1, <1>2, AtHand, KeptWritten DEF Kept, CopyKept, Accounts
  <2> QED
    BY <1>1, <2>1 DEF Kept, CopyKept, SaveKept, Holding, Saving
<1>3. CASE UNCHANGED grants
  BY <1>1, <1>3, KeptEnds
<1> QED
  BY <1>2, <1>3 DEF Unmark

LEMMA KeptRemove ==
  ASSUME Typed, Kept, Remove
  PROVE  Kept'
<1>1. job'.pc \notin Holding /\ UNCHANGED <<grants, tokens>>
  BY Ended, JobType DEF Remove, Results, Typed, JobOK, Pcs, Holding, Saving
<1>2. text' \subseteq text
  BY DEF Remove
<1>3. TokensKept' /\ SavedUndoable' /\ OneRulePerSession'
  BY <1>1, <1>2 DEF Kept, TokensKept, SavedUndoable, OneRulePerSession
<1> QED
  BY <1>1, <1>3 DEF Kept, CopyKept, SaveKept, Holding, Saving

\* What the user writes or deletes is no session's new rule.
LEMMA KeptEdit ==
  ASSUME Typed, Kept, Edit
  PROVE  Kept'
<1>1. \A r \in text' : r \in text \/ r.token = None
  BY DEF Edit, Rule
<1>2. UNCHANGED <<grants, tokens, job, queue>> /\ Request' = Request
  BY DEF Edit, Request
<1>3. None \notin Tokens
  BY PickerAssumption DEF Tokens
<1>4. TokensKept' /\ SavedUndoable' /\ OneRulePerSession'
  BY <1>1, <1>2, <1>3, AtHand DEF Kept, TokensKept, SavedUndoable, OneRulePerSession
<1>5. CopyKept'
  BY <1>1, <1>2, <1>3, AtHand DEF Kept, CopyKept, Accounts, Holding, Saving
<1>6. SaveKept'
  BY <1>2 DEF Kept, SaveKept
<1> QED
  BY <1>4, <1>5, <1>6 DEF Kept

LEMMA KeptStep ==
  ASSUME Typed, Kept, [Next]_vars
  PROVE  Kept'
<1>a. QueueOK /\ PageOK
  BY DEF Typed
<1>1. ASSUME NEW t \in Tabs, Use(t) PROVE Kept'
  <2>1. UNCHANGED <<grants, text, tokens, job>>
    BY <1>1 DEF Use, PopupStart, PressSave, PressUndo, Finish, CloseTab, Navigate, WorkerUnchanged
  <2>2. queue # << >> => Request' = Request
    <3>1. CASE UNCHANGED queue
      BY <3>1 DEF Request
    <3>2. CASE PopupStart(t)
      BY <1>a, <3>2, AskType DEF PopupStart
    <3>3. CASE \E s \in Selectors : PressSave(t, s)
      BY <1>a, <3>3, AskType, PanelType, PickerAssumption DEF PressSave
    <3>4. CASE PressUndo(t)
      BY <1>a, <3>4, AskType, PanelType DEF PressUndo
    <3>5. CASE Finish(t)
      BY <1>a, <3>5, AskType, PanelType DEF Finish
    <3> QED
      BY <1>1, <3>1, <3>2, <3>3, <3>4, <3>5 DEF Use, CloseTab, Navigate
  <2> QED
    BY <2>1, <2>2, KeptStays
<1>2. ASSUME NEW t \in Tabs, ForgetTab(t) PROVE Kept'
  <2>1. UNCHANGED <<text, tokens, job, queue>>
    BY <1>2 DEF ForgetTab
  <2>2. CASE Grant(t, None)
    BY <2>1, <2>2, KeptRevoked
  <2>3. CASE UNCHANGED grants
    BY <2>1, <2>3, KeptStays DEF Request
  <2> QED
    BY <1>2, <2>2, <2>3 DEF ForgetTab
<1>3. CASE Expire \/ Pause \/ UNCHANGED vars
  <2>1. UNCHANGED <<grants, text, tokens, job, queue>>
    BY <1>3 DEF Expire, Pause, vars
  <2> QED
    BY <2>1, KeptStays DEF Request
<1>4. CASE Crash
  BY <1>4, KeptEnds DEF Crash, NoJob, Holding, Saving
<1>5. CASE Edit
  BY <1>5, KeptEdit
<1>6. CASE StartLook \/ Reply
  <2>1. job'.pc = "config" \/ job' = NoJob
    BY <1>6 DEF StartLook, Reply, NoJob
  <2>2. UNCHANGED <<grants, text, tokens>>
    BY <1>6 DEF StartLook, Reply
  <2> QED
    BY <2>1, <2>2, KeptEnds DEF NoJob, Holding, Saving
<1>7. CASE StartConfig
  <2>1. job'.pc = "grant" /\ UNCHANGED <<grants, text, tokens>>
    BY <1>7, JobType DEF StartConfig, Typed, JobOK, Pcs, Results
  <2> QED
    BY <2>1, KeptEnds DEF Holding, Saving
<1>8. CASE StartRefused \/ StartSend \/ Refuse
  BY <1>8, KeptEnds, Ended DEF StartRefused, StartSend, Refuse, Results
<1>9. CASE StartSendFails
  <2>1. job'.pc = "revoke" /\ UNCHANGED <<grants, text, tokens>>
    BY <1>9 DEF StartSendFails, Typed, JobOK, Jobs
  <2> QED
    BY <2>1, KeptEnds DEF Holding, Saving
<1>10. CASE StartGrant
  BY <1>10, KeptStart
<1>11. CASE HandleCancel \/ HandleUndo \/ HandleSave
  BY <1>11, KeptHandle DEF HandleCancel, HandleUndo, HandleSave
<1>12. CASE Mark \/ Add \/ Unmark \/ Remove
  BY <1>12, KeptMark, KeptAdd, KeptUnmark, KeptRemove
<1>13. CASE AddFails
  <2>1. /\ UNCHANGED <<grants, text, tokens>> /\ Request' = Request
        /\ job.pc \in Saving /\ job.pc \in Holding
    BY <1>13 DEF AddFails, PageUnchanged, Request, At, Saving, Holding
  <2>2. job'.pc = "unmark" /\ job'.grant = job.grant
    BY <1>13, JobType DEF AddFails, Typed, JobOK, Pcs, Results
  <2>3. TokensKept' /\ SavedUndoable' /\ OneRulePerSession'
    BY <2>1 DEF Kept, TokensKept, SavedUndoable, OneRulePerSession
  <2>4. CopyKept' /\ SaveKept'
    BY <2>1, <2>2 DEF Kept, CopyKept, SaveKept, Accounts
  <2> QED
    BY <2>3, <2>4 DEF Kept
<1>14. CASE Revoke
  <2>1. job'.pc \notin Holding /\ UNCHANGED <<text, tokens>>
    BY <1>14, Ended DEF Revoke, Typed, JobOK, Jobs, Results
  <2>2. Request.tab \in Tabs
    BY <1>14, AtHand DEF Revoke, At, Typed, JobOK
  <2>3. CASE Grant(Request.tab, None)
    BY <2>1, <2>2, <2>3, KeptRevoked
  <2>4. CASE UNCHANGED grants
    BY <2>1, <2>4, KeptEnds
  <2> QED
    BY <1>14, <2>3, <2>4 DEF Revoke
<1> QED
  BY <1>1, <1>2, <1>3, <1>4, <1>5, <1>6, <1>7, <1>8, <1>9, <1>10, <1>11, <1>12, <1>13, <1>14
  DEF Next, Work

LEMMA KeptInit ==
  ASSUME Init
  PROVE  Kept
<1>1. /\ \A t \in Tabs : grants[t] = None
      /\ \A r \in text : r.token = None
      /\ job.pc \notin Holding
  BY DEF Init, Rule, NoJob, Holding, Saving
<1> QED
  BY <1>1 DEF Kept, TokensKept, CopyKept, SaveKept, SavedUndoable, OneRulePerSession, Holding,
              Saving

\* The invariant, inductive.
LEMMA KeptAlways == Spec => []IInv
<1>1. Init => IInv
  BY TypeInit, KeptInit DEF IInv
<1>2. IInv /\ [Next]_vars => IInv'
  BY TypeStep, KeptStep DEF IInv
<1> QED
  BY <1>1, <1>2, PTL DEF Spec

\* Whatever stops, fails or is tried again, what a live session left in the list is the one
\* rule its grant lets it undo: the order in which handle writes grant and list.
THEOREM SessionsUndoable == Spec => []SavedUndoable
BY KeptAlways, PTL DEF IInv, Kept

\* A session leaves at most one rule behind: what handle checks of a grant before a save.
THEOREM OneRule == Spec => []OneRulePerSession
BY KeptAlways, PTL DEF IInv, Kept
================================================================================
