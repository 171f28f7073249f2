----------------------------- MODULE CosmeticSync -----------------------------
(***************************************************************************)
(* How open pages come by the cosmetic rules.  The content script of a page*)
(* asks the worker when it starts, when it is told that the rules changed, *)
(* and for the picker; the worker answers between the operations of its    *)
(* queue.  After a commit it tells the pages that are open.                *)
(*                                                                         *)
(* A commit gives the rules a new version, and a page shows a version.     *)
(* What else a commit does is in Controller.  A page is a document: who    *)
(* navigates leaves one and opens another.                                 *)
(***************************************************************************)
EXTENDS Integers, Sequences

CONSTANTS
  None,
  Pages,
  MaxCommits,   \* bound: changes of the rules
  MaxRefreshes, \* bound: refreshes of a page
  MaxFaults     \* bound: failed calls and stopped workers

ASSUME SyncAssumption ==
  /\ None \notin Pages
  /\ {MaxCommits, MaxRefreshes, MaxFaults} \subseteq Nat

VARIABLES
  saved,    \* version in local storage
  config,   \* version in the worker's memory
  pc,       \* of the commit at the head of the queue, or "idle"
  queue,    \* the controller's jobs, oldest first
  down,     \* the worker is stopped
  refusing, \* its start failed, or a rollback: it refuses all requests
  telling,  \* pages that notify() has still to reach
  page,     \* page -> what has become of it
  calls,    \* page -> its refreshes, by revision: what is known of the answer
  style,    \* page -> version of the stylesheet in it
  missed,   \* pages that a fault, or a refusal, has kept from an update since they last asked
  submitted, faults

worker == <<saved, config, pc, down, refusing, telling>>
pages == <<page, calls, style>>
bounds == <<submitted, faults>>
vars == <<worker, queue, pages, missed, bounds>>

NoStyle == -1

\* Of an answer: not given yet, given up, or read by the page.
Pending == [answered |-> FALSE, version |-> NoStyle]
Answer(version) == [answered |-> TRUE, version |-> version]
Closed == Answer(NoStyle)

\* A commit, or the request of a page's refresh.
Jobs == [page : Pages \cup {None}, revision : Nat]
Commit == [page |-> None, revision |-> 0]

TypeOK ==
  /\ {saved, config, submitted, faults} \subseteq Nat
  /\ pc \in {"idle", "saved", "installed", "notifying"}
  /\ queue \in Seq(Jobs)
  /\ down \in BOOLEAN /\ refusing \in BOOLEAN
  /\ telling \subseteq Pages /\ missed \subseteq Pages
  /\ page \in [Pages -> {"absent", "loading", "rootless", "running", "gone"}]
  /\ calls \in [Pages -> Seq([answered : BOOLEAN, version : Nat \cup {NoStyle}])]
  /\ style \in [Pages -> Nat \cup {NoStyle}]

Init ==
  /\ saved = 0 /\ config = 0 /\ pc = "idle" /\ telling = {}
  /\ down = FALSE /\ refusing = FALSE
  /\ queue = << >>
  /\ page = [p \in Pages |-> "absent"]
  /\ calls = [p \in Pages |-> << >>]
  /\ style = [p \in Pages |-> NoStyle]
  /\ missed = {}
  /\ submitted = 0 /\ faults = 0

revision(p) == Len(calls[p])

Listening(p) == page[p] \in {"rootless", "running"}

-----------------------------------------------------------------------------
(* The content script. *)

\* Mutant: a page that is already waiting does not ask again.
RefreshOnce(p) ==
  IF revision(p) > 0 /\ calls[p][revision(p)] # Closed
    THEN UNCHANGED <<calls, queue, missed>>
    ELSE /\ calls' = [calls EXCEPT ![p] = Append(@, Pending)]
         /\ queue' = Append(queue, [page |-> p, revision |-> revision(p) + 1])
         /\ missed' = missed \ {p}

\* refresh(): what was missed before is in the answer.
Refresh(p) ==
  /\ calls' = [calls EXCEPT ![p] = Append(@, Pending)]
  /\ queue' = Append(queue, [page |-> p, revision |-> revision(p) + 1])
  /\ missed' = missed \ {p}

Open(p) ==
  /\ page[p] = "absent"
  /\ page' = [page EXCEPT ![p] = "loading"]
  /\ UNCHANGED <<worker, queue, calls, style, missed, bounds>>

\* The script runs at document_start; a document may have no root element yet.
Start(p) ==
  /\ page[p] = "loading"
  /\ page' = [page EXCEPT ![p] = "running"]
  /\ Refresh(p)
  /\ UNCHANGED <<worker, style, bounds>>

StartEarly(p) ==
  /\ page[p] = "loading"
  /\ page' = [page EXCEPT ![p] = "rootless"]
  /\ UNCHANGED <<worker, queue, calls, style, missed, bounds>>

DOMContentLoaded(p) ==
  /\ page[p] = "rootless"
  /\ page' = [page EXCEPT ![p] = "running"]
  /\ Refresh(p)
  /\ UNCHANGED <<worker, style, bounds>>

\* The picker's panel has saved or undone a rule.
PickerRefreshes(p) ==
  /\ page[p] = "running" /\ revision(p) < MaxRefreshes
  /\ Refresh(p)
  /\ UNCHANGED <<worker, page, style, bounds>>

Close(p) ==
  /\ page[p] \in {"loading", "rootless", "running"}
  /\ page' = [page EXCEPT ![p] = "gone"]
  /\ calls' = [calls EXCEPT ![p] = [r \in DOMAIN @ |-> Closed]]
  /\ missed' = missed \ {p}
  /\ UNCHANGED <<worker, queue, style, bounds>>

Answered(p, r) == calls[p][r].answered /\ calls[p][r] # Closed

\* Mutant: the answers replace the stylesheet as they come.
ReceiveAny(p, r) ==
  /\ Answered(p, r)
  /\ calls' = [calls EXCEPT ![p][r] = Closed]
  /\ style' = [style EXCEPT ![p] = IF page[p] = "running" THEN calls[p][r].version ELSE @]
  /\ UNCHANGED <<worker, queue, page, missed, bounds>>

\* Answers may come in any order; without a root there is nowhere to put the style.
Receive(p, r) ==
  /\ Answered(p, r)
  /\ calls' = [calls EXCEPT ![p][r] = Closed]
  /\ style' = [style EXCEPT ![p] =
       IF r = revision(p) /\ page[p] = "running" THEN calls[p][r].version ELSE @]
  /\ UNCHANGED <<worker, queue, page, missed, bounds>>

-----------------------------------------------------------------------------
(* The worker. *)

Submit ==
  /\ submitted < MaxCommits
  /\ submitted' = submitted + 1
  /\ queue' = Append(queue, Commit)
  /\ UNCHANGED <<worker, pages, missed, faults>>

\* initialize() reads what is saved; a message starts the worker.
Wake ==
  /\ down /\ queue # << >>
  /\ down' = FALSE
  /\ config' = saved
  /\ UNCHANGED <<saved, pc, refusing, telling, queue, pages, missed, bounds>>

\* It fails, and `ready` stays rejected as long as this worker lives.
WakeFails ==
  /\ down /\ queue # << >> /\ faults < MaxFaults
  /\ down' = FALSE
  /\ refusing' = TRUE
  /\ config' = saved
  /\ faults' = faults + 1
  /\ UNCHANGED <<saved, pc, telling, queue, pages, missed, submitted>>

\* serial: the job's turn has come, and neither ready nor recoveryError refuses it.
Turn(job) == ~down /\ queue # << >> /\ Head(queue) = job
Runs(job) == Turn(job) /\ ~refusing

\* The answer is an error; the page keeps the style it has and does not ask again.
Refuse(p, r) ==
  /\ Turn([page |-> p, revision |-> r]) /\ refusing
  /\ calls' = [calls EXCEPT ![p][r] = IF @ = Pending THEN Closed ELSE @]
  /\ queue' = Tail(queue)
  /\ missed' = IF r = revision(p) /\ calls[p][r] = Pending THEN missed \cup {p} ELSE missed
  /\ UNCHANGED <<worker, page, style, bounds>>

RefuseCommit ==
  /\ Turn(Commit) /\ refusing /\ pc = "idle"
  /\ queue' = Tail(queue)
  /\ UNCHANGED <<worker, pages, missed, bounds>>

\* cosmetics.get; the page may have gone meanwhile.
Serve(p, r) ==
  /\ Runs([page |-> p, revision |-> r])
  /\ calls' = [calls EXCEPT ![p][r] = IF @ = Pending THEN Answer(config) ELSE @]
  /\ queue' = Tail(queue)
  /\ UNCHANGED <<worker, page, style, missed, bounds>>

\* The change is in local storage ...
Save ==
  /\ Runs(Commit) /\ pc = "idle"
  /\ saved' = saved + 1
  /\ pc' = "saved"
  /\ UNCHANGED <<config, down, refusing, telling, queue, pages, missed, bounds>>

\* ... or it failed, and the job with it; the rules are the previous ones ...
SaveFails ==
  /\ Runs(Commit) /\ pc = "idle" /\ faults < MaxFaults
  /\ queue' = Tail(queue)
  /\ faults' = faults + 1
  /\ UNCHANGED <<worker, pages, missed, submitted>>

\* ... or going back to them failed too, which latches recoveryError.
RollbackFails ==
  /\ Runs(Commit) /\ pc = "idle" /\ faults < MaxFaults
  /\ queue' = Tail(queue)
  /\ refusing' = TRUE
  /\ faults' = faults + 1
  /\ UNCHANGED <<saved, config, pc, down, telling, pages, missed, submitted>>

Install ==
  /\ ~down /\ pc = "saved"
  /\ config' = saved
  /\ pc' = "installed"
  /\ UNCHANGED <<saved, down, refusing, telling, queue, pages, missed, bounds>>

\* notify(): the tabs there are.
Notify ==
  /\ ~down /\ pc = "installed"
  /\ telling' = {p \in Pages : page[p] \in {"loading", "rootless", "running"}}
  /\ pc' = "notifying"
  /\ UNCHANGED <<saved, config, down, refusing, queue, pages, missed, bounds>>

\* Its failure is ignored.
NotifyFails ==
  /\ ~down /\ pc = "installed" /\ faults < MaxFaults
  /\ pc' = "idle"
  /\ queue' = Tail(queue)
  /\ missed' = missed \cup {p \in Pages : Listening(p)}
  /\ faults' = faults + 1
  /\ UNCHANGED <<saved, config, down, refusing, telling, pages, submitted>>

\* cosmetics.refresh; a page whose script has not started, or that is gone, does not hear.
Tell(p) ==
  /\ ~down /\ p \in telling
  /\ telling' = telling \ {p}
  /\ IF Listening(p) THEN Refresh(p) ELSE UNCHANGED <<calls, queue, missed>>
  /\ UNCHANGED <<saved, config, pc, down, refusing, page, style, bounds>>

\* All messages are settled, and the commit is over.
CommitEnds ==
  /\ ~down /\ pc = "notifying" /\ telling = {}
  /\ pc' = "idle"
  /\ queue' = Tail(queue)
  /\ UNCHANGED <<saved, config, down, refusing, telling, pages, missed, bounds>>

\* The browser stops a worker with nothing to do.
Sleep ==
  /\ ~down /\ queue = << >>
  /\ down' = TRUE
  /\ refusing' = FALSE
  /\ UNCHANGED <<saved, config, pc, telling, queue, pages, missed, bounds>>

\* The worker is stopped: requests fail, and pages not told of the change stay untold.
Stop ==
  /\ ~down /\ faults < MaxFaults
  /\ down' = TRUE /\ refusing' = FALSE
  /\ pc' = "idle" /\ telling' = {} /\ queue' = << >>
  /\ calls' = [p \in Pages |->
       [r \in DOMAIN calls[p] |-> IF calls[p][r] = Pending THEN Closed ELSE calls[p][r]]]
  /\ missed' = missed \cup
       {p \in Pages : /\ Listening(p)
                      /\ \/ pc \in {"saved", "installed"}
                         \/ p \in telling
                         \/ revision(p) > 0 /\ calls[p][revision(p)] = Pending}
  /\ faults' = faults + 1
  /\ UNCHANGED <<saved, config, page, style, submitted>>

Step == Wake \/ Save \/ RefuseCommit \/ Install \/ Notify \/ CommitEnds
           \/ \E p \in Pages : Tell(p) \/ \E r \in DOMAIN calls[p] : Serve(p, r) \/ Refuse(p, r)

Script(p) ==
  \/ Start(p) \/ StartEarly(p) \/ DOMContentLoaded(p)
  \/ \E r \in DOMAIN calls[p] : Receive(p, r)

Next ==
  \/ Step \/ Submit \/ WakeFails \/ SaveFails \/ RollbackFails \/ NotifyFails \/ Sleep \/ Stop
  \/ \E p \in Pages : Script(p) \/ Open(p) \/ PickerRefreshes(p) \/ Close(p)

Spec == Init /\ [][Next]_vars

\* The worker goes on with its queue, messages arrive, and documents load.
FairSpec == Spec /\ WF_vars(Step) /\ \A p \in Pages : WF_vars(Script(p))

-----------------------------------------------------------------------------
(* However the answers of overlapping refreshes are delayed, and whatever    *)
(* the worker forgets when it is stopped, a page never goes back from a      *)
(* newer version of the rules to an older one.                               *)
StyleNeverGoesBack ==
  [][\A p \in Pages : style'[p] >= style[p]]_vars

(* Again and again every running page shows the rules that are saved, unless *)
(* a fault kept it from asking or from being told, or a worker that failed   *)
(* to start or to roll back refused it.  A page needs no luck: it may start, *)
(* or be told, at any point of a commit.                                     *)
EventuallyCurrent ==
  \A p \in Pages : []<>(page[p] = "running" => style[p] = saved \/ p \in missed)
=============================================================================
