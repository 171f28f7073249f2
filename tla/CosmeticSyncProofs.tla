-------------------------- MODULE CosmeticSyncProofs --------------------------
(***************************************************************************)
(* What is proved of CosmeticSync, for any number of pages, changes,       *)
(* refreshes and faults: no page goes back to older cosmetic rules.  An    *)
(* answer may be late, but the worker's version only grows, and only the   *)
(* answer to a page's newest request is put to use; all that it can carry  *)
(* is newer than what the page shows.                                      *)
(***************************************************************************)
EXTENDS CosmeticSync, SequenceTheorems, TLAPS

Call == [answered : BOOLEAN, version : Nat \cup {NoStyle}]

WorkerTypeOK ==
  /\ saved \in Nat /\ config \in Nat /\ submitted \in Nat /\ faults \in Nat
  /\ pc \in {"idle", "saved", "installed", "notifying"}
  /\ down \in BOOLEAN /\ refusing \in BOOLEAN
  /\ telling \subseteq Pages
  /\ queue \in Seq(Jobs)

PageTypeOK ==
  /\ missed \subseteq Pages
  /\ page \in [Pages -> {"absent", "loading", "rootless", "running", "gone"}]
  /\ calls \in [Pages -> Seq(Call)]
  /\ style \in [Pages -> Nat \cup {NoStyle}]

\* What a page may still be told: not newer than the worker's version v, and, in answer
\* to its newest request, not older than the style s it shows.
Timely(call, newest, s, v) ==
  call.answered /\ call # Closed => call.version <= v /\ (newest => s <= call.version)

CallsOK(p) ==
  \A r \in 1 .. Len(calls[p]) : Timely(calls[p][r], r = Len(calls[p]), style[p], config)

VersionsOK ==
  /\ config <= saved
  /\ \A p \in Pages : style[p] <= config /\ CallsOK(p)

SyncInv == WorkerTypeOK /\ PageTypeOK /\ VersionsOK

\* A commit stays at the head of the queue until it is over.
HeadOK == pc # "idle" => queue # << >> /\ Head(queue) = Commit
-----------------------------------------------------------------------------
LEMMA TypeParts == WorkerTypeOK /\ PageTypeOK <=> TypeOK
BY DEF WorkerTypeOK, PageTypeOK, TypeOK, Call

LEMMA CallFacts ==
  /\ Pending \in Call /\ ~Pending.answered
  /\ Closed \in Call
  /\ \A v \in Nat : Answer(v) \in Call /\ Answer(v).version = v
  /\ NoStyle \in Int /\ \A v \in Nat : NoStyle <= v
BY DEF Pending, Closed, Answer, Call, NoStyle

LEMMA JobFacts ==
  /\ Commit \in Jobs
  /\ \A p \in Pages, r \in Nat : [page |-> p, revision |-> r] \in Jobs
BY DEF Commit, Jobs

LEMMA QueueFacts ==
  ASSUME queue \in Seq(Jobs)
  PROVE  /\ \A job \in Jobs : Append(queue, job) \in Seq(Jobs)
         /\ queue # << >> => Tail(queue) \in Seq(Jobs)
         /\ << >> \in Seq(Jobs)
OBVIOUS

LEMMA InitOK ==
  ASSUME Init
  PROVE  SyncInv
<1>1. << >> \in Seq(Jobs) /\ << >> \in Seq(Call) /\ Len(<< >>) = 0 OBVIOUS
<1>2. WorkerTypeOK BY <1>1 DEF Init, WorkerTypeOK
<1>3. PageTypeOK BY <1>1 DEF Init, PageTypeOK
<1>4. VersionsOK
  <2>1. \A p \in Pages : style[p] = NoStyle /\ calls[p] = << >> BY DEF Init
  <2>2. \A p \in Pages : CallsOK(p) BY <1>1, <2>1 DEF CallsOK
  <2>3. config = 0 /\ saved = 0 BY DEF Init
  <2> QED BY <2>1, <2>2, <2>3, CallFacts DEF VersionsOK
<1> QED BY <1>2, <1>3, <1>4 DEF SyncInv

\* The worker's version grows, and nothing changes in the pages.
LEMMA GrowKeeps ==
  ASSUME SyncInv, WorkerTypeOK', PageTypeOK', config <= config', config' <= saved',
         calls' = calls, style' = style
  PROVE  SyncInv'
<1>1. config \in Nat /\ config' \in Nat BY DEF SyncInv, WorkerTypeOK
<1>2. ASSUME NEW p \in Pages PROVE style'[p] <= config' /\ CallsOK(p)'
  <2>1. style[p] \in Int /\ style[p] <= config /\ CallsOK(p) /\ calls[p] \in Seq(Call)
    BY CallFacts DEF SyncInv, PageTypeOK, VersionsOK
  <2>2. style'[p] <= config' BY <1>1, <2>1
  <2>3. ASSUME NEW r \in 1 .. Len(calls[p])
        PROVE  Timely(calls[p][r], r = Len(calls[p]), style[p], config')
    <3>1. Timely(calls[p][r], r = Len(calls[p]), style[p], config) BY <2>1 DEF CallsOK
    <3>2. calls[p][r] \in Call BY <2>1
    <3>3. calls[p][r].version \in Int BY <3>2, CallFacts DEF Call
    <3> QED BY <1>1, <3>1, <3>3 DEF Timely
  <2> QED BY <2>2, <2>3 DEF CallsOK
<1> QED BY <1>2 DEF SyncInv, VersionsOK

\* A new request has no answer yet, and the one before it is no longer the newest.
LEMMA RefreshKeeps ==
  ASSUME SyncInv, NEW q \in Pages, Refresh(q), config' = config, saved' = saved, style' = style
  PROVE  /\ VersionsOK' /\ queue' \in Seq(Jobs) /\ missed' \subseteq Pages
         /\ calls' \in [Pages -> Seq(Call)]
<1>1. /\ calls \in [Pages -> Seq(Call)] /\ queue \in Seq(Jobs) /\ missed \subseteq Pages
      /\ style \in [Pages -> Nat \cup {NoStyle}] /\ config \in Nat
  BY DEF SyncInv, WorkerTypeOK, PageTypeOK
<1>2. calls[q] \in Seq(Call) /\ Len(calls[q]) \in Nat BY <1>1
<1>3. queue' \in Seq(Jobs) /\ missed' \subseteq Pages
  <2>1. Len(calls[q]) + 1 \in Nat BY <1>2
  <2>2. [page |-> q, revision |-> Len(calls[q]) + 1] \in Jobs BY <2>1, JobFacts
  <2> QED BY <1>1, <2>2, QueueFacts DEF Refresh, revision
<1>4. calls' = [calls EXCEPT ![q] = Append(@, Pending)] BY DEF Refresh
<1>5. /\ Append(calls[q], Pending) \in Seq(Call)
      /\ Len(Append(calls[q], Pending)) = Len(calls[q]) + 1
      /\ \A r \in 1 .. Len(calls[q]) : Append(calls[q], Pending)[r] = calls[q][r]
      /\ Append(calls[q], Pending)[Len(calls[q]) + 1] = Pending
  BY <1>2, CallFacts
<1>6. calls' \in [Pages -> Seq(Call)] BY <1>1, <1>4, <1>5
<1>7. ASSUME NEW p \in Pages PROVE CallsOK(p)'
  <2>1. CallsOK(p) BY DEF SyncInv, VersionsOK
  <2>2. CASE p # q
    <3>1. calls'[p] = calls[p] BY <1>1, <1>4, <2>2
    <3> QED BY <2>1, <3>1 DEF CallsOK
  <2>3. CASE p = q
    <3>1. calls'[p] = Append(calls[q], Pending) BY <1>1, <1>4, <2>3
    <3>2. ASSUME NEW r \in 1 .. Len(calls[q]) + 1
          PROVE  Timely(calls'[p][r], r = Len(calls[q]) + 1, style[p], config)
      <4>1. CASE r = Len(calls[q]) + 1
        <5>1. ~calls'[p][r].answered BY <1>5, <3>1, <4>1, CallFacts
        <5> QED BY <5>1 DEF Timely
      <4>2. CASE r # Len(calls[q]) + 1
        <5>1. r \in 1 .. Len(calls[q]) BY <1>2, <4>2
        <5>2. calls'[p][r] = calls[p][r] BY <1>5, <2>3, <3>1, <5>1
        <5>3. Timely(calls[p][r], r = Len(calls[p]), style[p], config)
          BY <2>1, <2>3, <5>1 DEF CallsOK
        <5> QED BY <4>2, <5>2, <5>3 DEF Timely
      <4> QED BY <4>1, <4>2
    <3>3. Len(calls'[p]) = Len(calls[q]) + 1 BY <1>5, <3>1
    <3> QED BY <3>2, <3>3 DEF CallsOK
  <2> QED BY <2>2, <2>3
<1>8. VersionsOK' BY <1>7 DEF SyncInv, VersionsOK
<1> QED BY <1>3, <1>6, <1>8

\* Some answers will not be read.
LEMMA GiveUpKeeps ==
  ASSUME SyncInv, config' = config, saved' = saved, style' = style,
         \A p \in Pages :
           /\ calls'[p] \in Seq(Call) /\ Len(calls'[p]) = Len(calls[p])
           /\ \A r \in 1 .. Len(calls[p]) : calls'[p][r] \in {calls[p][r], Closed}
  PROVE  VersionsOK'
<1>1. ASSUME NEW p \in Pages PROVE CallsOK(p)'
  <2>1. CallsOK(p) BY DEF SyncInv, VersionsOK
  <2>2. \A r \in 1 .. Len(calls[p]) :
          Timely(calls'[p][r], r = Len(calls[p]), style[p], config)
    BY <2>1 DEF CallsOK, Timely
  <2> QED BY <2>2 DEF CallsOK
<1> QED BY <1>1 DEF SyncInv, VersionsOK

LEMMA SequenceOfCalls ==
  ASSUME NEW n \in Nat, NEW f \in [1 .. n -> Call]
  PROVE  f \in Seq(Call) /\ Len(f) = n
OBVIOUS

LEMMA CloseKeeps ==
  ASSUME SyncInv, NEW q \in Pages, Close(q)
  PROVE  SyncInv'
<1>1. /\ saved' = saved /\ config' = config /\ pc' = pc /\ down' = down
      /\ refusing' = refusing /\ telling' = telling
      /\ queue' = queue /\ style' = style /\ submitted' = submitted /\ faults' = faults
  BY DEF Close, worker, bounds
<1>2. WorkerTypeOK' BY <1>1 DEF SyncInv, WorkerTypeOK
<1>3. calls \in [Pages -> Seq(Call)] BY DEF SyncInv, PageTypeOK
<1> DEFINE shut == [r \in DOMAIN calls[q] |-> Closed]
<1>4. calls' = [calls EXCEPT ![q] = shut] BY DEF Close
<1>5. calls[q] \in Seq(Call) /\ Len(calls[q]) \in Nat /\ DOMAIN calls[q] = 1 .. Len(calls[q])
  BY <1>3
<1>6. shut \in [1 .. Len(calls[q]) -> Call] BY <1>5, CallFacts
<1>7. /\ shut \in Seq(Call) /\ Len(shut) = Len(calls[q])
      /\ \A r \in 1 .. Len(calls[q]) : shut[r] = Closed
  <2>1. \A r \in 1 .. Len(calls[q]) : shut[r] = Closed BY <1>5
  <2> HIDE DEF shut
  <2> QED BY <1>5, <1>6, <2>1, SequenceOfCalls
<1> HIDE DEF shut
<1>8. calls' \in [Pages -> Seq(Call)] BY <1>3, <1>4, <1>7
<1>9. ASSUME NEW p \in Pages
      PROVE  /\ calls'[p] \in Seq(Call) /\ Len(calls'[p]) = Len(calls[p])
             /\ \A r \in 1 .. Len(calls[p]) : calls'[p][r] \in {calls[p][r], Closed}
  <2>1. CASE p = q BY <1>3, <1>4, <1>7, <2>1
  <2>2. CASE p # q BY <1>3, <1>4, <2>2
  <2> QED BY <2>1, <2>2
<1>10. VersionsOK' BY <1>1, <1>9, GiveUpKeeps
<1>11. PageTypeOK' BY <1>1, <1>8 DEF SyncInv, PageTypeOK, Close
<1> QED BY <1>2, <1>10, <1>11 DEF SyncInv

LEMMA StopKeeps ==
  ASSUME SyncInv, Stop
  PROVE  SyncInv'
<1>1. /\ saved' = saved /\ config' = config /\ style' = style /\ page' = page
      /\ submitted' = submitted /\ faults' = faults + 1
      /\ pc' = "idle" /\ telling' = {} /\ queue' = << >> /\ down' = TRUE /\ refusing' = FALSE
  BY DEF Stop
<1>2. WorkerTypeOK'
  <2>1. saved' \in Nat /\ config' \in Nat /\ submitted' \in Nat /\ faults' \in Nat
    BY <1>1 DEF SyncInv, WorkerTypeOK
  <2>2. queue' \in Seq(Jobs) /\ telling' \subseteq Pages BY <1>1
  <2>3. down' \in BOOLEAN /\ refusing' \in BOOLEAN /\ pc' \in {"idle", "saved", "installed", "notifying"}
    BY <1>1
  <2> QED BY <2>1, <2>2, <2>3 DEF WorkerTypeOK
<1>3. calls \in [Pages -> Seq(Call)] BY DEF SyncInv, PageTypeOK
<1> DEFINE left(p) ==
      [r \in DOMAIN calls[p] |-> IF calls[p][r] = Pending THEN Closed ELSE calls[p][r]]
<1>4. calls' = [p \in Pages |-> left(p)] BY DEF Stop
<1>5. ASSUME NEW p \in Pages
      PROVE  /\ left(p) \in Seq(Call) /\ Len(left(p)) = Len(calls[p])
             /\ \A r \in 1 .. Len(calls[p]) : left(p)[r] \in {calls[p][r], Closed}
  <2>1. calls[p] \in Seq(Call) /\ Len(calls[p]) \in Nat /\ DOMAIN calls[p] = 1 .. Len(calls[p])
    BY <1>3
  <2>2. \A r \in 1 .. Len(calls[p]) : calls[p][r] \in Call BY <2>1
  <2>3. left(p) \in [1 .. Len(calls[p]) -> Call] BY <2>1, <2>2, CallFacts
  <2>4. \A r \in 1 .. Len(calls[p]) : left(p)[r] \in {calls[p][r], Closed} BY <2>1
  <2> HIDE DEF left
  <2> QED BY <2>1, <2>3, <2>4, SequenceOfCalls
<1> HIDE DEF left
<1>6. \A p \in Pages : calls'[p] = left(p) BY <1>4
<1>7. calls' \in [Pages -> Seq(Call)] BY <1>4, <1>5
<1>8. VersionsOK' BY <1>1, <1>5, <1>6, GiveUpKeeps
<1>9. missed' \subseteq Pages BY DEF Stop, SyncInv, PageTypeOK
<1>10. PageTypeOK' BY <1>1, <1>7, <1>9 DEF SyncInv, PageTypeOK
<1> QED BY <1>2, <1>8, <1>10 DEF SyncInv

\* The answer carries the worker's version, which nothing that is shown exceeds.
LEMMA ServeKeeps ==
  ASSUME SyncInv, NEW q \in Pages, NEW t \in DOMAIN calls[q], Serve(q, t)
  PROVE  SyncInv'
<1>1. /\ saved' = saved /\ config' = config /\ pc' = pc /\ down' = down
      /\ refusing' = refusing /\ telling' = telling
      /\ page' = page /\ style' = style /\ missed' = missed
      /\ submitted' = submitted /\ faults' = faults
      /\ queue # << >> /\ queue' = Tail(queue)
  BY DEF Serve, Runs, Turn, worker, bounds
<1>2. WorkerTypeOK' BY <1>1, QueueFacts DEF SyncInv, WorkerTypeOK
<1>3. calls \in [Pages -> Seq(Call)] /\ config \in Nat BY DEF SyncInv, PageTypeOK, WorkerTypeOK
<1>4. calls[q] \in Seq(Call) /\ Len(calls[q]) \in Nat /\ t \in 1 .. Len(calls[q]) BY <1>3
<1> DEFINE answer == IF calls[q][t] = Pending THEN Answer(config) ELSE calls[q][t]
<1>5. calls' = [calls EXCEPT ![q] = [calls[q] EXCEPT ![t] = answer]] BY DEF Serve
<1>6. answer \in Call BY <1>3, <1>4, CallFacts
<1>7. answer = calls[q][t] \/ answer.version = config BY <1>3, CallFacts
<1> HIDE DEF answer
<1>8. /\ [calls[q] EXCEPT ![t] = answer] \in Seq(Call)
      /\ Len([calls[q] EXCEPT ![t] = answer]) = Len(calls[q])
  BY <1>4, <1>6
<1>9. calls' \in [Pages -> Seq(Call)] BY <1>3, <1>5, <1>8
<1>10. PageTypeOK' BY <1>1, <1>9 DEF SyncInv, PageTypeOK
<1>11. ASSUME NEW p \in Pages PROVE CallsOK(p)'
  <2>1. CallsOK(p) /\ style[p] <= config BY DEF SyncInv, VersionsOK
  <2>2. CASE p # q
    <3>1. calls'[p] = calls[p] BY <1>3, <1>5, <2>2
    <3> QED BY <1>1, <2>1, <3>1 DEF CallsOK
  <2>3. CASE p = q
    <3>1. calls'[p] = [calls[q] EXCEPT ![t] = answer] BY <1>3, <1>5, <2>3
    <3>2. Len(calls'[p]) = Len(calls[p]) BY <1>8, <2>3, <3>1
    <3>3. ASSUME NEW r \in 1 .. Len(calls[p])
          PROVE  Timely(calls'[p][r], r = Len(calls[p]), style[p], config)
      <4>1. Timely(calls[p][r], r = Len(calls[p]), style[p], config) BY <2>1 DEF CallsOK
      <4>2. CASE r # t \/ answer = calls[q][t]
        <5>1. calls'[p][r] = calls[p][r] BY <1>4, <2>3, <3>1, <4>2
        <5> QED BY <4>1, <5>1
      <4>3. CASE r = t /\ answer.version = config
        <5>1. calls'[p][r].version = config BY <1>4, <3>1, <4>3
        <5> QED BY <1>3, <2>1, <5>1 DEF Timely
      <4> QED BY <1>7, <4>2, <4>3
    <3> QED BY <1>1, <3>2, <3>3 DEF CallsOK
  <2> QED BY <2>2, <2>3
<1>12. VersionsOK' BY <1>1, <1>11 DEF SyncInv, VersionsOK
<1> QED BY <1>2, <1>10, <1>12 DEF SyncInv

\* A refusal is an answer that is not read.
LEMMA RefuseKeeps ==
  ASSUME SyncInv, NEW q \in Pages, NEW t \in DOMAIN calls[q], Refuse(q, t)
  PROVE  SyncInv'
<1>1. /\ saved' = saved /\ config' = config /\ pc' = pc /\ down' = down
      /\ refusing' = refusing /\ telling' = telling
      /\ page' = page /\ style' = style /\ missed' \in {missed, missed \cup {q}}
      /\ submitted' = submitted /\ faults' = faults
      /\ queue # << >> /\ queue' = Tail(queue)
  BY DEF Refuse, Turn, worker, bounds
<1>2. WorkerTypeOK' BY <1>1, QueueFacts DEF SyncInv, WorkerTypeOK
<1>3. calls \in [Pages -> Seq(Call)] BY DEF SyncInv, PageTypeOK
<1>4. calls[q] \in Seq(Call) /\ Len(calls[q]) \in Nat /\ t \in 1 .. Len(calls[q]) BY <1>3
<1> DEFINE answer == IF calls[q][t] = Pending THEN Closed ELSE calls[q][t]
<1>5. calls' = [calls EXCEPT ![q] = [calls[q] EXCEPT ![t] = answer]] BY DEF Refuse
<1>6. answer \in {calls[q][t], Closed} /\ answer \in Call BY <1>4, CallFacts
<1> HIDE DEF answer
<1>7. /\ [calls[q] EXCEPT ![t] = answer] \in Seq(Call)
      /\ Len([calls[q] EXCEPT ![t] = answer]) = Len(calls[q])
      /\ \A r \in 1 .. Len(calls[q]) :
           [calls[q] EXCEPT ![t] = answer][r] = IF r = t THEN answer ELSE calls[q][r]
  BY <1>4, <1>6
<1>8. calls' \in [Pages -> Seq(Call)] BY <1>3, <1>5, <1>7
<1>9. ASSUME NEW p \in Pages
      PROVE  /\ calls'[p] \in Seq(Call) /\ Len(calls'[p]) = Len(calls[p])
             /\ \A r \in 1 .. Len(calls[p]) : calls'[p][r] \in {calls[p][r], Closed}
  <2>1. CASE p = q
    <3>1. calls'[p] = [calls[q] EXCEPT ![t] = answer] BY <1>3, <1>5, <2>1
    <3> QED BY <1>6, <1>7, <2>1, <3>1
  <2>2. CASE p # q BY <1>3, <1>5, <2>2
  <2> QED BY <2>1, <2>2
<1>10. VersionsOK' BY <1>1, <1>9, GiveUpKeeps
<1>11. missed' \subseteq Pages BY <1>1 DEF SyncInv, PageTypeOK
<1>12. PageTypeOK' BY <1>1, <1>8, <1>11 DEF SyncInv, PageTypeOK
<1> QED BY <1>2, <1>10, <1>12 DEF SyncInv

\* Only the newest request's answer is shown.
LEMMA ReceiveKeeps ==
  ASSUME SyncInv, NEW q \in Pages, NEW t \in DOMAIN calls[q], Receive(q, t)
  PROVE  SyncInv' /\ \A p \in Pages : style[p] <= style'[p]
<1>1. /\ saved' = saved /\ config' = config /\ pc' = pc /\ down' = down
      /\ refusing' = refusing /\ telling' = telling
      /\ page' = page /\ queue' = queue /\ missed' = missed
      /\ submitted' = submitted /\ faults' = faults
  BY DEF Receive, worker, bounds
<1>2. WorkerTypeOK' BY <1>1 DEF SyncInv, WorkerTypeOK
<1>3. /\ calls \in [Pages -> Seq(Call)] /\ config \in Nat
      /\ style \in [Pages -> Nat \cup {NoStyle}]
  BY DEF SyncInv, PageTypeOK, WorkerTypeOK
<1>4. calls[q] \in Seq(Call) /\ Len(calls[q]) \in Nat /\ t \in 1 .. Len(calls[q]) BY <1>3
<1>5. calls' = [calls EXCEPT ![q] = [calls[q] EXCEPT ![t] = Closed]] BY DEF Receive
<1>6. /\ [calls[q] EXCEPT ![t] = Closed] \in Seq(Call)
      /\ Len([calls[q] EXCEPT ![t] = Closed]) = Len(calls[q])
      /\ \A r \in 1 .. Len(calls[q]) :
           [calls[q] EXCEPT ![t] = Closed][r] = IF r = t THEN Closed ELSE calls[q][r]
  BY <1>4, CallFacts
<1>7. calls' \in [Pages -> Seq(Call)] BY <1>3, <1>5, <1>6
<1> DEFINE shown == IF t = revision(q) /\ page[q] = "running" THEN calls[q][t].version ELSE style[q]
<1>8. style' = [style EXCEPT ![q] = shown] BY DEF Receive
<1>9. calls[q][t] \in Call /\ calls[q][t].answered /\ calls[q][t] # Closed
  BY <1>4 DEF Receive, Answered
<1>10. CallsOK(q) /\ style[q] <= config BY DEF SyncInv, VersionsOK
<1>11. Timely(calls[q][t], t = Len(calls[q]), style[q], config) BY <1>4, <1>10 DEF CallsOK
<1>12. calls[q][t].version \in Nat \cup {NoStyle} BY <1>9 DEF Call
<1>13. shown \in Nat \cup {NoStyle} /\ style[q] <= shown /\ shown <= config
  <2>1. CASE shown = style[q] BY <1>3, <1>10, <2>1, CallFacts
  <2>2. CASE t = revision(q) /\ shown = calls[q][t].version
    BY <1>9, <1>11, <1>12, <2>2 DEF Timely, revision
  <2> QED BY <2>1, <2>2
<1>14. t # Len(calls[q]) => shown = style[q] BY DEF revision
<1> HIDE DEF shown
<1>15. \A p \in Pages : style'[p] = IF p = q THEN shown ELSE style[p] BY <1>3, <1>8
<1>16. style' \in [Pages -> Nat \cup {NoStyle}] BY <1>3, <1>8, <1>13
<1>17. PageTypeOK' BY <1>1, <1>7, <1>16 DEF SyncInv, PageTypeOK
<1>18. ASSUME NEW p \in Pages PROVE CallsOK(p)' /\ style'[p] <= config'
  <2>1. CallsOK(p) /\ style[p] <= config BY DEF SyncInv, VersionsOK
  <2>2. CASE p # q
    <3>1. calls'[p] = calls[p] /\ style'[p] = style[p] BY <1>3, <1>5, <1>15, <2>2
    <3> QED BY <1>1, <2>1, <3>1 DEF CallsOK
  <2>3. CASE p = q
    <3>1. calls'[p] = [calls[q] EXCEPT ![t] = Closed] BY <1>3, <1>5, <2>3
    <3>2. Len(calls'[p]) = Len(calls[p]) BY <1>6, <2>3, <3>1
    <3>3. style'[p] = shown BY <1>15, <2>3
    <3>4. ASSUME NEW r \in 1 .. Len(calls[p])
          PROVE  Timely(calls'[p][r], r = Len(calls[p]), style'[p], config)
      <4>1. CASE r = t
        <5>1. calls'[p][r] = Closed BY <1>6, <2>3, <3>1, <4>1
        <5> QED BY <5>1 DEF Timely
      <4>2. CASE r # t
        <5>1. calls'[p][r] = calls[p][r] BY <1>6, <2>3, <3>1, <4>2
        <5>2. Timely(calls[p][r], r = Len(calls[p]), style[p], config) BY <2>1 DEF CallsOK
        <5>3. r = Len(calls[p]) => style'[p] = style[p] BY <1>14, <2>3, <3>3, <4>2
        <5> QED BY <5>1, <5>2, <5>3 DEF Timely
      <4> QED BY <4>1, <4>2
    <3> QED BY <1>1, <1>13, <3>2, <3>3, <3>4 DEF CallsOK
  <2> QED BY <2>2, <2>3
<1>19. VersionsOK' BY <1>1, <1>18 DEF SyncInv, VersionsOK
<1>20. ASSUME NEW p \in Pages PROVE style[p] <= style'[p]
  <2>1. style[p] <= style[p] BY <1>3, CallFacts
  <2> QED BY <1>13, <1>15, <2>1
<1> QED BY <1>2, <1>17, <1>19, <1>20 DEF SyncInv

LEMMA StartKeeps ==
  ASSUME SyncInv, NEW p \in Pages, Start(p) \/ DOMContentLoaded(p) \/ PickerRefreshes(p)
  PROVE  SyncInv' /\ style' = style
<1>1. /\ Refresh(p)
      /\ saved' = saved /\ config' = config /\ pc' = pc /\ down' = down
      /\ refusing' = refusing /\ telling' = telling
      /\ style' = style /\ submitted' = submitted /\ faults' = faults
  BY DEF Start, DOMContentLoaded, PickerRefreshes, worker, bounds
<1>2. page' \in [Pages -> {"absent", "loading", "rootless", "running", "gone"}]
  BY DEF SyncInv, PageTypeOK, Start, DOMContentLoaded, PickerRefreshes
<1>3. /\ VersionsOK' /\ queue' \in Seq(Jobs) /\ missed' \subseteq Pages
      /\ calls' \in [Pages -> Seq(Call)]
  BY <1>1, RefreshKeeps
<1>4. WorkerTypeOK' BY <1>1, <1>3 DEF SyncInv, WorkerTypeOK
<1>5. PageTypeOK' BY <1>1, <1>2, <1>3 DEF SyncInv, PageTypeOK
<1> QED BY <1>1, <1>3, <1>4, <1>5 DEF SyncInv

LEMMA TellKeeps ==
  ASSUME SyncInv, NEW p \in Pages, Tell(p)
  PROVE  SyncInv' /\ style' = style
<1>1. /\ saved' = saved /\ config' = config /\ pc' = pc /\ down' = down /\ refusing' = refusing
      /\ telling' = telling \ {p} /\ page' = page
      /\ style' = style /\ submitted' = submitted /\ faults' = faults
  BY DEF Tell, bounds
<1>2. /\ VersionsOK' /\ queue' \in Seq(Jobs) /\ missed' \subseteq Pages
      /\ calls' \in [Pages -> Seq(Call)]
  <2>1. CASE Listening(p) BY <1>1, <2>1, RefreshKeeps DEF Tell
  <2>2. CASE ~Listening(p)
    <3>1. calls' = calls /\ queue' = queue /\ missed' = missed BY <2>2 DEF Tell
    <3> QED
      BY <1>1, <3>1 DEF SyncInv, WorkerTypeOK, PageTypeOK, VersionsOK, CallsOK
  <2> QED BY <2>1, <2>2
<1>3. WorkerTypeOK' BY <1>1, <1>2 DEF SyncInv, WorkerTypeOK
<1>4. PageTypeOK' BY <1>1, <1>2 DEF SyncInv, PageTypeOK
<1> QED BY <1>1, <1>2, <1>3, <1>4 DEF SyncInv

LEMMA PageOpens ==
  ASSUME SyncInv, NEW p \in Pages, Open(p) \/ StartEarly(p)
  PROVE  SyncInv' /\ style' = style
<1>1. /\ saved' = saved /\ config' = config /\ pc' = pc /\ down' = down
      /\ refusing' = refusing /\ telling' = telling
      /\ queue' = queue /\ calls' = calls /\ style' = style /\ missed' = missed
      /\ submitted' = submitted /\ faults' = faults
  BY DEF Open, StartEarly, worker, bounds
<1>2. page' \in [Pages -> {"absent", "loading", "rootless", "running", "gone"}]
  BY DEF SyncInv, PageTypeOK, Open, StartEarly
<1>3. WorkerTypeOK' BY <1>1 DEF SyncInv, WorkerTypeOK
<1>4. PageTypeOK' BY <1>1, <1>2 DEF SyncInv, PageTypeOK
<1>5. VersionsOK' BY <1>1 DEF SyncInv, VersionsOK, CallsOK
<1> QED BY <1>1, <1>3, <1>4, <1>5 DEF SyncInv

\* What the worker does for itself.
WorkerAlone ==
  \/ Wake \/ WakeFails \/ Sleep \/ Submit \/ RefuseCommit
  \/ Save \/ SaveFails \/ RollbackFails \/ Install \/ Notify \/ NotifyFails \/ CommitEnds
LEMMA WorkerKeeps ==
  ASSUME SyncInv, HeadOK, WorkerAlone
  PROVE  SyncInv' /\ style' = style
<1>1. calls' = calls /\ style' = style /\ page' = page
  BY DEF WorkerAlone, Wake, WakeFails, Sleep, Submit, RefuseCommit, Save, SaveFails,
           RollbackFails, Install, Notify, NotifyFails, CommitEnds,
         worker, pages
<1>2. missed' \subseteq Pages
  BY DEF SyncInv, PageTypeOK, WorkerAlone, Wake, WakeFails, Sleep, Submit, RefuseCommit, Save, SaveFails,
           RollbackFails, Install, Notify, NotifyFails, CommitEnds, worker, pages
<1>3. PageTypeOK' BY <1>1, <1>2 DEF SyncInv, PageTypeOK
<1>4. WorkerTypeOK /\ config <= saved /\ config \in Nat /\ saved \in Nat
  BY DEF SyncInv, WorkerTypeOK, VersionsOK
<1>5. queue' \in Seq(Jobs)
  <2>1. queue \in Seq(Jobs) BY <1>4 DEF WorkerTypeOK
  <2>2. \/ queue' = queue
        \/ queue' = Append(queue, Commit)
        \/ queue # << >> /\ queue' = Tail(queue)
    BY DEF WorkerAlone, Wake, WakeFails, Sleep, Submit, RefuseCommit, Save, SaveFails,
           RollbackFails, Install, Notify, NotifyFails, CommitEnds,
           HeadOK, Runs, Turn
  <2> QED BY <2>1, <2>2, QueueFacts, JobFacts
<1>6. WorkerTypeOK'
  <2>1. saved' \in Nat /\ config' \in Nat /\ submitted' \in Nat /\ faults' \in Nat
    BY <1>4 DEF WorkerTypeOK, WorkerAlone, Wake, WakeFails, Sleep, Submit, RefuseCommit, Save, SaveFails,
           RollbackFails, Install, Notify, NotifyFails, CommitEnds, worker, bounds
  <2>2. /\ pc' \in {"idle", "saved", "installed", "notifying"}
        /\ down' \in BOOLEAN /\ refusing' \in BOOLEAN /\ telling' \subseteq Pages
    BY <1>4 DEF WorkerTypeOK, WorkerAlone, Wake, WakeFails, Sleep, Submit, RefuseCommit, Save, SaveFails,
           RollbackFails, Install, Notify, NotifyFails, CommitEnds, worker, bounds
  <2> QED BY <1>5, <2>1, <2>2 DEF WorkerTypeOK
<1>7. config <= config' /\ config' <= saved'
  BY <1>4 DEF WorkerAlone, Wake, WakeFails, Sleep, Submit, RefuseCommit, Save, SaveFails,
              RollbackFails, Install, Notify, NotifyFails, CommitEnds, worker
<1>8. SyncInv' BY <1>1, <1>3, <1>6, <1>7, GrowKeeps
<1> QED BY <1>1, <1>8

LEMMA SyncStutters ==
  ASSUME SyncInv, UNCHANGED vars
  PROVE  SyncInv' /\ style' = style
<1>1. /\ saved' = saved /\ config' = config /\ pc' = pc /\ down' = down
      /\ refusing' = refusing /\ telling' = telling
      /\ queue' = queue /\ page' = page /\ calls' = calls /\ style' = style /\ missed' = missed
      /\ submitted' = submitted /\ faults' = faults
  BY DEF vars, worker, pages, bounds
<1>2. WorkerTypeOK' BY <1>1 DEF SyncInv, WorkerTypeOK
<1>3. PageTypeOK' BY <1>1 DEF SyncInv, PageTypeOK
<1>4. VersionsOK' BY <1>1 DEF SyncInv, VersionsOK, CallsOK
<1> QED BY <1>1, <1>2, <1>3, <1>4 DEF SyncInv

LEMMA AppendKeepsHead ==
  ASSUME NEW s \in Seq(Jobs), NEW job \in Jobs, s # << >>
  PROVE  Append(s, job) # << >> /\ Head(Append(s, job)) = Head(s)
OBVIOUS

LEMMA HeadStep ==
  ASSUME SyncInv, HeadOK, [Next]_vars
  PROVE  HeadOK'
<1>1. queue \in Seq(Jobs) /\ calls \in [Pages -> Seq(Call)]
  BY DEF SyncInv, WorkerTypeOK, PageTypeOK
<1>2. ASSUME NEW job \in Jobs, queue' = Append(queue, job), pc' = pc PROVE HeadOK'
  <2>1. queue # << >> => queue' # << >> /\ Head(queue') = Head(queue)
    BY <1>1, <1>2, AppendKeepsHead
  <2> QED BY <1>2, <2>1 DEF HeadOK
<1>3. ASSUME queue' = queue, pc' = pc PROVE HeadOK'
  BY <1>3 DEF HeadOK
<1>4. ASSUME pc' = "idle" PROVE HeadOK'
  BY <1>4 DEF HeadOK
<1>5. ASSUME queue' = queue, pc # "idle" PROVE HeadOK'
  BY <1>5 DEF HeadOK
<1>6. ASSUME NEW p \in Pages, Refresh(p), pc' = pc PROVE HeadOK'
  <2>1. Len(calls[p]) + 1 \in Nat BY <1>1
  <2>2. [page |-> p, revision |-> revision(p) + 1] \in Jobs BY <2>1, JobFacts DEF revision
  <2> QED BY <1>2, <1>6, <2>2 DEF Refresh
<1>7. CASE UNCHANGED vars BY <1>3, <1>7 DEF vars, worker
<1>8. CASE Submit BY <1>2, <1>8, JobFacts DEF Submit, worker
<1>9. CASE Wake \/ WakeFails \/ Sleep BY <1>3, <1>9 DEF Wake, WakeFails, Sleep
<1>10. CASE Save
  <2>1. queue' = queue /\ queue # << >> /\ Head(queue) = Commit BY <1>10 DEF Save, Runs, Turn
  <2> QED BY <2>1 DEF HeadOK
<1>11. CASE Install \/ Notify BY <1>5, <1>11 DEF Install, Notify
<1>12. CASE SaveFails \/ RollbackFails \/ RefuseCommit
  <2>1. pc = "idle" /\ pc' = pc BY <1>12 DEF SaveFails, RollbackFails, RefuseCommit, worker
  <2> QED BY <1>4, <2>1
<1>13. CASE NotifyFails \/ CommitEnds \/ Stop BY <1>4, <1>13 DEF NotifyFails, CommitEnds, Stop
<1>14. ASSUME NEW p \in Pages, Open(p) \/ StartEarly(p) \/ Close(p) PROVE HeadOK'
  BY <1>3, <1>14 DEF Open, StartEarly, Close, worker
<1>15. ASSUME NEW p \in Pages, Start(p) \/ DOMContentLoaded(p) \/ PickerRefreshes(p)
       PROVE  HeadOK'
  BY <1>6, <1>15 DEF Start, DOMContentLoaded, PickerRefreshes, worker
<1>16. ASSUME NEW p \in Pages, Tell(p) PROVE HeadOK'
  BY <1>3, <1>6, <1>16 DEF Tell
<1>17. ASSUME NEW p \in Pages, NEW r \in DOMAIN calls[p], Receive(p, r) PROVE HeadOK'
  BY <1>3, <1>17 DEF Receive, worker
<1>18. ASSUME NEW p \in Pages, NEW r \in DOMAIN calls[p], Serve(p, r) \/ Refuse(p, r)
       PROVE  HeadOK'
  <2>1. Head(queue) = [page |-> p, revision |-> r] /\ pc' = pc
    BY <1>18 DEF Serve, Refuse, Runs, Turn, worker
  <2>2. Head(queue) # Commit BY <2>1, SyncAssumption DEF Commit
  <2>3. pc = "idle" BY <2>2 DEF HeadOK
  <2> QED BY <1>4, <2>1, <2>3
<1> QED
  BY <1>7, <1>8, <1>9, <1>10, <1>11, <1>12, <1>13, <1>14, <1>15, <1>16, <1>17, <1>18
  DEF Next, Step, Script

NeverBack == \A p \in Pages : style'[p] >= style[p]

LEMMA SyncStep ==
  ASSUME SyncInv, HeadOK, [Next]_vars
  PROVE  SyncInv' /\ NeverBack
<1>1. \A p \in Pages : style[p] \in Int BY CallFacts DEF SyncInv, PageTypeOK
<1>2. style' = style => NeverBack BY <1>1 DEF NeverBack
<1>3. CASE UNCHANGED vars BY <1>2, <1>3, SyncStutters
<1>4. CASE WorkerAlone BY <1>2, <1>4, WorkerKeeps
<1>5. CASE Stop
  <2>1. style' = style BY <1>5 DEF Stop
  <2> QED BY <1>2, <1>5, <2>1, StopKeeps
<1>6. ASSUME NEW p \in Pages, Close(p) PROVE SyncInv' /\ NeverBack
  <2>1. style' = style BY <1>6 DEF Close
  <2> QED BY <1>2, <1>6, <2>1, CloseKeeps
<1>7. ASSUME NEW p \in Pages, NEW r \in DOMAIN calls[p], Serve(p, r)
      PROVE  SyncInv' /\ NeverBack
  <2>1. style' = style BY <1>7 DEF Serve
  <2> QED BY <1>2, <1>7, <2>1, ServeKeeps
<1>12. ASSUME NEW p \in Pages, NEW r \in DOMAIN calls[p], Refuse(p, r)
       PROVE  SyncInv' /\ NeverBack
  <2>1. style' = style BY <1>12 DEF Refuse
  <2> QED BY <1>2, <1>12, <2>1, RefuseKeeps
<1>8. ASSUME NEW p \in Pages, NEW r \in DOMAIN calls[p], Receive(p, r)
      PROVE  SyncInv' /\ NeverBack
  <2>1. SyncInv' /\ \A q \in Pages : style[q] <= style'[q] BY <1>8, ReceiveKeeps
  <2>2. \A q \in Pages : style'[q] \in Int BY <2>1, CallFacts DEF SyncInv, PageTypeOK
  <2> QED BY <1>1, <2>1, <2>2 DEF NeverBack
<1>9. ASSUME NEW p \in Pages, Start(p) \/ DOMContentLoaded(p) \/ PickerRefreshes(p)
      PROVE  SyncInv' /\ NeverBack
  BY <1>2, <1>9, StartKeeps
<1>10. ASSUME NEW p \in Pages, Tell(p) PROVE SyncInv' /\ NeverBack
  BY <1>2, <1>10, TellKeeps
<1>11. ASSUME NEW p \in Pages, Open(p) \/ StartEarly(p) PROVE SyncInv' /\ NeverBack
  BY <1>2, <1>11, PageOpens
<1> QED
  BY <1>3, <1>4, <1>5, <1>6, <1>7, <1>8, <1>9, <1>10, <1>11, <1>12
  DEF Next, Step, Script, WorkerAlone

\* Types, for any number of pages, changes and faults (content/index.ts, controller.ts).
THEOREM TypeCorrect == Spec => []TypeOK
<1>1. Init => SyncInv /\ HeadOK BY InitOK DEF Init, HeadOK
<1>2. SyncInv /\ HeadOK /\ [Next]_vars => (SyncInv /\ HeadOK)' BY SyncStep, HeadStep
<1>3. SyncInv => TypeOK BY TypeParts DEF SyncInv
<1> QED BY <1>1, <1>2, <1>3, PTL DEF Spec

\* However the answers to overlapping refreshes are delayed and the worker is stopped, a
\* page never goes back to older cosmetic rules (the revision of content/index.ts).
THEOREM NeverGoesBack == Spec => StyleNeverGoesBack
<1>1. Init => SyncInv /\ HeadOK BY InitOK DEF Init, HeadOK
<1>2. SyncInv /\ HeadOK /\ [Next]_vars => (SyncInv /\ HeadOK)' BY SyncStep, HeadStep
<1>3. SyncInv /\ HeadOK /\ [Next]_vars => [NeverBack]_vars BY SyncStep
<1>4. SyncInv /\ HeadOK /\ [Next]_vars => [\A p \in Pages : style'[p] >= style[p]]_vars
  BY <1>3 DEF NeverBack
<1> QED BY <1>1, <1>2, <1>4, PTL DEF Spec, StyleNeverGoesBack
=============================================================================
