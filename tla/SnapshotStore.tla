----------------------------- MODULE SnapshotStore -----------------------------
(***************************************************************************)
(* The companion's snapshot cache.  Every native message may be served by a *)
(* process of its own, several browser profiles share one cache directory, *)
(* and there is no lock: runs of lists.refresh stage files, commit them by *)
(* renaming a directory and prune old directories while other runs do the  *)
(* same and clients read the pages of a snapshot one request at a time.    *)
(*                                                                         *)
(* A snapshot's ID is the digest of its index, which holds the digests of  *)
(* all other files; digests do not collide, so an ID stands for a content. *)
(* A file is what its snapshot says or bad.  The file system is external   *)
(* and POSIX: a directory opened for removal stays the same one when it is *)
(* renamed, and adding or removing a file is its latest modification.      *)
(***************************************************************************)
EXTENDS Integers, FiniteSets, SequencesExt

CONSTANTS
  None,
  Contents,  \* what the lists can be at different times
  Pages,     \* page files, in the order of the index
  Runs,      \* processes that serve lists.refresh, each once
  Earlier,   \* runs before these, whose snapshots are in the cache
  Clients,   \* extensions
  KEEP_SNAPSHOTS,  \* 3 in the code
  MaxFaults  \* bound: I/O errors, stopped or suspended runs, damaged files

\* Files in the order they are written; the sources' texts, which follow the pages
\* and are never read again, are left out.
WriteOrder == Pages \o <<"manifest", "index">>

Files == ToSet(WriteOrder)

ASSUME StoreAssumption ==
  /\ {KEEP_SNAPSHOTS, MaxFaults} \subseteq Nat
  /\ KEEP_SNAPSHOTS > 0
  /\ Pages \in Seq(ToSet(Pages))
  /\ Len(Pages) > 0 /\ ToSet(Pages) \cap {"manifest", "index"} = {}
  /\ IsFiniteSet(Runs \cup Earlier)
  /\ Runs \cap Earlier = {} /\ None \notin Runs \cup Earlier \cup Contents \cup Clients
  /\ Cardinality(Earlier) <= KEEP_SNAPSHOTS

VARIABLES
  dirs,     \* run -> the directory it made: [path, content, files, bad]
  newer,    \* pairs of directories, the first modified after the second
  stale,    \* staging directories last modified more than ten minutes ago
  run,      \* run -> [pc, content, at, doomed, handle, ok]
  client,   \* client -> [pc, run, content, got]
  \* History: directories whose removal was begun, runs that were suspended, the
  \* committed directories in that order, and how many these were when a run wrote
  \* its index.
  opened, suspended, completed, indexed,
  faults

history == <<opened, suspended, completed, indexed>>
vars == <<dirs, newer, stale, run, client, history, faults>>

Dirs == Runs \cup Earlier
Staging(d) == <<"staging", d>>
Snapshot(c) == <<"snapshot", c>>
Paths == {Staging(d) : d \in Dirs} \cup {Snapshot(c) : c \in Contents}

ASSUME NoneAssumption == None \notin Paths

NewRun == [pc |-> "new", content |-> None, at |-> 1, doomed |-> << >>, handle |-> None,
           ok |-> FALSE]
IdleClient == [pc |-> "idle", run |-> None, content |-> None, got |-> << >>]

\* At most one directory has a path.
At(path) == {d \in Dirs : dirs[d].path = path}
Existing == {d \in Dirs : dirs[d].path # None}
Committed == {d \in Dirs : \E c \in Contents : dirs[d].path = Snapshot(c)}

\* The cache as finished runs leave it.
Init ==
  /\ \E c \in {f \in [Earlier -> Contents] : IsInjective(f)} :
       dirs = [d \in Dirs |->
         IF d \in Earlier
           THEN [path |-> Snapshot(c[d]), content |-> c[d], files |-> Files, bad |-> {}]
           ELSE [path |-> None, content |-> None, files |-> {}, bad |-> {}]]
  /\ completed \in SetToSeqs(Earlier)
  /\ newer = {e \in Earlier \X Earlier : \E j \in DOMAIN completed : \E i \in 1 .. j - 1 :
               e = <<completed[j], completed[i]>>}
  /\ indexed = [d \in Dirs |->
       IF d \in Earlier THEN (CHOOSE i \in DOMAIN completed : completed[i] = d) - 1 ELSE 0]
  /\ stale = {} /\ opened = {} /\ suspended = {}
  /\ run = [p \in Runs |-> NewRun]
  /\ client = [k \in Clients |-> IdleClient]
  /\ faults = 0

Succeeds == UNCHANGED faults
Fails == faults < MaxFaults /\ faults' = faults + 1

\* The modification times without those of D, and with d as the latest.
Forgotten(D) == newer \cap ((Dirs \ D) \X (Dirs \ D))
Touched(d) == Forgotten({d}) \cup ({d} \X (Existing \ {d}))

Go(p, pc) == run' = [run EXCEPT ![p].pc = pc]

-----------------------------------------------------------------------------
(* refresh_with and persist_snapshot *)

\* Drop for Staging: whatever the outcome, the own staging path is removed last.
Finish(p, ok, doomed) ==
  run' = [run EXCEPT ![p].pc = "remove", ![p].ok = ok,
                     ![p].doomed = Append(doomed, Staging(p))]

\* A list cannot be downloaded, is invalid or does not compile, or the directory
\* cannot be made: nothing is written.
DownloadFails(p) ==
  /\ run[p].pc = "download"
  /\ Go(p, "answer")
  /\ UNCHANGED <<dirs, newer, stale, client, history, faults>>

Stage(p) ==
  /\ run[p].pc = "download"
  /\ Go(p, "write")
  /\ dirs' = [dirs EXCEPT ![p] =
       [path |-> Staging(p), content |-> run[p].content, files |-> {}, bad |-> {}]]
  /\ newer' = Touched(p)
  /\ UNCHANGED <<stale, client, history, faults>>

\* Mutant: the directory is renamed while the index is still to be written.
WriteShort(p) ==
  /\ run[p].pc = "write"
  /\ dirs[p].path = Staging(p)
  /\ Succeeds
  /\ dirs' = [dirs EXCEPT ![p].files = @ \cup {WriteOrder[run[p].at]}]
  /\ newer' = Touched(p)
  /\ stale' = stale \ {p}
  /\ run' = [run EXCEPT ![p].at = @ + 1,
                        ![p].pc = IF run[p].at + 1 = Len(WriteOrder) THEN "check" ELSE "write"]
  /\ indexed' = [indexed EXCEPT ![p] = Len(completed)]
  /\ UNCHANGED <<client, opened, suspended, completed>>

\* write_new: each file once, the index last.
Write(p) ==
  /\ run[p].pc = "write"
  /\ dirs[p].path = Staging(p)
  /\ Succeeds
  /\ dirs' = [dirs EXCEPT ![p].files = @ \cup {WriteOrder[run[p].at]}]
  /\ newer' = Touched(p)
  /\ stale' = stale \ {p}
  /\ run' = [run EXCEPT ![p].at = @ + 1,
                        ![p].pc = IF run[p].at = Len(WriteOrder) THEN "check" ELSE "write"]
  /\ indexed' = [indexed EXCEPT ![p] = Len(completed)]
  /\ UNCHANGED <<client, opened, suspended, completed>>

\* The directory is gone, the disk is full, or a limit is exceeded.
WriteFails(p) ==
  /\ run[p].pc = "write"
  /\ IF dirs[p].path = Staging(p) THEN Fails ELSE Succeeds
  /\ Finish(p, FALSE, << >>)
  /\ UNCHANGED <<dirs, newer, stale, client, history>>

\* destination.exists()
Check(p) ==
  /\ run[p].pc = "check"
  /\ Go(p, IF At(Snapshot(run[p].content)) = {} THEN "rename" ELSE "compare")
  /\ UNCHANGED <<dirs, newer, stale, client, history, faults>>

Commits(d) ==
  /\ completed' = Append(completed, d)
  /\ UNCHANGED <<opened, suspended, indexed>>

\* An identical snapshot is shared if its index is the same.
Compare(p) ==
  LET existing == At(Snapshot(run[p].content))
      same == {d \in existing : "index" \in dirs[d].files \ dirs[d].bad}
  IN  /\ run[p].pc = "compare"
      /\ IF same = {}
           THEN Finish(p, FALSE, << >>) /\ UNCHANGED history
           ELSE Go(p, "prune") /\ \E d \in same : Commits(d)
      /\ UNCHANGED <<dirs, newer, stale, client, faults>>

\* The staging directory takes its place under the ID, unless it is gone or another
\* run put a directory there that is not empty.
CanRename(p) ==
  /\ dirs[p].path = Staging(p)
  /\ \A d \in At(Snapshot(run[p].content)) : dirs[d].files = {}

Rename(p) ==
  /\ run[p].pc = "rename"
  /\ CanRename(p)
  /\ Succeeds
  /\ dirs' = [d \in Dirs |->
       IF d = p THEN [dirs[d] EXCEPT !.path = Snapshot(run[p].content)]
       ELSE IF d \in At(Snapshot(run[p].content)) THEN [dirs[d] EXCEPT !.path = None]
       ELSE dirs[d]]
  /\ newer' = Forgotten(At(Snapshot(run[p].content)))
  /\ stale' = stale \ {p}
  /\ Go(p, "prune")
  /\ Commits(p)
  /\ UNCHANGED client

RenameFails(p) ==
  /\ run[p].pc = "rename"
  /\ IF CanRename(p) THEN Fails ELSE Succeeds
  /\ Finish(p, FALSE, << >>)
  /\ UNCHANGED <<dirs, newer, stale, client, history>>

-----------------------------------------------------------------------------
(* prune_snapshots and the removal of directories *)

\* Mutant: the own snapshot is not put first.
BeforeByTime(p, d, e) == <<d, e>> \in newer

\* Committed directories in the order of the sort: the current one, then the
\* latest modified.
Before(p, d, e) ==
  IF (dirs[d].path = Snapshot(run[p].content)) # (dirs[e].path = Snapshot(run[p].content))
    THEN dirs[d].path = Snapshot(run[p].content)
    ELSE <<d, e>> \in newer

\* Mutant: one snapshot more is kept.
ExcessLoose(p) ==
  {d \in Committed : Cardinality({e \in Committed \ {d} : Before(p, e, d)}) > KEEP_SNAPSHOTS}

Excess(p) ==
  {d \in Committed : Cardinality({e \in Committed \ {d} : Before(p, e, d)}) >= KEEP_SNAPSHOTS}

\* Mutant: the age of staging directories is not looked at.
StagingOfAnyAge == {d \in Runs : dirs[d].path = Staging(d)}

StaleStaging == {d \in stale : dirs[d].path = Staging(d)}

\* The directory is read at once here, in any order; its entries are looked up one by one.
Prune(p) ==
  /\ run[p].pc = "prune"
  /\ \E staging \in SetToSeqs(StaleStaging) :
     \E excess \in SetToSeqs(Excess(p)) :
       LET doomed == staging \o excess
       IN  /\ \A j \in DOMAIN excess : \A i \in 1 .. j - 1 : Before(p, excess[i], excess[j])
           /\ Finish(p, TRUE, [i \in DOMAIN doomed |-> dirs[doomed[i]].path])
  /\ UNCHANGED <<dirs, newer, stale, client, history, faults>>

Doomed(p) == Head(run[p].doomed)

\* remove_dir_all by path; nothing there is no error.
Open(p) ==
  /\ run[p].pc = "remove" /\ run[p].handle = None /\ run[p].doomed # << >>
  /\ \/ /\ At(Doomed(p)) = {}
        /\ run' = [run EXCEPT ![p].doomed = Tail(@)]
        /\ UNCHANGED opened
     \/ \E d \in At(Doomed(p)) :
          /\ run' = [run EXCEPT ![p].handle = d]
          /\ opened' = opened \cup {d}
  /\ UNCHANGED <<dirs, newer, stale, client, suspended, completed, indexed, faults>>

Unlink(p) ==
  /\ run[p].pc = "remove" /\ run[p].handle # None
  /\ \E f \in dirs[run[p].handle].files :
       dirs' = [dirs EXCEPT ![run[p].handle].files = @ \ {f}, ![run[p].handle].bad = @ \ {f}]
  /\ newer' = Touched(run[p].handle)
  /\ stale' = stale \ {run[p].handle}
  /\ UNCHANGED <<run, client, history, faults>>

\* The directory itself is removed by its path.
RemoveDir(p) ==
  LET d == run[p].handle
      there == d # None /\ dirs[d].path = Doomed(p)
  IN  /\ run[p].pc = "remove" /\ d # None
      /\ dirs[d].files = {}
      /\ dirs' = IF there THEN [dirs EXCEPT ![d].path = None] ELSE dirs
      /\ newer' = IF there THEN Forgotten({d}) ELSE newer
      /\ stale' = IF there THEN stale \ {d} ELSE stale
      /\ run' = [run EXCEPT ![p].handle = None, ![p].doomed = Tail(@)]
      /\ UNCHANGED <<client, history, faults>>

\* A failed removal is not reported and not repeated.
RemoveFails(p) ==
  /\ run[p].pc = "remove" /\ run[p].handle # None
  /\ Fails
  /\ run' = [run EXCEPT ![p].handle = None, ![p].doomed = Tail(@)]
  /\ UNCHANGED <<dirs, newer, stale, client, history>>

Removed(p) ==
  /\ run[p].pc = "remove" /\ run[p].doomed = << >>
  /\ Go(p, "answer")
  /\ UNCHANGED <<dirs, newer, stale, client, history, faults>>

-----------------------------------------------------------------------------
(* NativeClient.refresh *)

Waiting(k, p) == client[k].pc = "refresh" /\ client[k].run = p
Told(p, answer) == [k \in Clients |-> IF Waiting(k, p) THEN answer ELSE client[k]]

\* A client has one refresh at a time (or is not of interest, then it is None).
Request(p, c) ==
  /\ run[p].pc = "new"
  /\ run' = [run EXCEPT ![p].pc = "download", ![p].content = c]
  /\ \/ \E k \in Clients :
          /\ client[k].pc \in {"idle", "done"}
          /\ client' = [client EXCEPT ![k] = [IdleClient EXCEPT !.pc = "refresh", !.run = p]]
     \/ UNCHANGED client
  /\ UNCHANGED <<dirs, newer, stale, history, faults>>

\* The manifest is taken by the client that still waits for this request.
Answer(p) ==
  /\ run[p].pc = "answer"
  /\ Go(p, "done")
  /\ client' = Told(p, IF run[p].ok
       THEN [IdleClient EXCEPT !.pc = "index", !.content = run[p].content]
       ELSE IdleClient)
  /\ UNCHANGED <<dirs, newer, stale, history, faults>>

\* The process is stopped; its client sees the connection close.
Crash(p) ==
  /\ run[p].pc \notin {"new", "done"}
  /\ Fails
  /\ run' = [run EXCEPT ![p].pc = "done", ![p].ok = FALSE, ![p].handle = None, ![p].doomed = << >>]
  /\ client' = Told(p, IdleClient)
  /\ UNCHANGED <<dirs, newer, stale, history>>

\* Ten minutes pass for what a stopped run left, or for a suspended one.
Age(d) ==
  /\ dirs[d].path = Staging(d) /\ d \notin stale
  /\ stale' = stale \cup {d}
  /\ IF run[d].pc = "done"
       THEN UNCHANGED <<suspended, faults>>
       ELSE suspended' = suspended \cup {d} /\ Fails
  /\ UNCHANGED <<dirs, newer, run, client, opened, completed, indexed>>

\* The request timed out or its answer is invalid; the companion is not told.
GiveUp(k) ==
  /\ client[k].pc \in {"refresh", "index", "manifest", "page"}
  /\ client' = [client EXCEPT ![k] = IdleClient]
  /\ UNCHANGED <<dirs, newer, stale, run, history, faults>>

-----------------------------------------------------------------------------
(* page_at, in a process of its own for each page *)

Sound(k, f) == \E d \in At(Snapshot(client[k].content)) : f \in dirs[d].files \ dirs[d].bad
NextPage(k) == Pages[Len(client[k].got) + 1]

\* A file is read by its path and its digest compared; otherwise the request, and
\* with it the refresh, fails.
Read(k, checked, then) ==
  /\ client' = [client EXCEPT ![k] = IF checked THEN then ELSE IdleClient]
  /\ UNCHANGED <<dirs, newer, stale, run, history, faults>>

ReadIndex(k) ==
  /\ client[k].pc = "index"
  /\ Read(k, Sound(k, "index"), [client[k] EXCEPT !.pc = "manifest"])

ReadManifest(k) ==
  /\ client[k].pc = "manifest"
  /\ Read(k, Sound(k, "manifest"), [client[k] EXCEPT !.pc = "page"])

Received(k, f) ==
  [client[k] EXCEPT
     !.got = Append(@, [page |-> f, content |-> client[k].content, sound |-> Sound(k, f)]),
     !.pc = IF Len(client[k].got) + 1 = Len(Pages) THEN "done" ELSE "index"]

\* Mutant: the digest of a page is not compared.
ReadPageUnchecked(k) ==
  /\ client[k].pc = "page"
  /\ Read(k, \E d \in At(Snapshot(client[k].content)) : NextPage(k) \in dirs[d].files,
          Received(k, NextPage(k)))

ReadPage(k) ==
  /\ client[k].pc = "page"
  /\ Read(k, Sound(k, NextPage(k)), Received(k, NextPage(k)))

\* The disk, or somebody, damages a file.
Damage ==
  /\ Fails
  /\ \E d \in Committed : \E f \in dirs[d].files \ dirs[d].bad :
       dirs' = [dirs EXCEPT ![d].bad = @ \cup {f}]
  /\ UNCHANGED <<newer, stale, run, client, history>>

-----------------------------------------------------------------------------
Refreshing(p) ==
  \/ DownloadFails(p) \/ Stage(p) \/ Write(p) \/ WriteFails(p) \/ Check(p) \/ Compare(p)
  \/ Rename(p) \/ RenameFails(p) \/ Prune(p) \/ Open(p) \/ Unlink(p) \/ RemoveDir(p)
  \/ RemoveFails(p) \/ Removed(p) \/ Answer(p)

Paging(k) == ReadIndex(k) \/ ReadManifest(k) \/ ReadPage(k) \/ GiveUp(k)

Next ==
  \/ \E p \in Runs : (\E c \in Contents : Request(p, c)) \/ Refreshing(p) \/ Crash(p) \/ Age(p)
  \/ \E k \in Clients : Paging(k)
  \/ Damage

Spec == Init /\ [][Next]_vars

-----------------------------------------------------------------------------
(* Properties. *)

DirStates ==
  [path : Paths \cup {None}, content : Contents \cup {None}, files : SUBSET Files, bad : SUBSET Files]

RunStates ==
  [pc : {"new", "download", "write", "check", "compare", "rename", "prune", "remove", "answer",
         "done"},
   content : Contents \cup {None}, at : 1 .. Len(WriteOrder) + 1, doomed : Seq(Paths),
   handle : Dirs \cup {None}, ok : BOOLEAN]

ClientStates ==
  [pc : {"idle", "refresh", "index", "manifest", "page", "done"},
   run : Runs \cup {None}, content : Contents \cup {None},
   got : Seq([page : ToSet(Pages), content : Contents, sound : BOOLEAN])]

\* No two directories were modified at the same time.
Ordered ==
  /\ newer \subseteq Existing \X Existing
  /\ \A d, e \in Existing : <<d, e>> \in newer <=> d # e /\ <<e, d>> \notin newer
  /\ \A d, e, f \in Existing : <<d, e>> \in newer /\ <<e, f>> \in newer => <<d, f>> \in newer

\* Types of all variables; no two directories have the same path or were modified at
\* the same time.
TypeOK ==
  /\ dirs \in [Dirs -> DirStates]
  /\ \A d, e \in Existing : d # e => dirs[d].path # dirs[e].path
  /\ Ordered
  /\ stale \in SUBSET Runs /\ opened \in SUBSET Dirs /\ suspended \in SUBSET Runs
  /\ run \in [Runs -> RunStates]
  /\ client \in [Clients -> ClientStates]
  /\ completed \in Seq(Dirs) /\ indexed \in [Dirs -> Nat]
  /\ faults \in Nat

\* A client that has assembled a snapshot has every page of the one it was told,
\* in order and undamaged, whatever happened to the cache while it was paging.
AssembledGenuine ==
  \A k \in Clients : client[k].pc = "done" =>
    client[k].got = [i \in DOMAIN Pages |->
      [page |-> Pages[i], content |-> client[k].content, sound |-> TRUE]]

\* What is found under an ID is complete and of that content, from its first moment
\* on, unless a removal of it was begun; a stopped run never leaves half of one, and no
\* two directories share a path (TypeOK has that).
CommittedComplete ==
  /\ TypeOK
  /\ \A d \in Committed \ opened :
       dirs[d].files = Files /\ dirs[d].path = Snapshot(dirs[d].content)

\* A run that was never suspended for ten minutes keeps every file it staged until
\* it commits or gives up, whatever other runs prune.
StagingOwned ==
  \A p \in Runs \ suspended :
    run[p].pc \in {"write", "check", "compare", "rename"} =>
      /\ dirs[p].path = Staging(p)
      /\ dirs[p].files = {WriteOrder[i] : i \in 1 .. run[p].at - 1}

Pruning == {p \in Runs : run[p].pc \in {"prune", "remove"}}

\* Apart from runs that are still pruning, and from runs that were stopped or could
\* not remove a directory, no more than KEEP_SNAPSHOTS snapshots remain.
CacheBounded ==
  Cardinality(Committed) <= KEEP_SNAPSHOTS + Cardinality(Pruning) + faults

Listed(p) == {d \in Committed : \E i \in DOMAIN run'[p].doomed : run'[p].doomed[i] = dirs[d].path}

\* Commits of others since d's index was written, and since d was committed.
SinceIndexed(d) == {i \in indexed[d] + 1 .. Len(completed) : completed[i] # d}
SinceCompleted(d) ==
  {i \in DOMAIN completed : \A j \in DOMAIN completed : completed[j] = d => j < i}

\* Pruning spares the run's own snapshot and every other after whose index was
\* written fewer than KEEP_SNAPSHOTS - 1 others were committed, so that this many clients
\* can page beside the run's own; provided no directory it finds is half removed, for
\* removing a file makes a directory the latest modified.
PruneSparesLatest ==
  [][\A p \in Runs :
       (run[p].pc = "prune" /\ run'[p].pc = "remove"
          /\ \A d \in Committed : dirs[d].files = Files)
         => \A d \in Listed(p) : /\ dirs[d].path # Snapshot(run[p].content)
                                 /\ Cardinality(SinceIndexed(d)) >= KEEP_SNAPSHOTS - 1]_vars

\* What the protocol's description says: the latest completed snapshots are
\* retained, those after which fewer than KEEP_SNAPSHOTS others were completed; here
\* for runs none of which shared an identical snapshot.
LatestRetained ==
  [][\A p \in Runs :
       (run[p].pc = "prune" /\ run'[p].pc = "remove" /\ IsInjective(completed))
         => \A d \in Listed(p) : Cardinality(SinceCompleted(d)) >= KEEP_SNAPSHOTS]_vars
=============================================================================
