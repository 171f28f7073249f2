-------------------------- MODULE SnapshotStoreProofs --------------------------
(***************************************************************************)
(* What is proved of SnapshotStore, for any number of runs, clients,       *)
(* contents, pages, kept snapshots and faults.                             *)
(*                                                                         *)
(* StoreInv is inductive and gives TypeOK; OwnedInv adds who may have      *)
(* changed a directory, RecentInv what modification times tell of commits, *)
(* and BoundedInv what is left when the runs that prune are done.          *)
(***************************************************************************)
EXTENDS SnapshotStore, FiniteSetTheorems, WellFoundedInduction, TLAPS

Snapshots == {Snapshot(c) : c \in Contents}
Written(n) == {WriteOrder[i] : i \in 1 .. n}

Staged == {"write", "check", "compare", "rename"}
Late == {"prune", "remove", "answer", "done"}

\* A directory is where it was staged or under an ID, and without files once it is gone.
DirsOK ==
  \A d \in Dirs : /\ dirs[d].path \in {None, Staging(d)} \cup Snapshots
                  /\ dirs[d].path = None => dirs[d].files = {}

RunOK(r, path) ==
  /\ r.pc # "new" => r.content \in Contents
  /\ r.pc \in {"new", "download"} => r.at = 1 /\ path = None
  /\ r.pc = "write" => r.at <= Len(WriteOrder)
  /\ r.pc \in Staged \ {"write"} => r.at = Len(WriteOrder) + 1
  /\ r.handle # None => r.pc = "remove" /\ r.doomed # << >>

RunsOK == \A p \in Runs : RunOK(run[p], dirs[p].path)

\* What a client has so far: the first pages of the snapshot it was told, undamaged.
ClientOK(c) ==
  /\ c.pc \notin {"idle", "refresh"} => c.content \in Contents
  /\ c.pc \in {"index", "manifest", "page"} => Len(c.got) < Len(Pages)
  /\ c.pc \in {"idle", "refresh"} => c.got = << >>
  /\ c.pc = "done" => Len(c.got) = Len(Pages)
  /\ \A i \in 1 .. Len(c.got) :
       c.got[i] = [page |-> Pages[i], content |-> c.content, sound |-> TRUE]

ClientsOK == \A k \in Clients : ClientOK(client[k])

StoreInv == TypeOK /\ DirsOK /\ RunsOK /\ ClientsOK

\* A removal is begun only of what was committed or of what a suspended or finished run
\* staged; until then its files are those its run wrote.
Released(p) == p \in suspended \/ run[p].pc \in Late

FreshOK ==
  \A p \in Runs : run[p].pc \in {"new", "download"} => p \notin stale \cup opened \cup suspended

StagedOK ==
  \A p \in Runs \ opened : run[p].pc \in Staged =>
    /\ dirs[p].path = Staging(p)
    /\ dirs[p].content = run[p].content
    /\ dirs[p].files = Written(run[p].at - 1)

RemovalsOK ==
  /\ \A p \in Runs : dirs[p].path \in Snapshots => run[p].pc \in Late
  /\ \A p \in Runs \cap opened : Released(p)
  /\ \A p \in stale : p \in suspended \/ run[p].pc = "done"
  /\ \A p, q \in Runs : Staging(p) \in ToSet(run[q].doomed) => Released(p)
  /\ \A p \in Runs : run[p].handle # None => run[p].handle \in opened

CommittedOK ==
  \A d \in Committed \ opened : dirs[d].files = Files /\ dirs[d].path = Snapshot(dirs[d].content)

OwnedInv == FreshOK /\ StagedOK /\ RemovalsOK /\ CommittedOK

\* What was modified after a directory's index was written, and is whole, was
\* committed since.
RecentInv ==
  /\ \A d \in Dirs : indexed[d] <= Len(completed)
  /\ \A d, e \in Existing : <<e, d>> \in newer /\ e \in Committed /\ dirs[e].files = Files =>
       \E i \in indexed[d] + 1 .. Len(completed) : completed[i] = e

Removing == {p \in Runs : run[p].pc = "remove"}

\* The snapshots that are gone when p has removed what it is about to remove.
WillRemove(p) ==
  {d \in Committed : \E i \in 1 .. Len(run[p].doomed) :
     dirs[d].path = run[p].doomed[i] /\ (i = 1 => run[p].handle \in {None, d})}

\* What remains when the runs P have removed it.
Left(P) == {d \in Committed : \A p \in P : d \notin WillRemove(p)}

\* Whichever of the removing runs get to their end (a fault makes up for one that does
\* not), what remains is bounded.
BoundedInv ==
  \A P \in SUBSET Removing :
    Cardinality(Left(P)) <= KEEP_SNAPSHOTS + Cardinality(Pruning \ P) + faults


-----------------------------------------------------------------------------
(* Paths and files. *)

\* Staging paths and IDs are different paths, one for each directory and each content.
LEMMA Locations ==
  /\ \A d \in Dirs : Staging(d) \in Paths \ {None}
  /\ \A c \in Contents : Snapshot(c) \in Paths \ {None}
  /\ \A d, e \in Dirs : Staging(d) = Staging(e) => d = e
  /\ \A c, b \in Contents : Snapshot(c) = Snapshot(b) => c = b
  /\ \A d \in Dirs : Staging(d) \notin Snapshots
  /\ Snapshots \subseteq Paths /\ None \notin Snapshots
<1>1. /\ \A d \in Dirs : Staging(d) \in Paths
      /\ \A c \in Contents : Snapshot(c) \in Paths
      /\ Snapshots \subseteq Paths
  BY DEF Paths, Snapshots
<1>2. /\ \A d, e \in Dirs : Staging(d) = Staging(e) => d = e
      /\ \A c, b \in Contents : Snapshot(c) = Snapshot(b) => c = b
      /\ \A d \in Dirs, c \in Contents : Staging(d) # Snapshot(c)
  BY DEF Staging, Snapshot
<1>3. \A d \in Dirs : Staging(d) \notin Snapshots
  BY <1>2 DEF Snapshots
<1> QED BY <1>1, <1>2, <1>3, NoneAssumption

LEMMA Members ==
  /\ Runs \subseteq Dirs /\ Earlier \subseteq Dirs /\ Dirs = Runs \cup Earlier
  /\ None \notin Dirs /\ None \notin Contents
  /\ IsFiniteSet(Dirs) /\ IsFiniteSet(Runs) /\ IsFiniteSet(Earlier)
<1>1. Dirs = Runs \cup Earlier
  BY DEF Dirs
<1>2. IsFiniteSet(Dirs)
  BY <1>1, StoreAssumption
<1> QED BY <1>1, <1>2, FS_Subset, StoreAssumption

\* The files in the order they are written are all files of a snapshot.
LEMMA FilesWritten ==
  /\ Len(Pages) \in Nat \ {0}
  /\ Len(WriteOrder) = Len(Pages) + 2
  /\ \A i \in 1 .. Len(WriteOrder) : WriteOrder[i] \in Files
  /\ Files = Written(Len(WriteOrder))
  /\ \A i \in 1 .. Len(Pages) : Pages[i] \in ToSet(Pages)
  /\ \A n \in Nat : Written(n + 1) = Written(n) \cup {WriteOrder[n + 1]}
  /\ Written(0) = {}
<1> DEFINE two == <<"manifest", "index">>
<1>1. Pages \in Seq(ToSet(Pages)) /\ Len(Pages) \in Nat \ {0}
  BY StoreAssumption
<1>2. two \in Seq({"manifest", "index"}) /\ Len(two) = 2
  OBVIOUS
<1>3. WriteOrder \in Seq(ToSet(Pages) \cup {"manifest", "index"})
      /\ Len(WriteOrder) = Len(Pages) + 2
  BY <1>1, <1>2 DEF WriteOrder
<1>4. DOMAIN WriteOrder = 1 .. Len(WriteOrder)
  BY <1>3
<1>5. \A i \in 1 .. Len(WriteOrder) : WriteOrder[i] \in Files
  BY <1>4 DEF Files, ToSet
<1>6. Files = Written(Len(WriteOrder))
  BY <1>4 DEF Files, ToSet, Written
<1>7. \A i \in 1 .. Len(Pages) : Pages[i] \in ToSet(Pages)
  BY <1>1
<1>8. \A n \in Nat : Written(n + 1) = Written(n) \cup {WriteOrder[n + 1]}
  <2> TAKE n \in Nat
  <2>1. 1 .. n + 1 = (1 .. n) \cup {n + 1}
    OBVIOUS
  <2> QED BY <2>1 DEF Written
<1>9. Written(0) = {}
  BY DEF Written
<1> QED BY <1>1, <1>3, <1>5, <1>6, <1>7, <1>8, <1>9

-----------------------------------------------------------------------------
(* The order of modification. *)

LEMMA OrderKept ==
  ASSUME Ordered, Existing' = Existing, newer' = newer
  PROVE  Ordered'
BY DEF Ordered

LEMMA OrderForgotten ==
  ASSUME Ordered, NEW D, Existing' = Existing \ D, newer' = Forgotten(D)
  PROVE  Ordered'
<1>1. \A d, e \in Dirs \ D : <<d, e>> \in newer' <=> <<d, e>> \in newer
  BY DEF Forgotten
<1>2. Existing \subseteq Dirs
  BY DEF Existing
<1>3. newer' \subseteq Existing' \X Existing'
  BY <1>2 DEF Forgotten, Ordered
<1>4. \A d, e \in Existing' : <<d, e>> \in newer' <=> d # e /\ <<e, d>> \notin newer'
  BY <1>1, <1>2 DEF Ordered
<1>5. \A d, e, f \in Existing' : <<d, e>> \in newer' /\ <<e, f>> \in newer' => <<d, f>> \in newer'
  BY <1>1, <1>2 DEF Ordered
<1> QED BY <1>3, <1>4, <1>5 DEF Ordered

\* The latest modified is newer than all others, whose order stays.
LEMMA OrderTouched ==
  ASSUME Ordered, NEW d \in Dirs, Existing' = Existing \cup {d}, newer' = Touched(d)
  PROVE  /\ Ordered'
         /\ \A a, b \in Existing' : <<a, b>> \in newer' <=>
              \/ a = d /\ b # d
              \/ a # d /\ b # d /\ <<a, b>> \in newer
<1>1. Existing \subseteq Dirs
  BY DEF Existing
<1>2. newer' = Forgotten({d}) \cup ({d} \X (Existing \ {d}))
  BY DEF Touched
<1>3. Forgotten({d}) = newer \cap ((Dirs \ {d}) \X (Dirs \ {d}))
  BY DEF Forgotten
<1>4. \A a, b \in Existing' : <<a, b>> \in newer' <=>
              \/ a = d /\ b # d
              \/ a # d /\ b # d /\ <<a, b>> \in newer
  BY <1>1, <1>2, <1>3
<1>5. newer' \subseteq Existing' \X Existing'
  BY <1>2, <1>3 DEF Ordered
<1>6. \A a, b \in Existing' : <<a, b>> \in newer' <=> a # b /\ <<b, a>> \notin newer'
  BY <1>4 DEF Ordered
<1>7. \A a, b, c \in Existing' : <<a, b>> \in newer' /\ <<b, c>> \in newer' => <<a, c>> \in newer'
  <2> SUFFICES ASSUME NEW a \in Existing', NEW b \in Existing', NEW c \in Existing',
                      <<a, b>> \in newer', <<b, c>> \in newer'
               PROVE  <<a, c>> \in newer'
    OBVIOUS
  <2>1. b # d /\ c # d /\ <<b, c>> \in newer
    BY <1>4
  <2>2. CASE a = d
    BY <2>1, <2>2, <1>4
  <2>3. CASE a # d
    BY <2>1, <2>3, <1>4 DEF Ordered
  <2> QED BY <2>2, <2>3
<1> QED BY <1>4, <1>5, <1>6, <1>7 DEF Ordered

-----------------------------------------------------------------------------
(* What the actions that change directories do to each of them. *)

DirsInv ==
  /\ dirs \in [Dirs -> DirStates]
  /\ \A d, e \in Existing : d # e => dirs[d].path # dirs[e].path
  /\ Ordered
  /\ DirsOK

\* A directory's path, content and files.
Same(d) ==
  /\ dirs'[d].path = dirs[d].path
  /\ dirs'[d].content = dirs[d].content
  /\ dirs'[d].files = dirs[d].files

LEMMA StageEffect ==
  ASSUME StoreInv, NEW p \in Runs, Stage(p)
  PROVE  /\ p \in Dirs /\ dirs[p].path = None /\ dirs[p].files = {}
         /\ dirs' \in [Dirs -> DirStates]
         /\ dirs'[p].path = Staging(p) /\ dirs'[p].content = run[p].content /\ dirs'[p].files = {}
         /\ \A d \in Dirs \ {p} : Same(d)
         /\ Existing' = Existing \cup {p} /\ Committed' = Committed
<1>1. p \in Dirs /\ dirs[p].path = None /\ run[p].content \in Contents /\ dirs[p].files = {}
  BY Members DEF StoreInv, RunsOK, RunOK, DirsOK, Stage
<1>2. DEFINE new == [path |-> Staging(p), content |-> run[p].content, files |-> {}, bad |-> {}]
<1>3. new \in DirStates
  BY <1>1, Locations DEF DirStates
<1>4. dirs' = [dirs EXCEPT ![p] = new]
  BY DEF Stage
<1>5. dirs \in [Dirs -> DirStates]
  BY DEF StoreInv, TypeOK
<1>6. new.path = Staging(p) /\ new.content = run[p].content /\ new.files = {}
  OBVIOUS
<1> HIDE DEF new
<1>7. /\ dirs' \in [Dirs -> DirStates] /\ dirs'[p] = new
      /\ \A d \in Dirs \ {p} : dirs'[d] = dirs[d]
  BY <1>1, <1>3, <1>4, <1>5
<1>8. Existing' = Existing \cup {p}
  BY <1>1, <1>6, <1>7, Locations DEF Existing
<1>9. Committed' = Committed
  <2>1. \A c \in Contents : dirs'[p].path # Snapshot(c) /\ dirs[p].path # Snapshot(c)
    BY <1>1, <1>6, <1>7, Locations DEF Snapshots
  <2> QED BY <1>1, <1>7, <2>1 DEF Committed
<1> QED BY <1>1, <1>6, <1>7, <1>8, <1>9 DEF Same

LEMMA WriteEffect ==
  ASSUME StoreInv, NEW p \in Runs, Write(p)
  PROVE  /\ p \in Existing /\ dirs[p].path = Staging(p)
         /\ dirs' \in [Dirs -> DirStates]
         /\ dirs'[p].path = dirs[p].path /\ dirs'[p].content = dirs[p].content
         /\ dirs'[p].files = dirs[p].files \cup {WriteOrder[run[p].at]}
         /\ \A d \in Dirs \ {p} : Same(d)
         /\ Existing' = Existing /\ Committed' = Committed
         /\ p \notin Committed
<1>1. p \in Dirs /\ dirs[p].path = Staging(p) /\ Staging(p) # None
  BY Members, Locations DEF Write
<1>2. WriteOrder[run[p].at] \in Files
  BY FilesWritten DEF StoreInv, TypeOK, RunStates, RunsOK, RunOK, Write
<1>3. dirs \in [Dirs -> DirStates]
  BY DEF StoreInv, TypeOK
<1>4. dirs' = [dirs EXCEPT ![p].files = @ \cup {WriteOrder[run[p].at]}]
  BY DEF Write
<1> DEFINE new == [dirs[p] EXCEPT !.files = @ \cup {WriteOrder[run[p].at]}]
<1>5. /\ new \in DirStates
      /\ new.path = dirs[p].path /\ new.content = dirs[p].content
      /\ new.files = dirs[p].files \cup {WriteOrder[run[p].at]}
  BY <1>1, <1>2, <1>3 DEF DirStates
<1>6. dirs' = [dirs EXCEPT ![p] = new]
  BY <1>1, <1>3, <1>4
<1> HIDE DEF new
<1>7. /\ dirs' \in [Dirs -> DirStates] /\ dirs'[p] = new
      /\ \A d \in Dirs \ {p} : dirs'[d] = dirs[d]
  BY <1>1, <1>3, <1>5, <1>6
<1>8. \A d \in Dirs : dirs'[d].path = dirs[d].path
  BY <1>5, <1>7
<1>9. Existing' = Existing /\ Committed' = Committed /\ p \in Existing
  BY <1>1, <1>8 DEF Existing, Committed
<1>10. p \notin Committed
  BY <1>1, Locations DEF Committed, Snapshots
<1> QED BY <1>1, <1>5, <1>7, <1>9, <1>10 DEF Same

\* The directories that have the ID's path make way; they are empty.
LEMMA RenameEffect ==
  ASSUME StoreInv, NEW p \in Runs, Rename(p), NEW old, old = At(Snapshot(run[p].content))
  PROVE  /\ p \in Existing \ old /\ run[p].content \in Contents
         /\ dirs[p].path = Staging(p)
         /\ dirs' \in [Dirs -> DirStates]
         /\ dirs'[p].path = Snapshot(run[p].content)
         /\ dirs'[p].content = dirs[p].content /\ dirs'[p].files = dirs[p].files
         /\ \A d \in old : /\ dirs[d].files = {} /\ dirs'[d].files = {}
                           /\ dirs[d].path = Snapshot(run[p].content) /\ dirs'[d].path = None
         /\ \A d \in Dirs \ (old \cup {p}) : Same(d) /\ dirs[d].path # Snapshot(run[p].content)
         /\ Existing' = Existing \ old /\ Committed' = (Committed \ old) \cup {p}
         /\ p \notin Committed
<1> DEFINE target == Snapshot(run[p].content)
<1>1. p \in Dirs /\ run[p].content \in Contents
  BY Members DEF StoreInv, RunsOK, RunOK, Rename
<1>2. target \in Snapshots /\ target \in Paths /\ target # None
  BY <1>1, Locations DEF Snapshots
<1>3. dirs \in [Dirs -> DirStates]
  BY DEF StoreInv, TypeOK
<1>4. /\ dirs[p].path = Staging(p)
      /\ \A d \in old : dirs[d].files = {}
  BY DEF Rename, CanRename
<1>5. p \notin old
  BY <1>1, <1>2, <1>4, Locations DEF At
<1>6. dirs' = [d \in Dirs |->
            IF d = p THEN [dirs[d] EXCEPT !.path = target]
            ELSE IF d \in old THEN [dirs[d] EXCEPT !.path = None]
            ELSE dirs[d]]
  BY DEF Rename
<1>7. old = {d \in Dirs : dirs[d].path = target}
  BY DEF At
<1> HIDE DEF target
<1>8. \A d \in Dirs, path \in Paths \cup {None} : [dirs[d] EXCEPT !.path = path] \in DirStates
  BY <1>3 DEF DirStates
<1>9. dirs' \in [Dirs -> DirStates]
  BY <1>2, <1>3, <1>6, <1>8
<1>10. /\ dirs'[p].path = target
       /\ dirs'[p].content = dirs[p].content /\ dirs'[p].files = dirs[p].files
       /\ \A d \in old : dirs'[d].path = None /\ dirs'[d].files = {}
       /\ \A d \in Dirs \ (old \cup {p}) : dirs'[d] = dirs[d]
  BY <1>1, <1>3, <1>4, <1>5, <1>6, <1>7 DEF DirStates
<1>11. Existing' = Existing \ old /\ p \in Existing
  BY <1>1, <1>2, <1>4, <1>5, <1>7, <1>10, Locations DEF Existing
<1>12. /\ Committed = {d \in Dirs : dirs[d].path \in Snapshots}
       /\ Committed' = {d \in Dirs : dirs'[d].path \in Snapshots}
  BY DEF Committed, Snapshots
<1>13. p \notin Committed
  BY <1>1, <1>4, <1>12, Locations
<1>14. Committed' = (Committed \ old) \cup {p}
  BY <1>1, <1>2, <1>7, <1>10, <1>12, Locations
<1>15. \A d \in old : dirs[d].path = target
  BY <1>7
<1>16. \A d \in Dirs \ (old \cup {p}) : dirs[d].path # target
  BY <1>7
<1> QED BY <1>1, <1>4, <1>5, <1>9, <1>10, <1>11, <1>13, <1>14, <1>15, <1>16 DEF target, Same

LEMMA UnlinkEffect ==
  ASSUME StoreInv, NEW p \in Runs, Unlink(p)
  PROVE  LET h == run[p].handle IN
         /\ h \in Existing
         /\ dirs' \in [Dirs -> DirStates]
         /\ dirs'[h].path = dirs[h].path /\ dirs'[h].content = dirs[h].content
         /\ dirs'[h].files # Files
         /\ \A d \in Dirs \ {h} : Same(d)
         /\ Existing' = Existing /\ Committed' = Committed
<1> DEFINE h == run[p].handle
<1>1. h \in Dirs
  BY DEF StoreInv, TypeOK, RunStates, Unlink
<1>2. PICK f \in dirs[h].files :
        dirs' = [dirs EXCEPT ![h].files = @ \ {f}, ![h].bad = @ \ {f}]
  BY DEF Unlink
<1>3. dirs \in [Dirs -> DirStates]
  BY DEF StoreInv, TypeOK
<1> HIDE DEF h
<1>4. dirs[h].path # None
  BY <1>1, <1>2 DEF StoreInv, DirsOK
<1> DEFINE left == [dirs[h] EXCEPT !.files = @ \ {f}, !.bad = @ \ {f}]
<1>5. /\ left \in DirStates /\ left.path = dirs[h].path /\ left.content = dirs[h].content
      /\ left.files = dirs[h].files \ {f}
  BY <1>1, <1>3 DEF DirStates
<1>6. left.files # Files
  BY <1>1, <1>3, <1>5 DEF DirStates
<1>7. dirs' = [dirs EXCEPT ![h] = left]
  BY <1>1, <1>2, <1>3 DEF DirStates
<1> HIDE DEF left
<1>8. dirs' \in [Dirs -> DirStates] /\ dirs'[h] = left /\ \A d \in Dirs \ {h} : dirs'[d] = dirs[d]
  BY <1>1, <1>3, <1>5, <1>7
<1>9. \A d \in Dirs : dirs'[d].path = dirs[d].path
  BY <1>5, <1>8
<1>10. Existing' = Existing /\ Committed' = Committed /\ h \in Existing
  BY <1>1, <1>4, <1>9 DEF Existing, Committed
<1> QED BY <1>5, <1>6, <1>8, <1>10 DEF h, Same

\* The directory is gone if it still was where it was looked up.
LEMMA RemoveDirEffect ==
  ASSUME StoreInv, NEW p \in Runs, RemoveDir(p)
  PROVE  LET h == run[p].handle IN
         /\ h \in Dirs /\ dirs[h].files = {}
         /\ dirs' \in [Dirs -> DirStates]
         /\ \A d \in Dirs \ {h} : Same(d)
         /\ dirs'[h].content = dirs[h].content /\ dirs'[h].files = {}
         /\ \/ /\ dirs[h].path # Doomed(p)
               /\ dirs' = dirs /\ newer' = newer /\ stale' = stale
            \/ /\ dirs[h].path = Doomed(p) /\ dirs'[h].path = None
               /\ Existing' = Existing \ {h} /\ newer' = Forgotten({h})
               /\ Committed' = Committed \ {h} /\ stale' = stale \ {h}
<1> DEFINE h == run[p].handle
<1>1. h \in Dirs /\ dirs[h].files = {}
  BY DEF StoreInv, TypeOK, RunStates, RemoveDir
<1>2. dirs \in [Dirs -> DirStates]
  BY DEF StoreInv, TypeOK
<1>3. CASE dirs[h].path # Doomed(p)
  <2>1. dirs' = dirs /\ newer' = newer /\ stale' = stale
    BY <1>3 DEF RemoveDir
  <2> QED BY <1>1, <1>2, <1>3, <2>1 DEF Same
<1>4. CASE dirs[h].path = Doomed(p)
  <2>1. /\ dirs' = [dirs EXCEPT ![h].path = None] /\ newer' = Forgotten({h})
        /\ stale' = stale \ {h}
    BY <1>4 DEF RemoveDir
  <2> HIDE DEF h
  <2>2. [dirs[h] EXCEPT !.path = None] \in DirStates
    BY <1>1, <1>2 DEF DirStates
  <2>3. dirs' \in [Dirs -> DirStates]
    BY <1>1, <1>2, <2>1, <2>2
  <2>4. /\ dirs'[h].path = None /\ dirs'[h].files = {} /\ dirs'[h].content = dirs[h].content
        /\ \A d \in Dirs \ {h} : dirs'[d] = dirs[d]
    BY <1>1, <1>2, <2>1 DEF DirStates
  <2>5. Existing' = Existing \ {h}
    BY <1>1, <2>4 DEF Existing
  <2>6. Committed' = Committed \ {h}
    <3>1. /\ Committed = {d \in Dirs : dirs[d].path \in Snapshots}
          /\ Committed' = {d \in Dirs : dirs'[d].path \in Snapshots}
      BY DEF Committed, Snapshots
    <3> QED BY <1>1, <2>4, <3>1, Locations
  <2> QED BY <1>1, <1>4, <2>1, <2>3, <2>4, <2>5, <2>6 DEF h, Same
<1> QED BY <1>3, <1>4

LEMMA DamageEffect ==
  ASSUME StoreInv, Damage
  PROVE  /\ dirs' \in [Dirs -> DirStates]
         /\ \A d \in Dirs : Same(d)
         /\ Existing' = Existing /\ Committed' = Committed
<1>1. PICK d \in Committed : \E f \in dirs[d].files \ dirs[d].bad :
        dirs' = [dirs EXCEPT ![d].bad = @ \cup {f}]
  BY DEF Damage
<1>2. PICK f \in dirs[d].files \ dirs[d].bad : dirs' = [dirs EXCEPT ![d].bad = @ \cup {f}]
  BY <1>1
<1>3. d \in Dirs /\ dirs \in [Dirs -> DirStates]
  BY DEF Committed, StoreInv, TypeOK
<1>4. [dirs[d] EXCEPT !.bad = @ \cup {f}] \in DirStates
  BY <1>2, <1>3 DEF DirStates
<1>5. dirs' \in [Dirs -> DirStates]
  BY <1>2, <1>3, <1>4
<1>6. \A e \in Dirs : Same(e)
  BY <1>2, <1>3 DEF DirStates, Same
<1>7. Existing' = Existing /\ Committed' = Committed
  BY <1>6 DEF Existing, Committed, Same
<1> QED BY <1>5, <1>6, <1>7

\* Steps that leave the directories alone, except for the stale ones.
DirsStill == UNCHANGED <<dirs, newer>>

LEMMA DirsCases ==
  ASSUME [Next]_vars
  PROVE  \/ \E p \in Runs : Stage(p) \/ Write(p) \/ Rename(p) \/ Unlink(p) \/ RemoveDir(p)
         \/ Damage
         \/ DirsStill
<1>1. \A p \in Runs : \/ (\E c \in Contents : Request(p, c)) \/ Crash(p) \/ Age(p) \/ DownloadFails(p)
                      \/ WriteFails(p) \/ Check(p) \/ Compare(p) \/ RenameFails(p) \/ Prune(p)
                      \/ Open(p) \/ RemoveFails(p) \/ Removed(p) \/ Answer(p)
                      => DirsStill
  BY DEF Request, Crash, Age, DownloadFails, WriteFails, Check, Compare, RenameFails, Prune,
         Open, RemoveFails, Removed, Answer, DirsStill
<1>2. \A k \in Clients : Paging(k) => DirsStill
  BY DEF Paging, ReadIndex, ReadManifest, ReadPage, Read, GiveUp, DirsStill
<1>3. UNCHANGED vars => DirsStill
  BY DEF vars, DirsStill
<1> QED BY <1>1, <1>2, <1>3 DEF Next, Refreshing

-----------------------------------------------------------------------------
(* Types: directories. *)

\* Paths stay, and no file is lost or found in a directory that is gone.
LEMMA PathsStay ==
  ASSUME DirsInv, \A d \in Dirs : dirs'[d].path = dirs[d].path,
         \A d \in Dirs : dirs'[d].path = None => dirs'[d].files = {}
  PROVE  /\ Existing' = Existing
         /\ \A d, e \in Existing' : d # e => dirs'[d].path # dirs'[e].path
         /\ DirsOK'
BY DEF DirsInv, Existing, DirsOK

LEMMA DirsStep == StoreInv /\ [Next]_vars => DirsInv'
<1> SUFFICES ASSUME StoreInv, [Next]_vars PROVE DirsInv'
  OBVIOUS
<1>0. DirsInv
  BY DEF StoreInv, TypeOK, DirsInv
<1>1. ASSUME NEW p \in Runs, Stage(p) PROVE DirsInv'
  <2>1. newer' = Touched(p)
    BY <1>1 DEF Stage
  <2>2. Ordered'
    BY <1>0, <1>1, <2>1, StageEffect, OrderTouched DEF DirsInv
  <2>3. DirsOK'
    BY <1>0, <1>1, StageEffect, Locations DEF DirsInv, DirsOK, Same
  <2>4. \A d \in Existing : dirs[d].path # Staging(p)
    BY <1>0, <1>1, StageEffect, Locations DEF DirsInv, DirsOK, Existing
  <2>5. \A d, e \in Existing' : d # e => dirs'[d].path # dirs'[e].path
    BY <1>0, <1>1, <2>4, StageEffect DEF DirsInv, Existing, Same
  <2> QED BY <1>1, <2>2, <2>3, <2>5, StageEffect DEF DirsInv
<1>2. ASSUME NEW p \in Runs, Write(p) PROVE DirsInv'
  <2>1. newer' = Touched(p)
    BY <1>2 DEF Write
  <2>2. p \in Dirs /\ Existing' = Existing \cup {p}
    BY <1>2, WriteEffect DEF Existing
  <2>3. Ordered'
    BY <1>0, <2>1, <2>2, OrderTouched DEF DirsInv
  <2>4. /\ \A d \in Dirs : dirs'[d].path = dirs[d].path
        /\ \A d \in Dirs : dirs'[d].path = None => dirs'[d].files = {}
    BY <1>0, <1>2, WriteEffect DEF DirsInv, DirsOK, Existing, Same
  <2> QED BY <1>0, <1>2, <2>3, <2>4, PathsStay, WriteEffect DEF DirsInv
<1>3. ASSUME NEW p \in Runs, Rename(p) PROVE DirsInv'
  <2> DEFINE old == At(Snapshot(run[p].content))
  <2>1. newer' = Forgotten(old)
    BY <1>3 DEF Rename
  <2>2. Snapshot(run[p].content) \in Snapshots
    BY <1>3, RenameEffect DEF Snapshots
  <2>3. old \subseteq Dirs
    BY DEF At
  <2>4. Existing' = Existing \ old
    BY <1>3, RenameEffect
  <2>5. Ordered'
    BY <1>0, <2>1, <2>4, OrderForgotten DEF DirsInv
  <2> HIDE DEF old
  <2>6. /\ dirs'[p].path = Snapshot(run[p].content) /\ p \in Existing \ old
        /\ dirs'[p].files = dirs[p].files /\ dirs' \in [Dirs -> DirStates]
        /\ \A d \in old : dirs'[d].path = None /\ dirs'[d].files = {}
        /\ \A d \in Dirs \ (old \cup {p}) : Same(d) /\ dirs[d].path # Snapshot(run[p].content)
    BY <1>3, RenameEffect DEF old
  <2>7. DirsOK'
    <3> SUFFICES ASSUME NEW d \in Dirs
                 PROVE  /\ dirs'[d].path \in {None, Staging(d)} \cup Snapshots
                        /\ dirs'[d].path = None => dirs'[d].files = {}
      BY DEF DirsOK
    <3>1. CASE d = p
      BY <2>2, <2>6, <3>1, Locations
    <3>2. CASE d \in old
      BY <2>6, <3>2
    <3>3. CASE d \notin old \cup {p}
      BY <1>0, <2>6, <3>3 DEF DirsInv, DirsOK, Same
    <3> QED BY <3>1, <3>2, <3>3
  <2>8. \A d, e \in Existing' : d # e => dirs'[d].path # dirs'[e].path
    BY <1>0, <2>4, <2>6 DEF DirsInv, Existing, Same
  <2> QED BY <2>5, <2>6, <2>7, <2>8 DEF DirsInv
<1>4. ASSUME NEW p \in Runs, Unlink(p) PROVE DirsInv'
  <2> DEFINE h == run[p].handle
  <2>1. newer' = Touched(h)
    BY <1>4 DEF Unlink
  <2>2. /\ h \in Existing /\ Existing' = Existing /\ dirs' \in [Dirs -> DirStates]
        /\ dirs'[h].path = dirs[h].path
        /\ \A d \in Dirs \ {h} : Same(d)
    BY <1>4, UnlinkEffect
  <2> HIDE DEF h
  <2>3. Ordered'
    BY <1>0, <2>1, <2>2, OrderTouched DEF DirsInv, Existing
  <2>4. /\ \A d \in Dirs : dirs'[d].path = dirs[d].path
        /\ \A d \in Dirs : dirs'[d].path = None => dirs'[d].files = {}
    BY <1>0, <2>2 DEF DirsInv, DirsOK, Existing, Same
  <2> QED BY <1>0, <2>2, <2>3, <2>4, PathsStay DEF DirsInv
<1>5. ASSUME NEW p \in Runs, RemoveDir(p) PROVE DirsInv'
  <2> DEFINE h == run[p].handle
  <2>1. /\ h \in Dirs /\ dirs' \in [Dirs -> DirStates]
        /\ \A d \in Dirs \ {h} : Same(d)
        /\ dirs'[h].files = {}
        /\ \/ dirs' = dirs /\ newer' = newer
           \/ /\ dirs'[h].path = None
              /\ Existing' = Existing \ {h} /\ newer' = Forgotten({h})
    BY <1>5, RemoveDirEffect
  <2> HIDE DEF h
  <2>2. CASE dirs' = dirs /\ newer' = newer
    BY <1>0, <2>2, OrderKept DEF DirsInv, DirsOK, Existing
  <2>3. CASE /\ dirs'[h].path = None
             /\ Existing' = Existing \ {h} /\ newer' = Forgotten({h})
    <3>1. Ordered'
      BY <1>0, <2>3, OrderForgotten DEF DirsInv
    <3>2. DirsOK'
      BY <1>0, <2>1, <2>3 DEF DirsInv, DirsOK, Same
    <3>3. \A d, e \in Existing' : d # e => dirs'[d].path # dirs'[e].path
      BY <1>0, <2>1, <2>3 DEF DirsInv, Existing, Same
    <3> QED BY <2>1, <3>1, <3>2, <3>3 DEF DirsInv
  <2> QED BY <2>1, <2>2, <2>3
<1>6. CASE Damage
  <2>1. newer' = newer
    BY <1>6 DEF Damage
  <2>2. /\ \A d \in Dirs : dirs'[d].path = dirs[d].path
        /\ \A d \in Dirs : dirs'[d].path = None => dirs'[d].files = {}
    BY <1>0, <1>6, DamageEffect DEF DirsInv, DirsOK, Same
  <2>3. Ordered'
    BY <1>0, <1>6, <2>1, DamageEffect, OrderKept DEF DirsInv
  <2> QED BY <1>0, <1>6, <2>2, <2>3, DamageEffect, PathsStay DEF DirsInv
<1>7. CASE DirsStill
  BY <1>0, <1>7, OrderKept DEF DirsInv, DirsOK, Existing, DirsStill
<1> QED BY <1>1, <1>2, <1>3, <1>4, <1>5, <1>6, <1>7, DirsCases

-----------------------------------------------------------------------------
(* Types: runs. *)

\* A set put into a sequence.
LEMMA Listing ==
  ASSUME NEW S, IsFiniteSet(S), NEW s \in SetToSeqs(S)
  PROVE  /\ s \in Seq(S) /\ Len(s) = Cardinality(S)
         /\ S = {s[i] : i \in 1 .. Len(s)}
         /\ \A i, j \in 1 .. Len(s) : s[i] = s[j] => i = j
<1> DEFINE D == 1 .. Cardinality(S)
<1>1. Cardinality(S) \in Nat
  BY FS_CardinalityType
<1>2. s \in [D -> S] /\ \A i, j \in D : s[i] = s[j] => i = j
  BY DEF SetToSeqs
<1>3. s \in Seq(S) /\ Len(s) = Cardinality(S)
  BY <1>1, <1>2
<1>4. s \in Injection(D, S)
  BY <1>2 DEF Injection, IsInjective
<1>5. Cardinality(D) = Cardinality(S)
  BY <1>1, FS_Interval
<1>6. s \in Surjection(D, S)
  BY <1>4, <1>5, FS_Injection
<1>7. \A x \in S : \E i \in D : s[i] = x
  BY <1>6 DEF Surjection
<1> QED BY <1>2, <1>3, <1>7

\* The paths a run removes after pruning: stale staging directories, excess snapshots
\* and its own staging path.
LEMMA PruneDooms ==
  ASSUME TypeOK, NEW p \in Runs, Prune(p)
  PROVE  /\ run[p].pc = "prune"
         /\ UNCHANGED <<dirs, newer, stale, client, history, faults>>
         /\ \E doomed \in Seq(Paths) :
              /\ run' = [run EXCEPT ![p].pc = "remove", ![p].ok = TRUE,
                                    ![p].doomed = Append(doomed, Staging(p))]
              /\ {doomed[i] : i \in 1 .. Len(doomed)}
                   = {dirs[d].path : d \in StaleStaging \cup Excess(p)}
<1>1. PICK staging \in SetToSeqs(StaleStaging), excess \in SetToSeqs(Excess(p)) :
        LET doomed == staging \o excess
        IN Finish(p, TRUE, [i \in DOMAIN doomed |-> dirs[doomed[i]].path])
  BY DEF Prune
<1> DEFINE order == staging \o excess
           doomed == [i \in DOMAIN order |-> dirs[order[i]].path]
<1>2. Finish(p, TRUE, doomed)
  BY <1>1
<1>3. StaleStaging \subseteq Dirs /\ Excess(p) \subseteq Dirs
  BY Members DEF StaleStaging, Excess, Committed, TypeOK
<1>4. IsFiniteSet(StaleStaging) /\ IsFiniteSet(Excess(p))
  BY <1>3, Members, FS_Subset
<1>5. /\ staging \in Seq(StaleStaging)
      /\ StaleStaging = {staging[i] : i \in 1 .. Len(staging)}
  BY <1>4, Listing
<1>6. /\ excess \in Seq(Excess(p))
      /\ Excess(p) = {excess[i] : i \in 1 .. Len(excess)}
  BY <1>4, Listing
<1> DEFINE S == StaleStaging
           E == Excess(p)
<1>7. /\ order \in Seq(S \cup E)
      /\ Len(order) = Len(staging) + Len(excess)
      /\ \A i \in 1 .. Len(staging) : order[i] = staging[i]
      /\ \A i \in 1 .. Len(excess) : order[Len(staging) + i] = excess[i]
  <2> HIDE DEF S, E
  <2>1. staging \in Seq(S \cup E) /\ excess \in Seq(S \cup E)
    BY <1>5, <1>6 DEF S, E
  <2> QED BY <2>1
<1> HIDE DEF order
<1>8. \A i \in 1 .. Len(order) : order[i] \in S \cup E
  BY <1>7
<1>9. \A d \in S \cup E : \E i \in 1 .. Len(order) : order[i] = d
  <2> SUFFICES ASSUME NEW d \in S \cup E PROVE \E i \in 1 .. Len(order) : order[i] = d
    OBVIOUS
  <2>1. Len(staging) \in Nat /\ Len(excess) \in Nat
    BY <1>5, <1>6
  <2>2. CASE d \in S
    <3>1. PICK i \in 1 .. Len(staging) : staging[i] = d
      BY <1>5, <2>2
    <3>2. i \in 1 .. Len(order)
      BY <1>7, <2>1
    <3> QED BY <1>7, <3>1, <3>2
  <2>3. CASE d \in E
    <3>1. PICK i \in 1 .. Len(excess) : excess[i] = d
      BY <1>6, <2>3
    <3>2. Len(staging) + i \in 1 .. Len(order)
      BY <1>7, <2>1
    <3> QED BY <1>7, <3>1, <3>2
  <2> QED BY <2>2, <2>3
<1>10. \A d \in S \cup E : dirs[d].path \in Paths
  BY <1>3, Locations DEF StaleStaging, Excess, Committed, Snapshots
<1>11. DOMAIN order = 1 .. Len(order) /\ Len(order) \in Nat
  BY <1>7
<1>12. doomed \in Seq(Paths) /\ Len(doomed) = Len(order)
  BY <1>8, <1>10, <1>11
<1>13. {doomed[i] : i \in 1 .. Len(doomed)} = {dirs[d].path : d \in S \cup E}
  BY <1>8, <1>9, <1>11, <1>12
<1>14. run' = [run EXCEPT ![p].pc = "remove", ![p].ok = TRUE,
                          ![p].doomed = Append(doomed, Staging(p))]
  BY <1>2 DEF Finish
<1> HIDE DEF doomed
<1>15. /\ run[p].pc = "prune"
       /\ UNCHANGED <<dirs, newer, stale, client, history, faults>>
  BY DEF Prune
<1> QED BY <1>12, <1>13, <1>14, <1>15

RunsInv == run \in [Runs -> RunStates] /\ RunsOK

\* One run changes; no other stages a directory.
LEMMA OneRun ==
  ASSUME RunsInv, NEW p \in Runs, NEW r \in RunStates, run' = [run EXCEPT ![p] = r],
         RunOK(r, dirs'[p].path),
         \A q \in Runs \ {p} : dirs[q].path = None => dirs'[q].path = None
  PROVE  RunsInv'
<1>1. run' \in [Runs -> RunStates]
  BY DEF RunsInv
<1>2. \A q \in Runs : RunOK(run'[q], dirs'[q].path)
  <2> SUFFICES ASSUME NEW q \in Runs PROVE RunOK(run'[q], dirs'[q].path)
    OBVIOUS
  <2>1. CASE q = p
    BY <2>1 DEF RunsInv
  <2>2. CASE q # p
    <3>1. run'[q] = run[q] /\ RunOK(run[q], dirs[q].path)
      BY <2>2 DEF RunsInv, RunsOK
    <3> QED BY <2>2, <3>1 DEF RunOK
  <2> QED BY <2>1, <2>2
<1> QED BY <1>1, <1>2 DEF RunsInv, RunsOK

LEMMA PathsGone ==
  ASSUME StoreInv, [Next]_vars, NEW q \in Runs, ~Stage(q), dirs[q].path = None
  PROVE  dirs'[q].path = None
<1>1. q \in Dirs /\ q \notin Existing
  BY Members DEF Existing
<1>2. ASSUME NEW p \in Runs, Stage(p) PROVE dirs'[q].path = None
  BY <1>1, <1>2, StageEffect DEF Same
<1>3. ASSUME NEW p \in Runs, Write(p) PROVE dirs'[q].path = None
  BY <1>1, <1>3, WriteEffect DEF Same
<1>4. ASSUME NEW p \in Runs, Rename(p) PROVE dirs'[q].path = None
  BY <1>1, <1>4, RenameEffect DEF Same
<1>5. ASSUME NEW p \in Runs, Unlink(p) PROVE dirs'[q].path = None
  BY <1>1, <1>5, UnlinkEffect DEF Same
<1>6. ASSUME NEW p \in Runs, RemoveDir(p) PROVE dirs'[q].path = None
  <2> DEFINE h == run[p].handle
  <2>1. /\ \A d \in Dirs \ {h} : Same(d)
        /\ dirs' = dirs \/ dirs'[h].path = None
    BY <1>6, RemoveDirEffect
  <2> QED BY <1>1, <2>1 DEF Same
<1>7. CASE Damage
  BY <1>1, <1>7, DamageEffect DEF Same
<1>8. CASE DirsStill
  BY <1>8 DEF DirsStill
<1> QED BY <1>2, <1>3, <1>4, <1>5, <1>6, <1>7, <1>8, DirsCases

\* Runs of which only the program counter, the outcome and the list to remove change.
LEMMA Ended ==
  ASSUME RunsInv, NEW p \in Runs, NEW ok \in BOOLEAN, NEW doomed \in Seq(Paths),
         Finish(p, ok, doomed), run[p].pc # "new", run[p].handle = None,
         \A q \in Runs : dirs[q].path = None => dirs'[q].path = None
  PROVE  RunsInv'
<1> DEFINE all == Append(doomed, Staging(p))
           r == [run[p] EXCEPT !.pc = "remove", !.ok = ok, !.doomed = all]
<1>1. Staging(p) \in Paths
  BY Members, Locations
<1>2. all \in Seq(Paths)
  BY <1>1
<1>3. run' = [run EXCEPT ![p].pc = "remove", ![p].ok = ok, ![p].doomed = all]
  BY DEF Finish
<1> HIDE DEF all
<1>4. run[p] \in RunStates /\ RunOK(run[p], dirs[p].path)
  BY DEF RunsInv, RunsOK
<1>5. r \in RunStates
  BY <1>2, <1>4 DEF RunStates
<1>6. /\ r.pc = "remove" /\ r.content = run[p].content /\ r.handle = None
      /\ run' = [run EXCEPT ![p] = r]
  BY <1>3, <1>4 DEF RunsInv, RunStates
<1>7. RunOK(r, dirs'[p].path)
  BY <1>4, <1>6 DEF RunOK, Staged
<1> HIDE DEF r
<1> QED BY <1>5, <1>6, <1>7, OneRun

LEMMA Moved ==
  ASSUME RunsInv, NEW p \in Runs, NEW pc, Go(p, pc), NEW path, path = dirs'[p].path,
         [run[p] EXCEPT !.pc = pc] \in RunStates,
         RunOK([run[p] EXCEPT !.pc = pc], path),
         \A q \in Runs \ {p} : dirs[q].path = None => dirs'[q].path = None
  PROVE  RunsInv'
<1>1. run' = [run EXCEPT ![p] = [run[p] EXCEPT !.pc = pc]]
  BY DEF Go, RunsInv
<1> QED BY <1>1, OneRun

LEMMA RunsStep == StoreInv /\ [Next]_vars => RunsInv'
<1> SUFFICES ASSUME StoreInv, [Next]_vars PROVE RunsInv'
  OBVIOUS
<1>0. RunsInv /\ \A p \in Runs : run[p] \in RunStates /\ RunOK(run[p], dirs[p].path)
  BY DEF StoreInv, TypeOK, RunsInv, RunsOK
<1>1. \A q \in Runs : ~Stage(q) /\ dirs[q].path = None => dirs'[q].path = None
  BY PathsGone
<1>a. \A p \in Runs : \A pc : [run[p] EXCEPT !.pc = pc] \in RunStates <=>
        pc \in {"new", "download", "write", "check", "compare", "rename", "prune", "remove",
                "answer", "done"}
  BY <1>0 DEF RunStates
<1>b. \A p \in Runs : \A pc : LET r == [run[p] EXCEPT !.pc = pc] IN
        /\ r.pc = pc /\ r.content = run[p].content /\ r.at = run[p].at
        /\ r.handle = run[p].handle /\ r.doomed = run[p].doomed
  BY <1>0 DEF RunStates
<1>c. \A p \in Runs : run[p].at \in 1 .. Len(WriteOrder) + 1 /\ run[p].doomed \in Seq(Paths)
  BY <1>0 DEF RunStates
<1>2. ASSUME NEW p \in Runs, NEW c \in Contents, Request(p, c) PROVE RunsInv'
  <2>1. run' = [run EXCEPT ![p] = [run[p] EXCEPT !.pc = "download", !.content = c]]
        /\ dirs' = dirs /\ run[p].pc = "new"
    BY <1>0, <1>2 DEF Request, RunsInv
  <2>2. [run[p] EXCEPT !.pc = "download", !.content = c] \in RunStates
    BY <1>0 DEF RunStates
  <2>3. RunOK([run[p] EXCEPT !.pc = "download", !.content = c], dirs'[p].path)
    BY <1>0, <2>1 DEF RunOK, RunStates, Staged
  <2> QED BY <1>0, <2>1, <2>2, <2>3, OneRun
<1>3. ASSUME NEW p \in Runs, DownloadFails(p) PROVE RunsInv'
  <2>1. Go(p, "answer") /\ run[p].pc = "download" /\ dirs' = dirs
    BY <1>3 DEF DownloadFails
  <2>2. RunOK([run[p] EXCEPT !.pc = "answer"], dirs'[p].path)
    BY <1>0, <1>b, <2>1 DEF RunOK, Staged
  <2> QED BY <1>0, <1>a, <2>1, <2>2, Moved
<1>4. ASSUME NEW p \in Runs, Stage(p) PROVE RunsInv'
  <2>1. Go(p, "write") /\ run[p].pc = "download"
    BY <1>4 DEF Stage
  <2>2. 1 <= Len(WriteOrder)
    BY FilesWritten
  <2>3. RunOK([run[p] EXCEPT !.pc = "write"], dirs'[p].path)
    BY <1>0, <1>b, <2>1, <2>2 DEF RunOK, Staged
  <2>4. \A q \in Runs \ {p} : dirs'[q].path = dirs[q].path
    BY <1>4, StageEffect, Members DEF Same
  <2> QED BY <1>0, <1>a, <2>1, <2>3, <2>4, Moved
<1>5. ASSUME NEW p \in Runs, Write(p) PROVE RunsInv'
  <2> DEFINE pc == IF run[p].at = Len(WriteOrder) THEN "check" ELSE "write"
             at == run[p].at + 1
             r == [run[p] EXCEPT !.at = at, !.pc = pc]
  <2>1. run[p].pc = "write" /\ run' = [run EXCEPT ![p].at = at, ![p].pc = pc]
    <3>1. run' = [run EXCEPT ![p].at = @ + 1, ![p].pc = pc]
      BY <1>5 DEF Write
    <3> QED BY <1>0, <1>5, <3>1 DEF RunsInv, Write
  <2>2. run[p].at \in 1 .. Len(WriteOrder) /\ run[p].handle = None /\ run[p].content \in Contents
    BY <1>0, <1>c, <2>1, FilesWritten DEF RunOK
  <2>3. pc \in {"check", "write"}
    OBVIOUS
  <2>4. at \in 1 .. Len(WriteOrder) + 1
    BY <2>2, FilesWritten
  <2>5. pc = "write" => at <= Len(WriteOrder)
    BY <2>2, FilesWritten
  <2>6. pc = "check" => at = Len(WriteOrder) + 1
    BY <2>2, FilesWritten
  <2> HIDE DEF pc, at
  <2>7. r \in RunStates
    BY <1>0, <2>3, <2>4 DEF RunStates
  <2>8. /\ run' = [run EXCEPT ![p] = r] /\ r.content = run[p].content /\ r.at = at
        /\ r.pc = pc /\ r.handle = None
    BY <1>0, <2>1, <2>2 DEF RunsInv, RunStates
  <2>9. RunOK(r, dirs'[p].path)
    BY <2>2, <2>3, <2>5, <2>6, <2>8 DEF RunOK, Staged
  <2>10. \A q \in Runs \ {p} : dirs'[q].path = dirs[q].path
    BY <1>5, WriteEffect, Members DEF Same
  <2> HIDE DEF r
  <2> QED BY <1>0, <2>7, <2>8, <2>9, <2>10, OneRun
<1>6. ASSUME NEW p \in Runs, WriteFails(p) \/ RenameFails(p) PROVE RunsInv'
  <2>1. Finish(p, FALSE, << >>) /\ run[p].pc \in {"write", "rename"} /\ dirs' = dirs
    BY <1>6 DEF WriteFails, RenameFails
  <2>2. run[p].handle = None /\ << >> \in Seq(Paths)
    BY <1>0, <2>1 DEF RunOK
  <2> QED BY <1>0, <2>1, <2>2, Ended
<1>7. ASSUME NEW p \in Runs, Check(p) PROVE RunsInv'
  <2>1. PICK pc \in {"rename", "compare"} : Go(p, pc)
    BY <1>7 DEF Check
  <2>2. run[p].pc = "check" /\ dirs' = dirs
    BY <1>7 DEF Check
  <2>3. RunOK([run[p] EXCEPT !.pc = pc], dirs'[p].path)
    BY <1>0, <1>b, <2>1, <2>2 DEF RunOK, Staged
  <2> QED BY <1>0, <1>a, <2>1, <2>2, <2>3, Moved
<1>8. ASSUME NEW p \in Runs, Compare(p) PROVE RunsInv'
  <2>1. run[p].pc = "compare" /\ dirs' = dirs
    BY <1>8 DEF Compare
  <2>2. CASE Finish(p, FALSE, << >>)
    <3>1. run[p].handle = None /\ << >> \in Seq(Paths)
      BY <1>0, <2>1 DEF RunOK
    <3> QED BY <1>0, <2>1, <2>2, <3>1, Ended
  <2>3. CASE Go(p, "prune")
    <3>1. RunOK([run[p] EXCEPT !.pc = "prune"], dirs'[p].path)
      BY <1>0, <1>b, <2>1 DEF RunOK, Staged
    <3> QED BY <1>0, <1>a, <2>1, <2>3, <3>1, Moved
  <2> QED BY <1>8, <2>2, <2>3 DEF Compare
<1>9. ASSUME NEW p \in Runs, Rename(p) PROVE RunsInv'
  <2>1. Go(p, "prune") /\ run[p].pc = "rename"
    BY <1>9 DEF Rename
  <2>2. RunOK([run[p] EXCEPT !.pc = "prune"], dirs'[p].path)
    BY <1>0, <1>b, <2>1 DEF RunOK, Staged
  <2>3. \A q \in Runs : ~Stage(q) \/ q # p
    BY <2>1 DEF Stage
  <2>4. \A q \in Runs \ {p} : dirs[q].path = None => dirs'[q].path = None
    <3> SUFFICES ASSUME NEW q \in Runs \ {p}, dirs[q].path = None PROVE dirs'[q].path = None
      OBVIOUS
    <3>1. q \in Dirs /\ q \notin Existing
      BY Members DEF Existing
    <3> QED BY <1>9, <3>1, RenameEffect DEF Same
  <2> QED BY <1>0, <1>a, <2>1, <2>2, <2>4, Moved
<1>10. ASSUME NEW p \in Runs, Prune(p) PROVE RunsInv'
  <2>1. run[p].pc = "prune" /\ dirs' = dirs
    BY <1>10 DEF Prune
  <2>2. PICK doomed \in Seq(Paths) :
          run' = [run EXCEPT ![p].pc = "remove", ![p].ok = TRUE,
                             ![p].doomed = Append(doomed, Staging(p))]
    BY <1>10, PruneDooms DEF StoreInv
  <2>3. Finish(p, TRUE, doomed)
    BY <2>2 DEF Finish
  <2>4. run[p].handle = None
    BY <1>0, <2>1 DEF RunOK
  <2> QED BY <1>0, <2>1, <2>3, <2>4, Ended
<1>11. ASSUME NEW p \in Runs, Open(p) PROVE RunsInv'
  <2>1. run[p].pc = "remove" /\ run[p].handle = None /\ run[p].doomed # << >> /\ dirs' = dirs
    BY <1>11 DEF Open
  <2>2. CASE run' = [run EXCEPT ![p].doomed = Tail(@)]
    <3> DEFINE rest == Tail(run[p].doomed)
               r == [run[p] EXCEPT !.doomed = rest]
    <3>1. rest \in Seq(Paths)
      BY <1>c, <2>1
    <3>2. run' = [run EXCEPT ![p].doomed = rest]
      BY <1>0, <2>2 DEF RunsInv
    <3> HIDE DEF rest
    <3>3. r \in RunStates
      BY <1>0, <3>1 DEF RunStates
    <3>4. run' = [run EXCEPT ![p] = r] /\ r.pc = "remove" /\ r.handle = None /\ r.content = run[p].content
      BY <1>0, <2>1, <3>2 DEF RunsInv, RunStates
    <3>5. RunOK(r, dirs'[p].path)
      BY <1>0, <2>1, <3>4 DEF RunOK, Staged
    <3> HIDE DEF r
    <3> QED BY <1>0, <2>1, <3>3, <3>4, <3>5, OneRun
  <2>3. ASSUME NEW d \in At(Doomed(p)), run' = [run EXCEPT ![p].handle = d] PROVE RunsInv'
    <3> DEFINE r == [run[p] EXCEPT !.handle = d]
    <3>1. d \in Dirs
      BY DEF At
    <3>2. r \in RunStates
      BY <1>0, <3>1 DEF RunStates
    <3>3. /\ run' = [run EXCEPT ![p] = r] /\ r.pc = "remove" /\ r.content = run[p].content
          /\ r.doomed = run[p].doomed
      BY <1>0, <2>1, <2>3 DEF RunsInv, RunStates
    <3>4. RunOK(r, dirs'[p].path)
      BY <1>0, <2>1, <3>3 DEF RunOK, Staged
    <3> HIDE DEF r
    <3> QED BY <1>0, <2>1, <3>2, <3>3, <3>4, OneRun
  <2> QED BY <1>11, <2>2, <2>3 DEF Open
<1>12. ASSUME NEW p \in Runs, RemoveDir(p) \/ RemoveFails(p) PROVE RunsInv'
  <2> DEFINE rest == Tail(run[p].doomed)
             r == [run[p] EXCEPT !.handle = None, !.doomed = rest]
  <2>1. run[p].pc = "remove" /\ run[p].handle # None
    BY <1>12 DEF RemoveDir, RemoveFails
  <2>2. run' = [run EXCEPT ![p].handle = None, ![p].doomed = rest]
    <3>1. run' = [run EXCEPT ![p].handle = None, ![p].doomed = Tail(@)]
      BY <1>12 DEF RemoveDir, RemoveFails
    <3> QED BY <1>0, <3>1 DEF RunsInv
  <2>3. rest \in Seq(Paths)
    BY <1>0, <1>c, <2>1 DEF RunOK
  <2> HIDE DEF rest
  <2>4. r \in RunStates
    BY <1>0, <2>3 DEF RunStates
  <2>5. run' = [run EXCEPT ![p] = r] /\ r.pc = "remove" /\ r.handle = None /\ r.content = run[p].content
    BY <1>0, <2>1, <2>2 DEF RunsInv, RunStates
  <2>6. RunOK(r, dirs'[p].path)
    BY <1>0, <2>1, <2>5 DEF RunOK, Staged
  <2>7. \A q \in Runs : ~Stage(q) \/ q # p
    BY <2>1 DEF Stage
  <2>8. \A q \in Runs \ {p} : dirs[q].path = None => dirs'[q].path = None
    <3>1. CASE RemoveFails(p)
      BY <3>1 DEF RemoveFails
    <3>2. CASE RemoveDir(p)
      <4> DEFINE h == run[p].handle
      <4>1. /\ \A d \in Dirs \ {h} : Same(d)
            /\ dirs' = dirs \/ dirs'[h].path = None
        BY <3>2, RemoveDirEffect
      <4> QED BY <4>1, Members DEF Same
    <3> QED BY <1>12, <3>1, <3>2
  <2> HIDE DEF r
  <2> QED BY <1>0, <2>4, <2>5, <2>6, <2>8, OneRun
<1>13. ASSUME NEW p \in Runs, Removed(p) PROVE RunsInv'
  <2>1. Go(p, "answer") /\ run[p].pc = "remove" /\ dirs' = dirs /\ run[p].doomed = << >>
    BY <1>13 DEF Removed
  <2>2. RunOK([run[p] EXCEPT !.pc = "answer"], dirs'[p].path)
    BY <1>0, <1>b, <2>1 DEF RunOK, Staged
  <2> QED BY <1>0, <1>a, <2>1, <2>2, Moved
<1>14. ASSUME NEW p \in Runs, Answer(p) PROVE RunsInv'
  <2>1. Go(p, "done") /\ run[p].pc = "answer" /\ dirs' = dirs
    BY <1>14 DEF Answer
  <2>2. RunOK([run[p] EXCEPT !.pc = "done"], dirs'[p].path)
    BY <1>0, <1>b, <2>1 DEF RunOK, Staged
  <2> QED BY <1>0, <1>a, <2>1, <2>2, Moved
<1>15. ASSUME NEW p \in Runs, Crash(p) PROVE RunsInv'
  <2> DEFINE r == [run[p] EXCEPT !.pc = "done", !.ok = FALSE, !.handle = None, !.doomed = << >>]
  <2>1. run[p].pc # "new" /\ dirs' = dirs
        /\ run' = [run EXCEPT ![p].pc = "done", ![p].ok = FALSE, ![p].handle = None, ![p].doomed = << >>]
    BY <1>15 DEF Crash
  <2>2. << >> \in Seq(Paths)
    OBVIOUS
  <2>3. r \in RunStates
    BY <1>0, <2>2 DEF RunStates
  <2>4. run' = [run EXCEPT ![p] = r] /\ r.pc = "done" /\ r.handle = None /\ r.content = run[p].content
    BY <1>0, <2>1 DEF RunsInv, RunStates
  <2>5. RunOK(r, dirs'[p].path)
    BY <1>0, <2>1, <2>4 DEF RunOK, Staged
  <2> HIDE DEF r
  <2> QED BY <1>0, <2>1, <2>3, <2>4, <2>5, OneRun
<1>16. CASE run' = run /\ \A q \in Runs : ~Stage(q)
  <2>1. \A q \in Runs : RunOK(run'[q], dirs'[q].path)
    BY <1>0, <1>1, <1>16 DEF RunOK
  <2> QED BY <1>0, <1>16, <2>1 DEF RunsInv, RunsOK
<1>17. \/ \E p \in Runs : Age(p) \/ Unlink(p)
       \/ \E k \in Clients : Paging(k)
       \/ Damage \/ UNCHANGED vars
       => run' = run /\ \A q \in Runs : ~Stage(q)
  <2>1. \A p \in Runs : Age(p) \/ Unlink(p) => run' = run
    BY DEF Age, Unlink
  <2>2. \A k \in Clients : Paging(k) => run' = run
    BY DEF Paging, ReadIndex, ReadManifest, ReadPage, Read, GiveUp
  <2>3. Damage \/ UNCHANGED vars => run' = run
    BY DEF Damage, vars
  <2>4. \A q \in Runs : Stage(q) => run' # run
    <3> SUFFICES ASSUME NEW q \in Runs, Stage(q) PROVE run' # run
      OBVIOUS
    <3>1. run'[q].pc = "write" /\ run[q].pc = "download"
      BY <1>0 DEF Stage, Go, RunsInv, RunStates
    <3> QED BY <3>1
  <2> QED BY <2>1, <2>2, <2>3, <2>4
<1> QED BY <1>2, <1>3, <1>4, <1>5, <1>6, <1>7, <1>8, <1>9, <1>10, <1>11, <1>12, <1>13, <1>14,
           <1>15, <1>16, <1>17 DEF Next, Refreshing

-----------------------------------------------------------------------------
(* Types: clients and history. *)

ClientsInv == client \in [Clients -> ClientStates] /\ ClientsOK

LEMMA Idle == IdleClient \in ClientStates /\ ClientOK(IdleClient)
<1>1. << >> \in Seq([page : ToSet(Pages), content : Contents, sound : BOOLEAN])
  OBVIOUS
<1>2. IdleClient \in ClientStates
  BY <1>1 DEF IdleClient, ClientStates
<1>3. ClientOK(IdleClient)
  BY DEF IdleClient, ClientOK
<1> QED BY <1>2, <1>3

\* Each client is left alone or put into a legal state.
LEMMA SomeClients ==
  ASSUME ClientsInv,
         \E new : /\ client' = [k \in Clients |-> new[k]]
                  /\ \A k \in Clients :
                       new[k] = client[k] \/ (new[k] \in ClientStates /\ ClientOK(new[k]))
  PROVE  ClientsInv'
<1>1. PICK new : /\ client' = [k \in Clients |-> new[k]]
                 /\ \A k \in Clients :
                      new[k] = client[k] \/ (new[k] \in ClientStates /\ ClientOK(new[k]))
  OBVIOUS
<1>2. \A k \in Clients : new[k] \in ClientStates /\ ClientOK(new[k])
  BY <1>1 DEF ClientsInv, ClientsOK
<1>3. client' \in [Clients -> ClientStates]
  BY <1>1, <1>2
<1>4. \A k \in Clients : ClientOK(client'[k])
  BY <1>1, <1>2
<1> QED BY <1>3, <1>4 DEF ClientsInv, ClientsOK

LEMMA OneClient ==
  ASSUME ClientsInv, NEW k \in Clients, NEW c \in ClientStates, ClientOK(c),
         client' = [client EXCEPT ![k] = c]
  PROVE  ClientsInv'
<1>1. client' \in [Clients -> ClientStates]
  BY DEF ClientsInv
<1>2. \A j \in Clients : ClientOK(client'[j])
  <2> SUFFICES ASSUME NEW j \in Clients PROVE ClientOK(client'[j])
    OBVIOUS
  <2>1. CASE j = k
    BY <2>1 DEF ClientsInv
  <2>2. CASE j # k
    BY <2>2 DEF ClientsInv, ClientsOK
  <2> QED BY <2>1, <2>2
<1> QED BY <1>1, <1>2 DEF ClientsInv, ClientsOK

LEMMA ToldClients ==
  ASSUME ClientsInv, NEW p, NEW answer \in ClientStates, ClientOK(answer),
         client' = Told(p, answer)
  PROVE  ClientsInv'
<1> DEFINE new == [k \in Clients |-> IF Waiting(k, p) THEN answer ELSE client[k]]
<1>1. client' = [k \in Clients |-> new[k]]
  BY DEF Told
<1>2. \A k \in Clients : new[k] = client[k] \/ (new[k] \in ClientStates /\ ClientOK(new[k]))
  OBVIOUS
<1> HIDE DEF new
<1> QED BY <1>1, <1>2, SomeClients

\* A page that was checked is the next one.
LEMMA PageReceived ==
  ASSUME NEW k \in Clients, ClientsInv, client[k].pc = "page", Sound(k, NextPage(k))
  PROVE  LET c == Received(k, NextPage(k)) IN c \in ClientStates /\ ClientOK(c)
<1> DEFINE old == client[k]
           n == Len(old.got)
           row == [page |-> NextPage(k), content |-> old.content, sound |-> Sound(k, NextPage(k))]
           got == Append(old.got, row)
           pc == IF n + 1 = Len(Pages) THEN "done" ELSE "index"
           c == [old EXCEPT !.got = got, !.pc = pc]
           Row == [page : ToSet(Pages), content : Contents, sound : BOOLEAN]
<1>1. old \in ClientStates /\ ClientOK(old)
  BY DEF ClientsInv, ClientsOK
<1>2. old.got \in Seq(Row) /\ n \in Nat
  BY <1>1 DEF ClientStates
<1>3. n < Len(Pages) /\ old.content \in Contents
  BY <1>1 DEF ClientOK
<1>4. NextPage(k) = Pages[n + 1] /\ NextPage(k) \in ToSet(Pages)
  BY <1>2, <1>3, FilesWritten DEF NextPage
<1>5. Sound(k, NextPage(k)) = TRUE
  BY DEF Sound
<1>6. row = [page |-> Pages[n + 1], content |-> old.content, sound |-> TRUE]
  BY <1>4, <1>5
<1>7. row \in Row
  BY <1>3, <1>4, <1>6
<1>8. Received(k, NextPage(k)) = c
  BY DEF Received
<1> HIDE DEF row, Row
<1>9. /\ got \in Seq(Row) /\ Len(got) = n + 1 /\ got[n + 1] = row
      /\ \A i \in 1 .. n : got[i] = old.got[i]
  BY <1>2, <1>7
<1>10. pc \in {"done", "index"}
  OBVIOUS
<1>11. (pc = "done") <=> (n + 1 = Len(Pages))
  OBVIOUS
<1> HIDE DEF got, n, pc
<1>12. c \in ClientStates
  BY <1>1, <1>9, <1>10 DEF ClientStates, Row
<1>13. c.got = got /\ c.pc = pc /\ c.content = old.content
  BY <1>1 DEF ClientStates
<1>14. \A i \in 1 .. n + 1 :
         got[i] = [page |-> Pages[i], content |-> old.content, sound |-> TRUE]
  <2> SUFFICES ASSUME NEW i \in 1 .. n + 1
               PROVE  got[i] = [page |-> Pages[i], content |-> old.content, sound |-> TRUE]
    OBVIOUS
  <2>1. CASE i = n + 1
    BY <1>6, <1>9, <2>1
  <2>2. CASE i \in 1 .. n
    BY <1>1, <1>9, <2>2 DEF ClientOK, n
  <2> QED BY <1>2, <2>1, <2>2
<1>15. n + 1 <= Len(Pages) /\ Len(Pages) \in Nat
  BY <1>2, <1>3, FilesWritten
<1>16. pc = "index" => Len(c.got) < Len(Pages)
  BY <1>2, <1>9, <1>11, <1>13, <1>15
<1>17. pc = "done" => Len(c.got) = Len(Pages)
  BY <1>9, <1>11, <1>13
<1>18. Len(c.got) = n + 1 /\ c.pc = pc /\ c.content \in Contents
  BY <1>3, <1>9, <1>13
<1>19. \A i \in 1 .. Len(c.got) :
         c.got[i] = [page |-> Pages[i], content |-> c.content, sound |-> TRUE]
  BY <1>13, <1>14, <1>18
<1> HIDE DEF c
<1>20. ClientOK(c)
  BY <1>10, <1>16, <1>17, <1>18, <1>19 DEF ClientOK
<1> QED BY <1>8, <1>12, <1>20

LEMMA ClientsStep == StoreInv /\ [Next]_vars => ClientsInv'
<1> SUFFICES ASSUME StoreInv, [Next]_vars PROVE ClientsInv'
  OBVIOUS
<1>0. ClientsInv /\ \A k \in Clients : client[k] \in ClientStates /\ ClientOK(client[k])
  BY DEF StoreInv, TypeOK, ClientsInv, ClientsOK
<1>1. CASE UNCHANGED client
  BY <1>0, <1>1 DEF ClientsInv, ClientsOK
<1>2. ASSUME NEW p \in Runs, NEW c \in Contents, Request(p, c) PROVE ClientsInv'
  <2>1. ASSUME NEW k \in Clients,
               client' = [client EXCEPT ![k] = [IdleClient EXCEPT !.pc = "refresh", !.run = p]]
        PROVE  ClientsInv'
    <3> DEFINE new == [IdleClient EXCEPT !.pc = "refresh", !.run = p]
    <3>1. new \in ClientStates
      BY Idle DEF ClientStates
    <3>2. ClientOK(new)
      BY DEF ClientOK, IdleClient
    <3> QED BY <1>0, <2>1, <3>1, <3>2, OneClient
  <2> QED BY <1>1, <1>2, <2>1 DEF Request
<1>3. ASSUME NEW p \in Runs, Answer(p) PROVE ClientsInv'
  <2> DEFINE told == [IdleClient EXCEPT !.pc = "index", !.content = run[p].content]
  <2>1. /\ run[p].pc = "answer"
        /\ client' = Told(p, IF run[p].ok THEN told ELSE IdleClient)
    BY <1>3 DEF Answer
  <2>2. run[p].content \in Contents
    BY <2>1 DEF StoreInv, RunsOK, RunOK
  <2>3. told \in ClientStates
    BY <2>2, Idle DEF ClientStates
  <2>4. ClientOK(told)
    BY <2>2, FilesWritten DEF ClientOK, IdleClient
  <2> HIDE DEF told
  <2>5. CASE run[p].ok
    BY <1>0, <2>1, <2>3, <2>4, <2>5, ToldClients
  <2>6. CASE ~run[p].ok
    BY <1>0, <2>1, <2>6, Idle, ToldClients
  <2> QED BY <2>5, <2>6
<1>4. ASSUME NEW p \in Runs, Crash(p) PROVE ClientsInv'
  <2>1. client' = Told(p, IdleClient)
    BY <1>4 DEF Crash
  <2> QED BY <1>0, <2>1, Idle, ToldClients
<1>5. ASSUME NEW k \in Clients, GiveUp(k) PROVE ClientsInv'
  <2>1. client' = [client EXCEPT ![k] = IdleClient]
    BY <1>5 DEF GiveUp
  <2> QED BY <1>0, <2>1, Idle, OneClient
<1>6. ASSUME NEW k \in Clients, ReadIndex(k) \/ ReadManifest(k) PROVE ClientsInv'
  <2>1. PICK pc \in {"manifest", "page"} :
          \/ client' = [client EXCEPT ![k] = [client[k] EXCEPT !.pc = pc]]
          \/ client' = [client EXCEPT ![k] = IdleClient]
    BY <1>6 DEF ReadIndex, ReadManifest, Read
  <2>2. client[k].pc \in {"index", "manifest"}
    BY <1>6 DEF ReadIndex, ReadManifest
  <2> DEFINE new == [client[k] EXCEPT !.pc = pc]
  <2>3. new \in ClientStates
    BY <1>0 DEF ClientStates
  <2>4. new.pc = pc /\ new.got = client[k].got /\ new.content = client[k].content
    BY <1>0 DEF ClientStates
  <2>5. ClientOK(new)
    BY <1>0, <2>2, <2>4 DEF ClientOK
  <2> HIDE DEF new
  <2>6. client' = [client EXCEPT ![k] = new] \/ client' = [client EXCEPT ![k] = IdleClient]
    BY <2>1 DEF new
  <2> QED BY <1>0, <2>3, <2>5, <2>6, Idle, OneClient
<1>7. ASSUME NEW k \in Clients, ReadPage(k) PROVE ClientsInv'
  <2>1. client[k].pc = "page"
    BY <1>7 DEF ReadPage
  <2>2. CASE Sound(k, NextPage(k))
    <3>1. client' = [client EXCEPT ![k] = Received(k, NextPage(k))]
      BY <1>7, <2>2 DEF ReadPage, Read
    <3>2. Received(k, NextPage(k)) \in ClientStates /\ ClientOK(Received(k, NextPage(k)))
      BY <1>0, <2>1, <2>2, PageReceived
    <3> QED BY <1>0, <3>1, <3>2, OneClient
  <2>3. CASE ~Sound(k, NextPage(k))
    <3>1. client' = [client EXCEPT ![k] = IdleClient]
      BY <1>7, <2>3 DEF ReadPage, Read
    <3> QED BY <1>0, <3>1, Idle, OneClient
  <2> QED BY <2>2, <2>3
<1>8. \A p \in Runs : \/ DownloadFails(p) \/ Stage(p) \/ Write(p) \/ WriteFails(p) \/ Check(p)
                      \/ Compare(p) \/ Rename(p) \/ RenameFails(p) \/ Prune(p) \/ Open(p)
                      \/ Unlink(p) \/ RemoveDir(p) \/ RemoveFails(p) \/ Removed(p) \/ Age(p)
                      => UNCHANGED client
  BY DEF DownloadFails, Stage, Write, WriteFails, Check, Compare, Rename, RenameFails, Prune,
         Open, Unlink, RemoveDir, RemoveFails, Removed, Age
<1>9. Damage \/ UNCHANGED vars => UNCHANGED client
  BY DEF Damage, vars
<1> QED BY <1>1, <1>2, <1>3, <1>4, <1>5, <1>6, <1>7, <1>8, <1>9 DEF Next, Refreshing, Paging

HistoryInv ==
  /\ stale \in SUBSET Runs /\ opened \in SUBSET Dirs /\ suspended \in SUBSET Runs
  /\ completed \in Seq(Dirs) /\ indexed \in [Dirs -> Nat]
  /\ faults \in Nat

LEMMA FaultsStep ==
  ASSUME [Next]_vars
  PROVE  faults' = faults \/ faults' = faults + 1
<1>1. \A p \in Runs : \/ (\E c \in Contents : Request(p, c)) \/ Crash(p) \/ DownloadFails(p)
                      \/ Stage(p) \/ Write(p) \/ WriteFails(p) \/ Check(p) \/ Compare(p)
                      \/ Rename(p) \/ RenameFails(p) \/ Prune(p) \/ Open(p) \/ Unlink(p)
                      \/ RemoveDir(p) \/ RemoveFails(p) \/ Removed(p) \/ Answer(p) \/ Age(p)
                      => faults' = faults \/ faults' = faults + 1
  BY ZenonT(60) DEF Request, Crash, DownloadFails, Stage, Write, WriteFails, Check, Compare, Rename,
         RenameFails, Prune, Open, Unlink, RemoveDir, RemoveFails, Removed, Answer, Age,
         Fails, Succeeds
<1>2. (\E k \in Clients : Paging(k)) \/ Damage \/ UNCHANGED vars => faults' = faults \/ faults' = faults + 1
  BY DEF Paging, ReadIndex, ReadManifest, ReadPage, Read, GiveUp, Damage, Fails, vars
<1> QED BY <1>1, <1>2 DEF Next, Refreshing

LEMMA HistoryStep == StoreInv /\ [Next]_vars => HistoryInv'
<1> SUFFICES ASSUME StoreInv, [Next]_vars PROVE HistoryInv'
  OBVIOUS
<1>0. HistoryInv
  BY DEF StoreInv, TypeOK, HistoryInv
<1>1. faults' \in Nat
  BY <1>0, FaultsStep DEF HistoryInv
<1>2. stale' \in SUBSET Runs
  <2>1. \/ stale' \subseteq stale
        \/ \E p \in Runs : stale' = stale \cup {p}
    BY ZenonT(60)
    DEF Next, Refreshing, Paging, vars, Request, DownloadFails, Stage, Write, WriteFails,
           Check, Compare, Rename, RenameFails, Prune, Open, Unlink, RemoveDir, RemoveFails,
           Removed, Answer, Crash, Age, ReadIndex, ReadManifest, ReadPage, Read, GiveUp,
           Damage
  <2> QED BY <1>0, <2>1 DEF HistoryInv
<1>3. CASE UNCHANGED history
  BY <1>0, <1>1, <1>2, <1>3 DEF HistoryInv, history
<1>4. ASSUME NEW p \in Runs, Write(p) PROVE HistoryInv'
  <2>1. indexed' = [indexed EXCEPT ![p] = Len(completed)] /\ Len(completed) \in Nat
        /\ UNCHANGED <<opened, suspended, completed>>
    BY <1>0, <1>4 DEF Write, HistoryInv
  <2> QED BY <1>0, <1>1, <1>2, <2>1 DEF HistoryInv
<1>5. ASSUME NEW p \in Runs, Compare(p) \/ Rename(p) PROVE HistoryInv'
  <2>1. UNCHANGED history \/ \E d \in Dirs : Commits(d)
    BY <1>5, Members DEF Compare, Rename, At
  <2>2. ASSUME NEW d \in Dirs, Commits(d) PROVE HistoryInv'
    BY <1>0, <1>1, <1>2, <2>2 DEF Commits, HistoryInv
  <2> QED BY <1>3, <2>1, <2>2
<1>6. ASSUME NEW p \in Runs, Open(p) PROVE HistoryInv'
  <2>1. UNCHANGED opened \/ \E d \in Dirs : opened' = opened \cup {d}
    BY <1>6 DEF Open, At
  <2>2. UNCHANGED <<suspended, completed, indexed>>
    BY <1>6 DEF Open
  <2> QED BY <1>0, <1>1, <1>2, <2>1, <2>2 DEF HistoryInv
<1>7. ASSUME NEW p \in Runs, Age(p) PROVE HistoryInv'
  <2>1. UNCHANGED <<opened, completed, indexed>>
        /\ (suspended' = suspended \/ suspended' = suspended \cup {p})
    BY <1>7 DEF Age
  <2> QED BY <1>0, <1>1, <1>2, <2>1 DEF HistoryInv
<1>8. \A p \in Runs : \/ (\E c \in Contents : Request(p, c)) \/ Crash(p) \/ DownloadFails(p)
                      \/ Stage(p) \/ WriteFails(p) \/ Check(p) \/ RenameFails(p) \/ Prune(p)
                      \/ Unlink(p) \/ RemoveDir(p) \/ RemoveFails(p) \/ Removed(p) \/ Answer(p)
                      => UNCHANGED history
  BY DEF Request, Crash, DownloadFails, Stage, WriteFails, Check, RenameFails, Prune, Unlink,
         RemoveDir, RemoveFails, Removed, Answer
<1>9. (\E k \in Clients : Paging(k)) \/ Damage \/ UNCHANGED vars => UNCHANGED history
  BY DEF Paging, ReadIndex, ReadManifest, ReadPage, Read, GiveUp, Damage, vars
<1> QED BY <1>3, <1>4, <1>5, <1>6, <1>7, <1>8, <1>9 DEF Next, Refreshing

-----------------------------------------------------------------------------
(* Types: the theorem. *)

LEMMA InitOrder ==
  ASSUME Init
  PROVE  /\ completed \in Seq(Earlier) /\ Earlier = {completed[i] : i \in 1 .. Len(completed)}
         /\ Len(completed) = Cardinality(Earlier)
         /\ \A i, j \in 1 .. Len(completed) :
              /\ completed[i] = completed[j] => i = j
              /\ <<completed[j], completed[i]>> \in newer <=> i < j
         /\ newer \subseteq Earlier \X Earlier
         /\ indexed \in [Dirs -> Nat]
         /\ \A i \in 1 .. Len(completed) : indexed[completed[i]] = i - 1
         /\ \A d \in Dirs \ Earlier : indexed[d] = 0
<1>1. completed \in SetToSeqs(Earlier)
  BY DEF Init
<1>2. /\ completed \in Seq(Earlier) /\ Earlier = {completed[i] : i \in 1 .. Len(completed)}
      /\ Len(completed) = Cardinality(Earlier)
      /\ \A i, j \in 1 .. Len(completed) : completed[i] = completed[j] => i = j
  BY <1>1, Listing, Members
<1>a. completed \in Seq(Earlier)
  BY <1>2
<1>3. DOMAIN completed = 1 .. Len(completed) /\ Len(completed) \in Nat
  BY <1>a
<1>4. newer = {e \in Earlier \X Earlier : \E j \in DOMAIN completed : \E i \in 1 .. j - 1 :
                 e = <<completed[j], completed[i]>>}
  BY DEF Init
<1>5. \A i, j \in 1 .. Len(completed) : <<completed[j], completed[i]>> \in newer <=> i < j
  <2> SUFFICES ASSUME NEW i \in 1 .. Len(completed), NEW j \in 1 .. Len(completed)
               PROVE  <<completed[j], completed[i]>> \in newer <=> i < j
    OBVIOUS
  <2>1. completed[i] \in Earlier /\ completed[j] \in Earlier
    BY <1>2
  <2>2. ASSUME i < j PROVE <<completed[j], completed[i]>> \in newer
    <3>1. j \in DOMAIN completed /\ i \in 1 .. j - 1
      BY <1>3, <2>2
    <3> QED BY <1>4, <2>1, <3>1
  <2>3. ASSUME <<completed[j], completed[i]>> \in newer PROVE i < j
    <3>1. PICK b \in DOMAIN completed : \E a \in 1 .. b - 1 :
                 <<completed[j], completed[i]>> = <<completed[b], completed[a]>>
      BY <1>4, <2>3
    <3>2. PICK a \in 1 .. b - 1 : <<completed[j], completed[i]>> = <<completed[b], completed[a]>>
      BY <3>1
    <3>3. b \in 1 .. Len(completed) /\ a \in 1 .. Len(completed)
      BY <1>3
    <3>4. j = b /\ i = a
      BY <1>2, <3>2, <3>3
    <3> QED BY <3>3, <3>4
  <2> QED BY <2>2, <2>3
<1>6. newer \subseteq Earlier \X Earlier
  BY <1>4
<1>7. indexed = [d \in Dirs |->
       IF d \in Earlier THEN (CHOOSE i \in DOMAIN completed : completed[i] = d) - 1 ELSE 0]
  BY DEF Init
<1>8. \A i \in 1 .. Len(completed) : (CHOOSE j \in DOMAIN completed : completed[j] = completed[i]) = i
  BY <1>2, <1>3
<1>9. \A i \in 1 .. Len(completed) : indexed[completed[i]] = i - 1
  BY <1>2, <1>7, <1>8, Members
<1>10. \A d \in Dirs \ Earlier : indexed[d] = 0
  BY <1>7
<1>11. \A d \in Dirs : indexed[d] \in Nat
  <2> SUFFICES ASSUME NEW d \in Dirs PROVE indexed[d] \in Nat
    OBVIOUS
  <2>1. CASE d \in Earlier
    <3>1. PICK i \in 1 .. Len(completed) : completed[i] = d
      BY <1>2, <2>1
    <3> QED BY <1>3, <1>9, <3>1
  <2> QED BY <1>10, <2>1
<1>12. indexed \in [Dirs -> Nat]
  BY <1>7, <1>11
<1> QED BY <1>2, <1>5, <1>6, <1>9, <1>10, <1>12

LEMMA InitDirs ==
  ASSUME Init
  PROVE  /\ dirs \in [Dirs -> DirStates]
         /\ \A d \in Earlier : /\ dirs[d].path = Snapshot(dirs[d].content)
                               /\ dirs[d].content \in Contents /\ dirs[d].files = Files
         /\ \A d \in Dirs \ Earlier : dirs[d].path = None /\ dirs[d].files = {}
         /\ \A d, e \in Earlier : d # e => dirs[d].path # dirs[e].path
         /\ Existing = Earlier /\ Committed = Earlier
<1>1. PICK c \in {f \in [Earlier -> Contents] : IsInjective(f)} :
       dirs = [d \in Dirs |->
         IF d \in Earlier
           THEN [path |-> Snapshot(c[d]), content |-> c[d], files |-> Files, bad |-> {}]
           ELSE [path |-> None, content |-> None, files |-> {}, bad |-> {}]]
  BY DEF Init
<1>2. c \in [Earlier -> Contents] /\ \A d, e \in Earlier : c[d] = c[e] => d = e
  BY DEF IsInjective
<1>3. \A d \in Earlier :
        [path |-> Snapshot(c[d]), content |-> c[d], files |-> Files, bad |-> {}] \in DirStates
  BY <1>2, Locations DEF DirStates
<1>4. [path |-> None, content |-> None, files |-> {}, bad |-> {}] \in DirStates
  BY DEF DirStates
<1>5. dirs \in [Dirs -> DirStates]
  BY <1>1, <1>3, <1>4
<1>6. \A d \in Earlier : /\ dirs[d].path = Snapshot(c[d])
                         /\ dirs[d].content = c[d] /\ dirs[d].files = Files
  BY <1>1, Members
<1>7. \A d \in Dirs \ Earlier : dirs[d].path = None /\ dirs[d].files = {}
  BY <1>1
<1>8. \A d, e \in Earlier : d # e => dirs[d].path # dirs[e].path
  BY <1>2, <1>6, Locations
<1>9. Existing = Earlier /\ Committed = Earlier
  BY <1>2, <1>6, <1>7, Members, Locations DEF Existing, Committed
<1> QED BY <1>2, <1>5, <1>6, <1>7, <1>8, <1>9

LEMMA InitStore == Init => StoreInv
<1> SUFFICES ASSUME Init PROVE StoreInv
  OBVIOUS
<1>1. Ordered
  <2>1. \A d \in Existing : \E i \in 1 .. Len(completed) : completed[i] = d
    BY InitOrder, InitDirs
  <2>2. \A i, j \in 1 .. Len(completed) :
              /\ completed[i] = completed[j] => i = j
              /\ <<completed[j], completed[i]>> \in newer <=> i < j
    BY InitOrder
  <2>3. Len(completed) \in Nat
    BY InitOrder
  <2>4. \A d, e \in Existing : <<d, e>> \in newer <=> d # e /\ <<e, d>> \notin newer
    <3> SUFFICES ASSUME NEW d \in Existing, NEW e \in Existing
                 PROVE  <<d, e>> \in newer <=> d # e /\ <<e, d>> \notin newer
      OBVIOUS
    <3>1. PICK i \in 1 .. Len(completed) : completed[i] = d
      BY <2>1
    <3>2. PICK j \in 1 .. Len(completed) : completed[j] = e
      BY <2>1
    <3> QED BY <2>2, <2>3, <3>1, <3>2
  <2>5. \A d, e, f \in Existing : <<d, e>> \in newer /\ <<e, f>> \in newer => <<d, f>> \in newer
    <3> SUFFICES ASSUME NEW d \in Existing, NEW e \in Existing, NEW f \in Existing,
                        <<d, e>> \in newer, <<e, f>> \in newer
                 PROVE  <<d, f>> \in newer
      OBVIOUS
    <3>1. PICK i \in 1 .. Len(completed) : completed[i] = d
      BY <2>1
    <3>2. PICK j \in 1 .. Len(completed) : completed[j] = e
      BY <2>1
    <3>3. PICK n \in 1 .. Len(completed) : completed[n] = f
      BY <2>1
    <3>4. j < i /\ n < j
      BY <2>2, <3>1, <3>2, <3>3
    <3>5. n < i
      BY <2>3, <3>4
    <3> QED BY <2>2, <3>1, <3>3, <3>5
  <2> QED BY <2>4, <2>5, InitOrder, InitDirs DEF Ordered
<1>2. DirsOK
  <2> SUFFICES ASSUME NEW d \in Dirs
               PROVE  /\ dirs[d].path \in {None, Staging(d)} \cup Snapshots
                      /\ dirs[d].path = None => dirs[d].files = {}
    BY DEF DirsOK
  <2>1. CASE d \in Earlier
    BY <2>1, InitDirs, Locations DEF Snapshots
  <2>2. CASE d \notin Earlier
    BY <2>2, InitDirs
  <2> QED BY <2>1, <2>2
<1>3. run = [p \in Runs |-> NewRun]
  BY DEF Init
<1>4. NewRun \in RunStates
  <2>1. << >> \in Seq(Paths) /\ 1 \in 1 .. Len(WriteOrder) + 1
    BY FilesWritten
  <2> QED BY <2>1 DEF NewRun, RunStates
<1>5. RunsOK
  <2>1. \A p \in Runs : dirs[p].path = None
    BY InitDirs, Members, StoreAssumption
  <2>2. \A path : path = None => RunOK(NewRun, path)
    BY DEF RunOK, NewRun, Staged
  <2> QED BY <1>3, <2>1, <2>2 DEF RunsOK
<1>6. client = [k \in Clients |-> IdleClient]
  BY DEF Init
<1>7. client \in [Clients -> ClientStates] /\ ClientsOK
  BY <1>6, Idle DEF ClientsOK
<1>8. stale = {} /\ opened = {} /\ suspended = {} /\ faults = 0
  BY DEF Init
<1>9. completed \in Seq(Dirs)
  <2>1. completed \in Seq(Earlier) /\ Earlier \subseteq Dirs
    BY InitOrder, Members
  <2> QED BY <2>1
<1>10. TypeOK
  <2>1. run \in [Runs -> RunStates]
    BY <1>3, <1>4
  <2>2. \A d, e \in Existing : d # e => dirs[d].path # dirs[e].path
    BY InitDirs
  <2> QED BY <1>1, <1>7, <1>8, <1>9, <2>1, <2>2, InitOrder, InitDirs DEF TypeOK
<1> QED BY <1>2, <1>5, <1>7, <1>10 DEF StoreInv

LEMMA StoreInvStep == StoreInv /\ [Next]_vars => StoreInv'
<1> SUFFICES ASSUME StoreInv, [Next]_vars PROVE StoreInv'
  OBVIOUS
<1>1. DirsInv' /\ RunsInv' /\ ClientsInv' /\ HistoryInv'
  BY DirsStep, RunsStep, ClientsStep, HistoryStep
<1> QED BY <1>1 DEF DirsInv, RunsInv, ClientsInv, HistoryInv, StoreInv, TypeOK

LEMMA Stored == Spec => []StoreInv
BY InitStore, StoreInvStep, PTL DEF Spec

\* Directories, their order, runs and clients have their types, and no path is that of
\* two directories, whatever processes stage, rename and remove at once.
THEOREM TypeCorrect == Spec => []TypeOK
<1>1. StoreInv => TypeOK
  BY DEF StoreInv
<1> QED BY <1>1, Stored, PTL

\* What a client has assembled is one snapshot, whole and undamaged, whatever is pruned,
\* replaced or damaged while it reads: each file is read again by path and checked.
THEOREM AssembledIsGenuine == Spec => []AssembledGenuine
<1>1. StoreInv => AssembledGenuine
  <2> SUFFICES ASSUME StoreInv, NEW k \in Clients, client[k].pc = "done"
               PROVE  client[k].got = [i \in DOMAIN Pages |->
                        [page |-> Pages[i], content |-> client[k].content, sound |-> TRUE]]
    BY DEF AssembledGenuine
  <2> DEFINE c == client[k]
  <2>1. c \in ClientStates /\ ClientOK(c)
    BY DEF StoreInv, TypeOK, ClientsOK
  <2>2. c.got \in Seq([page : ToSet(Pages), content : Contents, sound : BOOLEAN])
    BY <2>1 DEF ClientStates
  <2>3. /\ Len(c.got) = Len(Pages)
        /\ \A i \in 1 .. Len(c.got) :
             c.got[i] = [page |-> Pages[i], content |-> c.content, sound |-> TRUE]
    BY <2>1 DEF ClientOK
  <2>4. DOMAIN Pages = 1 .. Len(Pages)
    BY StoreAssumption
  <2>5. c.got = [i \in 1 .. Len(c.got) |-> c.got[i]]
    BY <2>2
  <2> HIDE DEF c
  <2>6. c.got = [i \in DOMAIN Pages |->
                   [page |-> Pages[i], content |-> c.content, sound |-> TRUE]]
    BY <2>3, <2>4, <2>5
  <2> QED BY <2>6 DEF c
<1> QED BY <1>1, Stored, PTL

-----------------------------------------------------------------------------
(* What the actions of a run do to it. *)

Becomes(p, pc, content, at, doomed, handle) ==
  /\ run'[p].pc = pc /\ run'[p].content = content /\ run'[p].at = at
  /\ run'[p].doomed = doomed /\ run'[p].handle = handle
  /\ \A q \in Runs \ {p} : run'[q] = run[q]

LEMMA MovedTo ==
  ASSUME StoreInv, NEW p \in Runs, NEW pc, Go(p, pc)
  PROVE  Becomes(p, pc, run[p].content, run[p].at, run[p].doomed, run[p].handle)
<1>1. run \in [Runs -> RunStates]
  BY DEF StoreInv, TypeOK
<1> QED BY <1>1 DEF Go, Becomes, RunStates

LEMMA FinishedWith ==
  ASSUME StoreInv, NEW p \in Runs, NEW ok, NEW all,
         run' = [run EXCEPT ![p].pc = "remove", ![p].ok = ok, ![p].doomed = all]
  PROVE  Becomes(p, "remove", run[p].content, run[p].at, all, run[p].handle)
<1>1. run \in [Runs -> RunStates]
  BY DEF StoreInv, TypeOK
<1> QED BY <1>1 DEF Becomes, RunStates

\* A run that gives up removes its own staging directory only.
GivesUp(p) ==
  /\ run[p].pc \in {"write", "compare", "rename"}
  /\ Becomes(p, "remove", run[p].content, run[p].at, <<Staging(p)>>, run[p].handle)

LEMMA GaveUp ==
  ASSUME StoreInv, NEW p \in Runs, Finish(p, FALSE, << >>)
  PROVE  Becomes(p, "remove", run[p].content, run[p].at, <<Staging(p)>>, run[p].handle)
<1>1. run' = [run EXCEPT ![p].pc = "remove", ![p].ok = FALSE, ![p].doomed = <<Staging(p)>>]
  BY DEF Finish
<1> QED BY <1>1, FinishedWith

\* The next entry of the list to remove is done with.
Drops(p) ==
  /\ run[p].pc = "remove" /\ run[p].doomed # << >>
  /\ Becomes(p, "remove", run[p].content, run[p].at, Tail(run[p].doomed), None)

Steps(p, from, to) ==
  /\ run[p].pc = from
  /\ Becomes(p, to, run[p].content, run[p].at, run[p].doomed, run[p].handle)

LEMMA RunEffects ==
  ASSUME StoreInv, NEW p \in Runs
  PROVE  /\ \A c \in Contents : Request(p, c) =>
              /\ run[p].pc = "new"
              /\ Becomes(p, "download", c, run[p].at, run[p].doomed, run[p].handle)
         /\ DownloadFails(p) => Steps(p, "download", "answer")
         /\ Stage(p) => Steps(p, "download", "write")
         /\ Write(p) => /\ run[p].pc = "write"
                        /\ \E pc \in {"write", "check"} :
                             Becomes(p, pc, run[p].content, run[p].at + 1, run[p].doomed, run[p].handle)
         /\ WriteFails(p) \/ RenameFails(p) => GivesUp(p)
         /\ Check(p) => Steps(p, "check", "rename") \/ Steps(p, "check", "compare")
         /\ Compare(p) => GivesUp(p) \/ Steps(p, "compare", "prune")
         /\ Rename(p) => Steps(p, "rename", "prune")
         /\ Prune(p) => /\ run[p].pc = "prune"
                        /\ \E doomed \in Seq(Paths) :
                             /\ Becomes(p, "remove", run[p].content, run[p].at,
                                        Append(doomed, Staging(p)), run[p].handle)
                             /\ {doomed[i] : i \in 1 .. Len(doomed)}
                                  = {dirs[d].path : d \in StaleStaging \cup Excess(p)}
         /\ Open(p) =>
              \/ At(Doomed(p)) = {} /\ run[p].handle = None /\ Drops(p) /\ UNCHANGED opened
              \/ \E d \in At(Doomed(p)) :
                   /\ run[p].pc = "remove" /\ run[p].doomed # << >> /\ run[p].handle = None
                   /\ Becomes(p, "remove", run[p].content, run[p].at, run[p].doomed, d)
                   /\ opened' = opened \cup {d}
         /\ Unlink(p) => run[p].pc = "remove" /\ run' = run
         /\ RemoveDir(p) \/ RemoveFails(p) => run[p].handle # None /\ Drops(p)
         /\ Removed(p) => run[p].doomed = << >> /\ Steps(p, "remove", "answer")
         /\ Answer(p) => Steps(p, "answer", "done")
         /\ Crash(p) => /\ run[p].pc \notin {"new", "done"}
                        /\ Becomes(p, "done", run[p].content, run[p].at, << >>, None)
<1>0. run \in [Runs -> RunStates] /\ RunOK(run[p], dirs[p].path)
  BY DEF StoreInv, TypeOK, RunsOK
<1>1. ASSUME NEW c \in Contents, Request(p, c)
      PROVE  /\ run[p].pc = "new"
             /\ Becomes(p, "download", c, run[p].at, run[p].doomed, run[p].handle)
  BY <1>0, <1>1 DEF Request, Becomes, RunStates
<1>2. DownloadFails(p) => Steps(p, "download", "answer")
  BY MovedTo DEF DownloadFails, Steps
<1>3. Stage(p) => Steps(p, "download", "write")
  BY MovedTo DEF Stage, Steps
<1>4. ASSUME Write(p)
      PROVE  /\ run[p].pc = "write"
             /\ \E pc \in {"write", "check"} :
                  Becomes(p, pc, run[p].content, run[p].at + 1, run[p].doomed, run[p].handle)
  <2>1. PICK pc \in {"write", "check"} : run' = [run EXCEPT ![p].at = @ + 1, ![p].pc = pc]
    BY <1>4 DEF Write
  <2>2. Becomes(p, pc, run[p].content, run[p].at + 1, run[p].doomed, run[p].handle)
    BY <1>0, <2>1 DEF Becomes, RunStates
  <2> QED BY <1>4, <2>2 DEF Write
<1>5. WriteFails(p) \/ RenameFails(p) => GivesUp(p)
  BY GaveUp DEF WriteFails, RenameFails, GivesUp
<1>6. Check(p) => Steps(p, "check", "rename") \/ Steps(p, "check", "compare")
  BY MovedTo DEF Check, Steps
<1>7. Compare(p) => GivesUp(p) \/ Steps(p, "compare", "prune")
  BY GaveUp, MovedTo DEF Compare, Steps, GivesUp
<1>8. Rename(p) => Steps(p, "rename", "prune")
  BY MovedTo DEF Rename, Steps
<1>9. ASSUME Prune(p)
      PROVE  /\ run[p].pc = "prune"
             /\ \E doomed \in Seq(Paths) :
                  /\ Becomes(p, "remove", run[p].content, run[p].at,
                             Append(doomed, Staging(p)), run[p].handle)
                  /\ {doomed[i] : i \in 1 .. Len(doomed)}
                       = {dirs[d].path : d \in StaleStaging \cup Excess(p)}
  <2>1. run[p].pc = "prune"
    BY <1>9 DEF Prune
  <2>2. PICK doomed \in Seq(Paths) :
              /\ run' = [run EXCEPT ![p].pc = "remove", ![p].ok = TRUE,
                                    ![p].doomed = Append(doomed, Staging(p))]
              /\ {doomed[i] : i \in 1 .. Len(doomed)}
                   = {dirs[d].path : d \in StaleStaging \cup Excess(p)}
    BY <1>9, PruneDooms DEF StoreInv
  <2>3. Becomes(p, "remove", run[p].content, run[p].at, Append(doomed, Staging(p)), run[p].handle)
    BY <2>2, FinishedWith
  <2> QED BY <2>1, <2>2, <2>3
<1>10. ASSUME Open(p)
       PROVE  \/ At(Doomed(p)) = {} /\ run[p].handle = None /\ Drops(p) /\ UNCHANGED opened
              \/ \E d \in At(Doomed(p)) :
                   /\ run[p].pc = "remove" /\ run[p].doomed # << >> /\ run[p].handle = None
                   /\ Becomes(p, "remove", run[p].content, run[p].at, run[p].doomed, d)
                   /\ opened' = opened \cup {d}
  <2>1. run[p].pc = "remove" /\ run[p].handle = None /\ run[p].doomed # << >>
    BY <1>10 DEF Open
  <2>2. CASE /\ At(Doomed(p)) = {} /\ UNCHANGED opened
             /\ run' = [run EXCEPT ![p].doomed = Tail(@)]
    BY <1>0, <2>1, <2>2 DEF Drops, Becomes, RunStates
  <2>3. ASSUME NEW d \in At(Doomed(p)), run' = [run EXCEPT ![p].handle = d]
        PROVE  Becomes(p, "remove", run[p].content, run[p].at, run[p].doomed, d)
    BY <1>0, <2>1, <2>3 DEF Becomes, RunStates
  <2> QED BY <1>10, <2>1, <2>2, <2>3 DEF Open
<1>11. Unlink(p) => run[p].pc = "remove" /\ run' = run
  BY DEF Unlink
<1>12. ASSUME RemoveDir(p) \/ RemoveFails(p) PROVE run[p].handle # None /\ Drops(p)
  <2>1. /\ run[p].pc = "remove" /\ run[p].handle # None
        /\ run' = [run EXCEPT ![p].handle = None, ![p].doomed = Tail(@)]
    BY <1>12 DEF RemoveDir, RemoveFails
  <2>2. run[p].doomed # << >>
    BY <1>0, <2>1 DEF RunOK
  <2> QED BY <1>0, <2>1, <2>2 DEF Drops, Becomes, RunStates
<1>13. Removed(p) => run[p].doomed = << >> /\ Steps(p, "remove", "answer")
  BY MovedTo DEF Removed, Steps
<1>14. Answer(p) => Steps(p, "answer", "done")
  BY MovedTo DEF Answer, Steps
<1>15. ASSUME Crash(p)
       PROVE  /\ run[p].pc \notin {"new", "done"}
              /\ Becomes(p, "done", run[p].content, run[p].at, << >>, None)
  BY <1>0, <1>15 DEF Crash, Becomes, RunStates
<1> QED BY <1>1, <1>2, <1>3, <1>4, <1>5, <1>6, <1>7, <1>8, <1>9, <1>10, <1>11, <1>12, <1>13,
           <1>14, <1>15

\* Every step, by the run that takes it.
LEMMA RunCases ==
  ASSUME StoreInv, [Next]_vars
  PROVE  \/ \E p \in Runs :
              \/ \E c \in Contents : Request(p, c)
              \/ DownloadFails(p) \/ Stage(p) \/ Write(p) \/ WriteFails(p) \/ Check(p) \/ Compare(p)
              \/ Rename(p) \/ RenameFails(p) \/ Prune(p) \/ Open(p) \/ RemoveDir(p)
              \/ RemoveFails(p) \/ Removed(p) \/ Answer(p) \/ Crash(p)
         \/ run' = run
<1>1. \A p \in Runs : Age(p) \/ Unlink(p) => run' = run
  BY DEF Age, Unlink
<1>2. \A k \in Clients : Paging(k) => run' = run
  BY DEF Paging, ReadIndex, ReadManifest, ReadPage, Read, GiveUp
<1>3. Damage \/ UNCHANGED vars => run' = run
  BY DEF Damage, vars
<1> QED BY <1>1, <1>2, <1>3 DEF Next, Refreshing

-----------------------------------------------------------------------------
(* Who may change a directory. *)

LEMMA ListsToRemove ==
  ASSUME NEW s \in Seq(Paths)
  PROVE  /\ ToSet(s) = {s[i] : i \in 1 .. Len(s)}
         /\ \A x \in Paths : ToSet(Append(s, x)) = ToSet(s) \cup {x}
         /\ s # << >> => /\ Tail(s) \in Seq(Paths) /\ ToSet(s) = ToSet(Tail(s)) \cup {Head(s)}
                         /\ \A x \in ToSet(s) : x \in Paths
<1>1. \A t \in Seq(Paths) : ToSet(t) = {t[i] : i \in 1 .. Len(t)}
  BY DEF ToSet
<1>2. ASSUME NEW x \in Paths PROVE ToSet(Append(s, x)) = ToSet(s) \cup {x}
  <2> DEFINE t == Append(s, x)
  <2>1. t \in Seq(Paths) /\ Len(t) = Len(s) + 1 /\ t[Len(s) + 1] = x /\ Len(s) \in Nat
        /\ \A i \in 1 .. Len(s) : t[i] = s[i]
    OBVIOUS
  <2> HIDE DEF t
  <2>2. 1 .. Len(t) = (1 .. Len(s)) \cup {Len(s) + 1}
    BY <2>1
  <2>3. {t[i] : i \in 1 .. Len(t)} = {s[i] : i \in 1 .. Len(s)} \cup {x}
    BY <2>1, <2>2
  <2> QED BY <1>1, <2>1, <2>3 DEF t
<1>3. ASSUME s # << >>
      PROVE  Tail(s) \in Seq(Paths) /\ ToSet(s) = ToSet(Tail(s)) \cup {Head(s)}
  <2> DEFINE t == Tail(s)
  <2>1. t \in Seq(Paths) /\ Len(t) = Len(s) - 1 /\ Head(s) = s[1] /\ Len(s) \in Nat \ {0}
        /\ \A i \in 1 .. Len(t) : t[i] = s[i + 1]
    BY <1>3
  <2> HIDE DEF t
  <2>2. \A i \in 1 .. Len(s) : i = 1 \/ (i - 1 \in 1 .. Len(t) /\ s[i] = t[i - 1])
    BY <2>1
  <2>3. \A i \in 1 .. Len(t) : i + 1 \in 1 .. Len(s) /\ t[i] = s[i + 1]
    BY <2>1
  <2>4. 1 \in 1 .. Len(s)
    BY <2>1
  <2> DEFINE A == {s[i] : i \in 1 .. Len(s)}
             B == {t[i] : i \in 1 .. Len(t)}
  <2>a. ASSUME NEW x \in A PROVE x \in B \cup {s[1]}
    <3>1. PICK i \in 1 .. Len(s) : x = s[i]
      OBVIOUS
    <3> QED BY <2>2, <3>1
  <2>b. B \subseteq A
    BY <2>3
  <2>c. s[1] \in A
    BY <2>4
  <2> HIDE DEF A, B
  <2>d. A = B \cup {s[1]}
    BY <2>a, <2>b, <2>c
  <2>5. {s[i] : i \in 1 .. Len(s)} = {t[i] : i \in 1 .. Len(t)} \cup {s[1]}
    BY <2>d DEF A, B
  <2> QED BY <1>1, <2>1, <2>5 DEF t
<1>4. \A x \in ToSet(s) : x \in Paths
  BY <1>1
<1> QED BY <1>1, <1>2, <1>3, <1>4

\* Runs go on, and what was opened or suspended stays so.
LEMMA Onward ==
  ASSUME StoreInv, [Next]_vars
  PROVE  /\ \A p \in Runs : /\ run'[p].pc \in {"new", "download"} => run[p].pc \in {"new", "download"}
                            /\ run[p].pc \in Late => run'[p].pc \in Late
                            /\ run[p].pc = "done" => run'[p].pc = "done"
         /\ opened \subseteq opened' /\ suspended \subseteq suspended'
<1>1. opened \subseteq opened' /\ suspended \subseteq suspended'
  BY ZenonT(60) DEF Next, Refreshing, Paging, vars, history, Request, DownloadFails, Stage, Write, WriteFails,
         Check, Compare, Commits, Rename, RenameFails, Prune, Open, Unlink, RemoveDir, RemoveFails,
         Removed, Answer, Crash, Age, ReadIndex, ReadManifest, ReadPage, Read, GiveUp, Damage
<1>2. ASSUME NEW q \in Runs
      PROVE  /\ run'[q].pc \in {"new", "download"} => run[q].pc \in {"new", "download"}
             /\ run[q].pc \in Late => run'[q].pc \in Late
             /\ run[q].pc = "done" => run'[q].pc = "done"
  <2> DEFINE G == /\ run'[q].pc \in {"new", "download"} => run[q].pc \in {"new", "download"}
                  /\ run[q].pc \in Late => run'[q].pc \in Late
                  /\ run[q].pc = "done" => run'[q].pc = "done"
  <2>1. CASE run' = run
    BY <2>1
  <2>2. ASSUME NEW p \in Runs, p # q,
               \E pc, content, at, doomed, handle : Becomes(p, pc, content, at, doomed, handle)
        PROVE  G
    BY <2>2 DEF Becomes
  <2>3. ASSUME NEW p \in Runs,
               \/ \E c \in Contents : Request(p, c)
               \/ DownloadFails(p) \/ Stage(p) \/ Write(p) \/ WriteFails(p) \/ Check(p) \/ Compare(p)
               \/ Rename(p) \/ RenameFails(p) \/ Prune(p) \/ Open(p) \/ RemoveDir(p)
               \/ RemoveFails(p) \/ Removed(p) \/ Answer(p) \/ Crash(p)
        PROVE  \E from, pc, content, at, doomed, handle :
                 /\ Becomes(p, pc, content, at, doomed, handle)
                 /\ run[p].pc = from
                 /\ pc \in {"new", "download"} => from \in {"new", "download"}
                 /\ from \in Late => pc \in Late
                 /\ from = "done" => pc = "done"
    <3> DEFINE Goes(from, pc) ==
                 /\ \E content, at, doomed, handle : Becomes(p, pc, content, at, doomed, handle)
                 /\ run[p].pc = from
                 /\ pc \in {"new", "download"} => from \in {"new", "download"}
                 /\ from \in Late => pc \in Late
                 /\ from = "done" => pc = "done"
    <3>0. ASSUME NEW from, NEW pc, Steps(p, from, pc),
                 pc \in {"new", "download"} => from \in {"new", "download"},
                 from \in Late => pc \in Late, from = "done" => pc = "done"
          PROVE  Goes(from, pc)
      BY <3>0 DEF Steps
    <3>1. ASSUME NEW c \in Contents, Request(p, c) PROVE Goes("new", "download")
      BY <3>1, RunEffects DEF Late
    <3>2. CASE DownloadFails(p)
      <4>1. Steps(p, "download", "answer") BY <3>2, RunEffects
      <4>2. Goes("download", "answer") BY <3>0, <4>1 DEF Late
      <4> QED BY <4>2
    <3>3. CASE Stage(p)
      <4>1. Steps(p, "download", "write") BY <3>3, RunEffects
      <4>2. Goes("download", "write") BY <3>0, <4>1 DEF Late
      <4> QED BY <4>2
    <3>4. CASE Write(p)
      <4>1. PICK pc \in {"write", "check"} :
              Becomes(p, pc, run[p].content, run[p].at + 1, run[p].doomed, run[p].handle)
        BY <3>4, RunEffects
      <4>2. run[p].pc = "write" BY <3>4, RunEffects
      <4>3. Goes("write", pc) BY <4>1, <4>2 DEF Late
      <4> QED BY <4>3
    <3>5. CASE WriteFails(p) \/ RenameFails(p) \/ Compare(p)
      <4>1. GivesUp(p) \/ Steps(p, "compare", "prune") BY <3>5, RunEffects
      <4>2. CASE GivesUp(p)
        <5>1. Goes(run[p].pc, "remove") BY <4>2 DEF GivesUp, Late
        <5> QED BY <5>1
      <4>3. CASE Steps(p, "compare", "prune")
        <5>1. Goes("compare", "prune") BY <3>0, <4>3 DEF Late
        <5> QED BY <5>1
      <4> QED BY <4>1, <4>2, <4>3
    <3>6. CASE Check(p)
      <4>1. \E pc \in {"rename", "compare"} : Steps(p, "check", pc) BY <3>6, RunEffects
      <4>2. \E pc \in {"rename", "compare"} : Goes("check", pc) BY <3>0, <4>1 DEF Late
      <4> QED BY <4>2
    <3>7. CASE Rename(p)
      <4>1. Steps(p, "rename", "prune") BY <3>7, RunEffects
      <4>2. Goes("rename", "prune") BY <3>0, <4>1 DEF Late
      <4> QED BY <4>2
    <3>8. CASE Prune(p)
      <4>1. Goes("prune", "remove") BY <3>8, RunEffects DEF Late
      <4> QED BY <4>1
    <3>9. CASE Open(p) \/ RemoveDir(p) \/ RemoveFails(p)
      <4>1. Drops(p) \/ (run[p].pc = "remove" /\ \E d :
              Becomes(p, "remove", run[p].content, run[p].at, run[p].doomed, d))
        BY <3>9, RunEffects
      <4>2. Goes("remove", "remove") BY <4>1 DEF Drops, Late
      <4> QED BY <4>2
    <3>10. CASE Removed(p) \/ Answer(p)
      <4>1. Steps(p, "remove", "answer") \/ Steps(p, "answer", "done") BY <3>10, RunEffects
      <4>2. Goes("remove", "answer") \/ Goes("answer", "done") BY <3>0, <4>1 DEF Late
      <4> QED BY <4>2
    <3>11. CASE Crash(p)
      <4>1. Goes(run[p].pc, "done") BY <3>11, RunEffects DEF Late
      <4> QED BY <4>1
    <3> HIDE DEF Goes
    <3>12. (\E from, pc : Goes(from, pc)) =>
             \E from, pc, content, at, doomed, handle :
               /\ Becomes(p, pc, content, at, doomed, handle)
               /\ run[p].pc = from
               /\ pc \in {"new", "download"} => from \in {"new", "download"}
               /\ from \in Late => pc \in Late
               /\ from = "done" => pc = "done"
      BY DEF Goes
    <3>13. CASE \E c \in Contents : Request(p, c)
      <4>1. Goes("new", "download") BY <3>1, <3>13
      <4> QED BY <3>12, <4>1
    <3> QED
      BY <2>3, <3>2, <3>3, <3>4, <3>5, <3>6, <3>7, <3>8, <3>9, <3>10, <3>11, <3>13
  <2>4. ASSUME NEW p \in Runs,
               \E from, pc, content, at, doomed, handle :
                 /\ Becomes(p, pc, content, at, doomed, handle)
                 /\ run[p].pc = from
                 /\ pc \in {"new", "download"} => from \in {"new", "download"}
                 /\ from \in Late => pc \in Late
                 /\ from = "done" => pc = "done"
        PROVE  G
    BY <2>4 DEF Becomes
  <2>5. G
    BY <2>1, <2>3, <2>4, RunCases
  <2> QED BY <2>5
<1> QED BY <1>1, <1>2

\* How directories become stale, opened and suspended.
LEMMA NewlyMarked ==
  ASSUME StoreInv, [Next]_vars
  PROVE  /\ \A d \in stale' \ stale : /\ d \in Runs /\ dirs[d].path = Staging(d)
                                      /\ d \in suspended' \/ run[d].pc = "done"
         /\ \A d \in opened' \ opened : \E q \in Runs :
              d \in Dirs /\ dirs[d].path \in ToSet(run[q].doomed)
         /\ \A d \in suspended' \ suspended : dirs[d].path = Staging(d)
<1>1. ASSUME NEW p \in Runs, Age(p)
      PROVE  /\ \A d \in stale' \ stale : /\ d \in Runs /\ dirs[d].path = Staging(d)
                                          /\ d \in suspended' \/ run[d].pc = "done"
             /\ opened' = opened
             /\ \A d \in suspended' \ suspended : dirs[d].path = Staging(d)
  BY <1>1 DEF Age
<1>2. ASSUME NEW p \in Runs, Open(p)
      PROVE  /\ stale' = stale /\ suspended' = suspended
             /\ \A d \in opened' \ opened : \E q \in Runs :
                  d \in Dirs /\ dirs[d].path \in ToSet(run[q].doomed)
  <2>1. stale' = stale /\ suspended' = suspended
    BY <1>2 DEF Open
  <2>2. ASSUME NEW d \in At(Doomed(p)), run[p].doomed # << >>
        PROVE  d \in Dirs /\ dirs[d].path \in ToSet(run[p].doomed)
    <3>1. run[p].doomed \in Seq(Paths)
      BY DEF StoreInv, TypeOK, RunStates
    <3>2. Head(run[p].doomed) \in ToSet(run[p].doomed)
      BY <2>2, <3>1, ListsToRemove
    <3> QED BY <3>2 DEF At, Doomed
  <2>3. \/ opened' = opened
        \/ run[p].doomed # << >> /\ \E d \in At(Doomed(p)) : opened' = opened \cup {d}
    BY <1>2, RunEffects
  <2> QED BY <2>1, <2>2, <2>3
<1>3. \A p \in Runs : \/ (\E c \in Contents : Request(p, c)) \/ Crash(p) \/ DownloadFails(p)
                      \/ Stage(p) \/ Write(p) \/ WriteFails(p) \/ Check(p) \/ Compare(p)
                      \/ Rename(p) \/ RenameFails(p) \/ Prune(p) \/ Unlink(p) \/ RemoveDir(p)
                      \/ RemoveFails(p) \/ Removed(p) \/ Answer(p)
                      => stale' \subseteq stale /\ opened' = opened /\ suspended' = suspended
  BY ZenonT(60) DEF Request, Crash, DownloadFails, Stage, Write, WriteFails, Check, Compare, Commits, Rename,
         RenameFails, Prune, Unlink, RemoveDir, RemoveFails, Removed, Answer, history
<1>4. (\E k \in Clients : Paging(k)) \/ Damage \/ UNCHANGED vars
        => stale' = stale /\ opened' = opened /\ suspended' = suspended
  BY DEF Paging, ReadIndex, ReadManifest, ReadPage, Read, GiveUp, Damage, vars, history
<1> DEFINE G == /\ \A d \in stale' \ stale : /\ d \in Runs /\ dirs[d].path = Staging(d)
                                             /\ d \in suspended' \/ run[d].pc = "done"
                /\ \A d \in opened' \ opened : \E q \in Runs :
                     d \in Dirs /\ dirs[d].path \in ToSet(run[q].doomed)
                /\ \A d \in suspended' \ suspended : dirs[d].path = Staging(d)
<1>5. (stale' \subseteq stale /\ opened' = opened /\ suspended' = suspended) => G
  OBVIOUS
<1>6. \A p \in Runs : Age(p) => G
  BY <1>1
<1>7. \A p \in Runs : Open(p) => G
  BY <1>2
<1> HIDE DEF G
<1>8. G
  BY <1>3, <1>4, <1>5, <1>6, <1>7 DEF Next, Refreshing
<1> QED BY <1>8 DEF G

\* What runs are newly about to remove, and that a removal goes on.
LEMMA NewlyDoomed ==
  ASSUME StoreInv, [Next]_vars, NEW q \in Runs
  PROVE  /\ \A x \in ToSet(run'[q].doomed) \ ToSet(run[q].doomed) :
              \/ x = Staging(q) /\ run'[q].pc \in Late
              \/ \E d \in StaleStaging \cup Excess(q) : x = dirs[d].path
         /\ run'[q].handle \in {None, run[q].handle} \cup (opened' \cap Dirs)
<1> DEFINE G(doomed, handle, pc) ==
      /\ \A x \in ToSet(doomed) \ ToSet(run[q].doomed) :
           \/ x = Staging(q) /\ pc \in Late
           \/ \E d \in StaleStaging \cup Excess(q) : x = dirs[d].path
      /\ handle \in {None, run[q].handle} \cup (opened' \cap Dirs)
<1>0. run[q].doomed \in Seq(Paths) /\ Staging(q) \in Paths
  BY Locations, Members DEF StoreInv, TypeOK, RunStates
<1>1. \A pc : G(run[q].doomed, run[q].handle, pc)
  OBVIOUS
<1>2. \A pc : G(<<Staging(q)>>, run[q].handle, pc) \/ pc \notin Late
  <2>1. ToSet(<<Staging(q)>>) = {Staging(q)}
    BY DEF ToSet
  <2> QED BY <2>1
<1>3. \A pc : G(<< >>, None, pc)
  <2>1. ToSet(<< >>) = {}
    BY DEF ToSet
  <2> QED BY <2>1
<1>4. ASSUME run[q].doomed # << >> PROVE \A pc : G(Tail(run[q].doomed), None, pc)
  BY <1>0, <1>4, ListsToRemove
<1>5. ASSUME Prune(q) PROVE G(run'[q].doomed, run'[q].handle, run'[q].pc)
  <2>1. PICK doomed \in Seq(Paths) :
           /\ Becomes(q, "remove", run[q].content, run[q].at, Append(doomed, Staging(q)), run[q].handle)
           /\ {doomed[i] : i \in 1 .. Len(doomed)}
                = {dirs[d].path : d \in StaleStaging \cup Excess(q)}
    BY <1>5, RunEffects
  <2>2. ToSet(Append(doomed, Staging(q))) = ToSet(doomed) \cup {Staging(q)}
    BY <1>0, <2>1, ListsToRemove
  <2>3. ToSet(doomed) = {dirs[d].path : d \in StaleStaging \cup Excess(q)}
    BY <2>1, ListsToRemove
  <2> QED BY <2>1, <2>2, <2>3 DEF Becomes, Late
<1> HIDE DEF G
<1>6. CASE run' = run
  BY <1>1, <1>6
<1>7. ASSUME NEW p \in Runs,
             \/ \E c \in Contents : Request(p, c)
             \/ DownloadFails(p) \/ Stage(p) \/ Write(p) \/ WriteFails(p) \/ Check(p) \/ Compare(p)
             \/ Rename(p) \/ RenameFails(p) \/ Prune(p) \/ Open(p) \/ RemoveDir(p)
             \/ RemoveFails(p) \/ Removed(p) \/ Answer(p) \/ Crash(p)
      PROVE  G(run'[q].doomed, run'[q].handle, run'[q].pc)
  <2>1. CASE p # q
    <3>1. run'[q] = run[q]
      BY <1>7, <2>1, RunEffects DEF Steps, GivesUp, Drops, Becomes
    <3> QED BY <1>1, <3>1
  <2>2. CASE p = q
    <3>1. CASE Prune(q)
      BY <1>5, <3>1
    <3>2. CASE Open(q)
      <4>1. CASE Drops(q)
        BY <1>4, <4>1 DEF Drops, Becomes
      <4>2. ASSUME NEW d \in At(Doomed(q)), opened' = opened \cup {d},
                   Becomes(q, "remove", run[q].content, run[q].at, run[q].doomed, d)
            PROVE  G(run'[q].doomed, run'[q].handle, run'[q].pc)
        <5>1. run'[q].doomed = run[q].doomed /\ run'[q].handle = d /\ d \in opened' \cap Dirs
          BY <4>2 DEF Becomes, At
        <5> QED BY <5>1 DEF G
      <4> QED BY <3>2, <4>1, <4>2, RunEffects
    <3>3. CASE Crash(q)
      BY <1>3, <3>3, RunEffects DEF Becomes
    <3>4. CASE RemoveDir(q) \/ RemoveFails(q)
      BY <1>4, <3>4, RunEffects DEF Drops, Becomes
    <3>5. CASE WriteFails(q) \/ RenameFails(q) \/ (Compare(q) /\ GivesUp(q))
      <4>1. GivesUp(q)
        BY <3>5, RunEffects
      <4>2. "remove" \in Late
        BY DEF Late
      <4> QED BY <1>2, <4>1, <4>2 DEF GivesUp, Becomes
    <3>6. CASE \/ \E c \in Contents : Request(q, c)
               \/ DownloadFails(q) \/ Stage(q) \/ Write(q) \/ Check(q) \/ (Compare(q) /\ ~GivesUp(q))
               \/ Rename(q) \/ Removed(q) \/ Answer(q)
      <4>1. run'[q].doomed = run[q].doomed /\ run'[q].handle = run[q].handle
        BY <3>6, RunEffects DEF Steps, Becomes
      <4> QED BY <1>1, <4>1
    <3> QED BY <1>7, <2>2, <3>1, <3>2, <3>3, <3>4, <3>5, <3>6
  <2> QED BY <2>1, <2>2
<1>8. G(run'[q].doomed, run'[q].handle, run'[q].pc)
  BY <1>6, <1>7, <1>1, RunCases
<1> QED BY <1>8 DEF G

LEMMA ReleasedStays ==
  ASSUME StoreInv, [Next]_vars, NEW p \in Runs, Released(p)
  PROVE  Released(p)'
BY Onward DEF Released

\* A directory whose removal was not begun changes by its own run only, or makes way.
LEMMA Untouched ==
  ASSUME StoreInv, RemovalsOK, [Next]_vars, NEW d \in Dirs, d \notin opened
  PROVE  \/ Same(d)
         \/ d \in Runs /\ (Stage(d) \/ Write(d) \/ Rename(d))
         \/ dirs[d].path \in Snapshots /\ dirs'[d].path = None
<1>1. ASSUME NEW p \in Runs, Stage(p) PROVE Same(d) \/ p = d
  BY <1>1, StageEffect
<1>2. ASSUME NEW p \in Runs, Write(p) PROVE Same(d) \/ p = d
  BY <1>2, WriteEffect
<1>3. ASSUME NEW p \in Runs, Rename(p)
      PROVE  Same(d) \/ p = d \/ (dirs[d].path \in Snapshots /\ dirs'[d].path = None)
  BY <1>3, RenameEffect DEF Snapshots
<1>4. ASSUME NEW p \in Runs, Unlink(p) PROVE Same(d)
  <2>1. run[p].handle # d
    BY <1>4 DEF RemovalsOK, Unlink
  <2> QED BY <1>4, <2>1, UnlinkEffect
<1>5. ASSUME NEW p \in Runs, RemoveDir(p) PROVE Same(d)
  <2>1. run[p].handle # d
    BY <1>5 DEF RemovalsOK, RemoveDir
  <2> QED BY <1>5, <2>1, RemoveDirEffect
<1>6. CASE Damage
  BY <1>6, DamageEffect
<1>7. CASE DirsStill
  BY <1>7 DEF DirsStill, Same
<1> QED BY <1>1, <1>2, <1>3, <1>4, <1>5, <1>6, <1>7, DirsCases

\* Paths change by the run that stages or renames a directory, else they are given up.
LEMMA PathsChange ==
  ASSUME StoreInv, [Next]_vars, NEW d \in Dirs
  PROVE  \/ dirs'[d].path \in {None, dirs[d].path}
         \/ d \in Runs /\ Stage(d) /\ dirs'[d].path = Staging(d)
         \/ d \in Runs /\ Rename(d)
<1>1. ASSUME NEW p \in Runs, Stage(p)
      PROVE dirs'[d].path = dirs[d].path \/ (p = d /\ dirs'[d].path = Staging(d))
  BY <1>1, StageEffect DEF Same
<1>2. ASSUME NEW p \in Runs, Write(p) PROVE dirs'[d].path = dirs[d].path
  BY <1>2, WriteEffect DEF Same
<1>3. ASSUME NEW p \in Runs, Rename(p) PROVE dirs'[d].path \in {None, dirs[d].path} \/ p = d
  BY <1>3, RenameEffect DEF Same
<1>4. ASSUME NEW p \in Runs, Unlink(p) PROVE dirs'[d].path = dirs[d].path
  BY <1>4, UnlinkEffect DEF Same
<1>5. ASSUME NEW p \in Runs, RemoveDir(p) PROVE dirs'[d].path \in {None, dirs[d].path}
  BY <1>5, RemoveDirEffect DEF Same
<1>6. Damage => dirs'[d].path = dirs[d].path
  BY DamageEffect DEF Same
<1>7. DirsStill => dirs'[d].path = dirs[d].path
  BY DEF DirsStill
<1> QED BY <1>1, <1>2, <1>3, <1>4, <1>5, <1>6, <1>7, DirsCases

LEMMA FreshStep == StoreInv /\ OwnedInv /\ [Next]_vars => FreshOK'
<1> SUFFICES ASSUME StoreInv, OwnedInv, [Next]_vars, NEW p \in Runs,
                    run'[p].pc \in {"new", "download"}
             PROVE  p \notin stale' \cup opened' \cup suspended'
  BY DEF FreshOK
<1>1. run[p].pc \in {"new", "download"}
  BY Onward
<1>2. dirs[p].path = None
  BY <1>1 DEF StoreInv, RunsOK, RunOK
<1>3. p \notin stale \cup opened \cup suspended
  BY <1>1 DEF OwnedInv, FreshOK
<1>4. dirs[p].path # Staging(p) /\ p \in Dirs
  BY <1>2, Locations, Members
<1>5. \A q \in Runs : dirs[p].path \notin ToSet(run[q].doomed)
  <2> SUFFICES ASSUME NEW q \in Runs PROVE None \notin ToSet(run[q].doomed)
    BY <1>2
  <2>1. run[q].doomed \in Seq(Paths)
    BY DEF StoreInv, TypeOK, RunStates
  <2>2. \A i \in 1 .. Len(run[q].doomed) : run[q].doomed[i] \in Paths
    BY <2>1
  <2> QED BY <2>1, <2>2, ListsToRemove, NoneAssumption
<1> QED BY <1>3, <1>4, <1>5, NewlyMarked

LEMMA RemovalsStep == StoreInv /\ OwnedInv /\ [Next]_vars => RemovalsOK'
<1> SUFFICES ASSUME StoreInv, OwnedInv, [Next]_vars PROVE RemovalsOK'
  OBVIOUS
<1>0. RemovalsOK /\ DirsOK
  BY DEF OwnedInv, StoreInv
<1>1. ASSUME NEW p \in Runs, dirs'[p].path \in Snapshots PROVE run'[p].pc \in Late
  <2>1. p \in Dirs
    BY Members
  <2>2. CASE Rename(p)
    BY <2>2, RunEffects DEF Steps, Becomes, Late
  <2>3. CASE ~Rename(p)
    <3>1. dirs[p].path \in Snapshots
      BY <1>1, <2>1, <2>3, PathsChange, Locations
    <3> QED BY <1>0, <3>1, Onward DEF RemovalsOK
  <2> QED BY <2>2, <2>3
<1>2. ASSUME NEW p \in Runs, p \in opened' PROVE Released(p)'
  <2>1. CASE p \in opened
    BY <1>0, <2>1, ReleasedStays DEF RemovalsOK
  <2>2. CASE p \notin opened
    <3>1. PICK q \in Runs : p \in Dirs /\ dirs[p].path \in ToSet(run[q].doomed)
      BY <1>2, <2>2, NewlyMarked
    <3>2. dirs[p].path \in {None, Staging(p)} \cup Snapshots
      BY <1>0, <3>1 DEF DirsOK
    <3>3. dirs[p].path # None
      <4>1. run[q].doomed \in Seq(Paths)
        BY DEF StoreInv, TypeOK, RunStates
      <4>2. \A i \in 1 .. Len(run[q].doomed) : run[q].doomed[i] \in Paths
        BY <4>1
      <4> QED BY <3>1, <4>1, <4>2, ListsToRemove, NoneAssumption
    <3>4. Released(p)
      BY <1>0, <3>1, <3>2, <3>3 DEF RemovalsOK, Released
    <3> QED BY <3>4, ReleasedStays
  <2> QED BY <2>1, <2>2
<1>3. ASSUME NEW p \in stale' PROVE p \in suspended' \/ run'[p].pc = "done"
  <2>1. stale \subseteq Runs
    BY DEF StoreInv, TypeOK
  <2> QED BY <1>0, <1>3, <2>1, NewlyMarked, Onward DEF RemovalsOK
<1>4. ASSUME NEW p \in Runs, NEW q \in Runs, Staging(p) \in ToSet(run'[q].doomed)
      PROVE  Released(p)'
  <2>1. CASE Staging(p) \in ToSet(run[q].doomed)
    BY <1>0, <2>1, ReleasedStays DEF RemovalsOK
  <2>2. CASE Staging(p) = Staging(q) /\ run'[q].pc \in Late
    <3>1. p = q
      BY <2>2, Locations, Members
    <3> QED BY <2>2, <3>1 DEF Released
  <2>3. ASSUME NEW d \in StaleStaging \cup Excess(q), Staging(p) = dirs[d].path
        PROVE  Released(p)'
    <3>1. CASE d \in StaleStaging
      <4>1. d \in stale /\ d \in Runs /\ dirs[d].path = Staging(d)
        BY <3>1 DEF StaleStaging, StoreInv, TypeOK
      <4>2. d = p
        BY <2>3, <4>1, Locations, Members
      <4>3. Released(p)
        BY <1>0, <4>1, <4>2 DEF RemovalsOK, Released, Late
      <4> QED BY <4>3, ReleasedStays
    <3>2. CASE d \in Excess(q)
      <4>1. dirs[d].path \in Snapshots
        BY <3>2 DEF Excess, Committed, Snapshots
      <4> QED BY <2>3, <4>1, Locations, Members
    <3> QED BY <3>1, <3>2
  <2> QED BY <1>4, <2>1, <2>2, <2>3, NewlyDoomed
<1>5. ASSUME NEW p \in Runs, run'[p].handle # None PROVE run'[p].handle \in opened'
  BY <1>0, <1>5, NewlyDoomed, Onward DEF RemovalsOK
<1> QED BY <1>1, <1>2, <1>3, <1>4, <1>5 DEF RemovalsOK, Released

LEMMA StagedStep == StoreInv /\ OwnedInv /\ [Next]_vars => StagedOK'
<1> SUFFICES ASSUME StoreInv, OwnedInv, [Next]_vars, NEW p \in Runs, p \notin opened',
                    run'[p].pc \in Staged
             PROVE  /\ dirs'[p].path = Staging(p)
                    /\ dirs'[p].content = run'[p].content
                    /\ dirs'[p].files = Written(run'[p].at - 1)
  BY DEF StagedOK
<1>0. p \notin opened /\ p \in Dirs /\ RemovalsOK /\ run[p].at \in Nat
  BY Onward, Members, FilesWritten DEF OwnedInv, StoreInv, TypeOK, RunStates
<1>1. CASE Stage(p)
  <2>1. run'[p].at = run[p].at /\ run'[p].content = run[p].content /\ run[p].at = 1
    BY <1>1, RunEffects DEF Steps, Becomes, StoreInv, RunsOK, RunOK
  <2>2. run'[p].at - 1 = 0
    BY <2>1
  <2>3. Written(run'[p].at - 1) = {}
    BY <2>2, FilesWritten
  <2> QED BY <1>1, <2>1, <2>3, StageEffect
<1>2. CASE Write(p)
  <2>1. /\ run[p].pc = "write" /\ run'[p].at = run[p].at + 1 /\ run'[p].content = run[p].content
    BY <1>2, RunEffects DEF Becomes
  <2>2. /\ dirs[p].path = Staging(p) /\ dirs[p].content = run[p].content
        /\ dirs[p].files = Written(run[p].at - 1)
    BY <1>0, <2>1 DEF OwnedInv, StagedOK, Staged
  <2>3. run[p].at - 1 \in Nat /\ run[p].at \in Nat
    <3>1. run[p].at \in 1 .. Len(WriteOrder) + 1
      BY DEF StoreInv, TypeOK, RunStates
    <3> QED BY <3>1
  <2>4. Written(run[p].at) = Written(run[p].at - 1) \cup {WriteOrder[run[p].at]}
    <3> DEFINE n == run[p].at - 1
    <3>1. n + 1 = run[p].at
      BY <2>3
    <3> HIDE DEF n
    <3>2. n \in Nat => Written(n + 1) = Written(n) \cup {WriteOrder[n + 1]}
      BY FilesWritten
    <3>3. Written(n + 1) = Written(n) \cup {WriteOrder[n + 1]}
      BY <2>3, <3>2 DEF n
    <3> QED BY <3>1, <3>3 DEF n
  <2>5. run'[p].at - 1 = run[p].at
    BY <1>0, <2>1
  <2> QED BY <1>2, <2>1, <2>2, <2>4, <2>5, WriteEffect
<1>3. CASE ~Stage(p) /\ ~Write(p)
  <2>1. /\ run[p].pc \in Staged /\ run'[p].at = run[p].at /\ run'[p].content = run[p].content
        /\ ~Rename(p)
    <3>1. CASE run' = run
      <4>1. ~Rename(p)
        BY <3>1, RunEffects DEF Steps, Becomes
      <4> QED BY <3>1, <4>1
    <3>2. ASSUME NEW q \in Runs, q # p,
                 \/ \E c \in Contents : Request(q, c)
                 \/ DownloadFails(q) \/ Stage(q) \/ Write(q) \/ WriteFails(q) \/ Check(q)
                 \/ Compare(q) \/ Rename(q) \/ RenameFails(q) \/ Prune(q) \/ Open(q)
                 \/ RemoveDir(q) \/ RemoveFails(q) \/ Removed(q) \/ Answer(q) \/ Crash(q)
          PROVE  run'[p] = run[p]
      BY <3>2, RunEffects DEF Steps, GivesUp, Drops, Becomes
    <3>3. ~Rename(p)
      BY RunEffects DEF Steps, Becomes, Staged
    <3>4. CASE Check(p)
      BY <3>3, <3>4, RunEffects DEF Steps, Becomes, Staged
    <3>5. CASE \/ \E c \in Contents : Request(p, c)
               \/ DownloadFails(p) \/ WriteFails(p) \/ Compare(p) \/ RenameFails(p)
               \/ Prune(p) \/ Open(p) \/ RemoveDir(p) \/ RemoveFails(p) \/ Removed(p)
               \/ Answer(p) \/ Crash(p)
      BY <3>5, RunEffects DEF Steps, GivesUp, Drops, Becomes, Staged
    <3> QED BY <1>3, <3>1, <3>2, <3>3, <3>4, <3>5, RunCases
  <2>2. /\ dirs[p].path = Staging(p) /\ dirs[p].content = run[p].content
        /\ dirs[p].files = Written(run[p].at - 1)
    BY <1>0, <2>1 DEF OwnedInv, StagedOK
  <2>3. Same(p)
    BY <1>0, <1>3, <2>1, <2>2, Untouched, Locations
  <2> QED BY <2>1, <2>2, <2>3 DEF Same
<1> QED BY <1>1, <1>2, <1>3

LEMMA CommittedStep == StoreInv /\ OwnedInv /\ [Next]_vars => CommittedOK'
<1> SUFFICES ASSUME StoreInv, OwnedInv, [Next]_vars, NEW d \in Committed', d \notin opened'
             PROVE  dirs'[d].files = Files /\ dirs'[d].path = Snapshot(dirs'[d].content)
  BY DEF CommittedOK
<1>0. d \notin opened /\ d \in Dirs /\ RemovalsOK /\ dirs'[d].path \in Snapshots
  BY Onward DEF OwnedInv, Committed, Snapshots
<1>1. CASE d \in Runs /\ Rename(d)
  <2>1. run[d].pc = "rename" /\ run[d].at = Len(WriteOrder) + 1
    BY <1>1, RunEffects DEF Steps, StoreInv, RunsOK, RunOK, Staged
  <2>2. dirs[d].content = run[d].content /\ dirs[d].files = Written(run[d].at - 1)
    BY <1>0, <1>1, <2>1 DEF OwnedInv, StagedOK, Staged
  <2>3. run[d].at - 1 = Len(WriteOrder)
    BY <2>1, FilesWritten
  <2>4. dirs[d].files = Files
    BY <2>2, <2>3, FilesWritten
  <2> QED BY <1>1, <2>2, <2>4, RenameEffect
<1>2. CASE ~(d \in Runs /\ Rename(d))
  <2>1. dirs[d].path \in Snapshots
    BY <1>0, <1>2, PathsChange, Locations
  <2>2. Same(d)
    <3>1. ~(d \in Runs /\ (Stage(d) \/ Write(d)))
      BY <2>1, StageEffect, WriteEffect, Locations, Members
    <3> QED BY <1>0, <1>2, <3>1, Untouched, Locations
  <2>3. d \in Committed
    BY <1>0, <2>1 DEF Committed, Snapshots
  <2> QED BY <1>0, <2>2, <2>3 DEF OwnedInv, CommittedOK, Same
<1> QED BY <1>1, <1>2

LEMMA InitOwned == Init => OwnedInv
<1> SUFFICES ASSUME Init PROVE OwnedInv
  OBVIOUS
<1>1. stale = {} /\ opened = {} /\ suspended = {} /\ run = [p \in Runs |-> NewRun]
  BY DEF Init
<1>2. \A p \in Runs : run[p].pc = "new" /\ run[p].doomed = << >> /\ run[p].handle = None
  BY <1>1 DEF NewRun
<1>3. \A p \in Runs : dirs[p].path = None
  BY InitDirs, Members, StoreAssumption
<1>4. FreshOK
  BY <1>1 DEF FreshOK
<1>5. StagedOK
  BY <1>2 DEF StagedOK, Staged
<1>6. RemovalsOK
  <2>1. ToSet(<< >>) = {}
    BY DEF ToSet
  <2> QED BY <1>1, <1>2, <1>3, <2>1, Locations DEF RemovalsOK
<1>7. CommittedOK
  BY InitDirs DEF CommittedOK
<1> QED BY <1>4, <1>5, <1>6, <1>7 DEF OwnedInv

LEMMA Owned == Spec => [](StoreInv /\ OwnedInv)
<1>1. OwnedInv /\ StoreInv /\ [Next]_vars => OwnedInv'
  BY FreshStep, StagedStep, RemovalsStep, CommittedStep DEF OwnedInv
<1> QED BY <1>1, InitOwned, InitStore, StoreInvStep, PTL DEF Spec

\* What is found under an ID is whole and of that content until its removal is begun: the
\* directory was renamed after its index was written, and nobody else touched it before.
THEOREM CommittedIsComplete == Spec => []CommittedComplete
<1>1. StoreInv /\ OwnedInv => CommittedComplete
  BY DEF StoreInv, OwnedInv, CommittedOK, CommittedComplete
<1> QED BY <1>1, Owned, PTL

\* While a run that was not suspended stages, no other run begins to remove its directory:
\* only stale staging directories are pruned, and staging names are not reused.
THEOREM StagingIsOwned == Spec => []StagingOwned
<1>1. StoreInv /\ OwnedInv => StagingOwned
  <2> SUFFICES ASSUME StoreInv, OwnedInv, NEW p \in Runs \ suspended, run[p].pc \in Staged
               PROVE  /\ dirs[p].path = Staging(p)
                      /\ dirs[p].files = {WriteOrder[i] : i \in 1 .. run[p].at - 1}
    BY DEF StagingOwned, Staged
  <2>1. p \notin opened
    BY DEF OwnedInv, RemovalsOK, Released, Staged, Late
  <2> QED BY <2>1 DEF OwnedInv, StagedOK, Written
<1> QED BY <1>1, Owned, PTL

-----------------------------------------------------------------------------
(* Modification times and commits. *)

LEMMA IndexedStep ==
  ASSUME StoreInv, RecentInv, [Next]_vars
  PROVE  /\ \A d \in Dirs : indexed'[d] <= Len(completed')
         /\ Len(completed) \in Nat /\ Len(completed') \in Nat /\ Len(completed) <= Len(completed')
         /\ \A i \in 1 .. Len(completed) : completed'[i] = completed[i]
         /\ \A d \in Dirs : indexed'[d] # indexed[d] => d \in Runs /\ Write(d)
<1>0. completed \in Seq(Dirs) /\ indexed \in [Dirs -> Nat] /\ \A d \in Dirs : indexed[d] <= Len(completed)
  BY DEF StoreInv, TypeOK, RecentInv
<1>1. Len(completed) \in Nat
  BY <1>0
<1>2. CASE UNCHANGED <<completed, indexed>>
  BY <1>0, <1>1, <1>2
<1>3. ASSUME NEW p \in Runs, Write(p)
      PROVE  completed' = completed /\ indexed' = [indexed EXCEPT ![p] = Len(completed)]
  BY <1>3 DEF Write
<1>4. ASSUME NEW p \in Runs, Compare(p) \/ Rename(p)
      PROVE  UNCHANGED <<completed, indexed>> \/ \E d \in Dirs : Commits(d)
  BY <1>4, Members DEF Compare, Rename, At, history
<1>5. ASSUME NEW d \in Dirs, Commits(d)
      PROVE  /\ indexed' = indexed /\ Len(completed') = Len(completed) + 1
             /\ \A i \in 1 .. Len(completed) : completed'[i] = completed[i]
  BY <1>0, <1>5 DEF Commits
<1>6. \A p \in Runs : \/ (\E c \in Contents : Request(p, c)) \/ Crash(p) \/ DownloadFails(p)
                      \/ Stage(p) \/ WriteFails(p) \/ Check(p) \/ RenameFails(p) \/ Prune(p)
                      \/ Open(p) \/ Unlink(p) \/ RemoveDir(p) \/ RemoveFails(p) \/ Removed(p)
                      \/ Answer(p) \/ Age(p)
                      => UNCHANGED <<completed, indexed>>
  BY DEF Request, Crash, DownloadFails, Stage, WriteFails, Check, RenameFails, Prune, Open, Unlink,
         RemoveDir, RemoveFails, Removed, Answer, Age, history
<1>7. (\E k \in Clients : Paging(k)) \/ Damage \/ UNCHANGED vars => UNCHANGED <<completed, indexed>>
  BY DEF Paging, ReadIndex, ReadManifest, ReadPage, Read, GiveUp, Damage, vars, history
<1>8. \/ UNCHANGED <<completed, indexed>>
      \/ \E p \in Runs : /\ Write(p) /\ completed' = completed
                         /\ indexed' = [indexed EXCEPT ![p] = Len(completed)]
      \/ /\ indexed' = indexed /\ Len(completed') = Len(completed) + 1
         /\ \A i \in 1 .. Len(completed) : completed'[i] = completed[i]
  BY <1>3, <1>4, <1>5, <1>6, <1>7 DEF Next, Refreshing
<1>9. CASE \E p \in Runs : /\ Write(p) /\ completed' = completed
                           /\ indexed' = [indexed EXCEPT ![p] = Len(completed)]
  BY <1>0, <1>1, <1>9, Members
<1>10. CASE /\ indexed' = indexed /\ Len(completed') = Len(completed) + 1
            /\ \A i \in 1 .. Len(completed) : completed'[i] = completed[i]
  BY <1>0, <1>1, <1>10
<1> QED BY <1>2, <1>8, <1>9, <1>10

WasNewer(e, d) ==
  /\ <<e, d>> \in newer /\ d \in Existing /\ e \in Existing /\ dirs[e].files = Files
  /\ e \in Committed \/ (e \in Runs /\ Rename(e))

\* A directory becomes newer than another by being touched, which for a whole one is
\* before it is committed.
LEMMA NewerStep ==
  ASSUME StoreInv, [Next]_vars, NEW d \in Existing', NEW e \in Existing',
         <<e, d>> \in newer', e \in Committed', dirs'[e].files = Files
  PROVE  WasNewer(e, d) /\ ~(d \in Runs /\ Write(d))
<1>0. Ordered /\ DirsInv /\ e \in Dirs /\ d \in Dirs
  BY DEF StoreInv, TypeOK, DirsInv, Existing
<1>1. ASSUME NEW p \in Runs, Stage(p) PROVE WasNewer(e, d)
  <2>1. newer' = Touched(p)
    BY <1>1 DEF Stage
  <2>2. p \notin Committed'
    BY <1>1, StageEffect, Locations DEF Committed, Snapshots
  <2>3. e # p /\ d # p /\ <<e, d>> \in newer
    BY <1>0, <1>1, <2>1, <2>2, StageEffect, OrderTouched
  <2> QED BY <1>0, <1>1, <2>3, StageEffect DEF Same, WasNewer
<1>2. ASSUME NEW p \in Runs, Write(p) PROVE WasNewer(e, d) /\ d # p
  <2>1. newer' = Touched(p)
    BY <1>2 DEF Write
  <2>2. Existing' = Existing \cup {p} /\ p \in Dirs
    BY <1>2, WriteEffect DEF Existing
  <2>3. e # p /\ d # p /\ <<e, d>> \in newer
    BY <1>0, <1>2, <2>1, <2>2, WriteEffect, OrderTouched
  <2> QED BY <1>0, <1>2, <2>3, WriteEffect DEF Same, WasNewer
<1>3. ASSUME NEW p \in Runs, Rename(p) PROVE WasNewer(e, d)
  <2> DEFINE old == At(Snapshot(run[p].content))
  <2>1. newer' = Forgotten(old)
    BY <1>3 DEF Rename
  <2>2. <<e, d>> \in newer
    BY <2>1 DEF Forgotten
  <2>3. /\ Existing' = Existing \ old /\ Committed' = (Committed \ old) \cup {p}
        /\ dirs'[p].files = dirs[p].files
        /\ \A x \in Dirs \ (old \cup {p}) : Same(x)
    BY <1>3, RenameEffect
  <2> HIDE DEF old
  <2>4. e = p \/ e \in Committed
    BY <2>3
  <2>5. dirs[e].files = Files
    BY <1>0, <2>3 DEF Same
  <2> QED BY <1>3, <2>2, <2>3, <2>4, <2>5 DEF WasNewer
<1>4. ASSUME NEW p \in Runs, Unlink(p) PROVE WasNewer(e, d)
  <2> DEFINE h == run[p].handle
  <2>1. newer' = Touched(h)
    BY <1>4 DEF Unlink
  <2>2. /\ h \in Existing /\ Existing' = Existing /\ Committed' = Committed
        /\ dirs'[h].files # Files
        /\ \A x \in Dirs \ {h} : Same(x)
    BY <1>4, UnlinkEffect
  <2> HIDE DEF h
  <2>3. e # h
    BY <2>2
  <2>4. h \in Dirs /\ Existing' = Existing \cup {h}
    BY <2>2 DEF Existing
  <2>5. <<e, d>> \in newer
    BY <1>0, <2>1, <2>3, <2>4, OrderTouched
  <2> QED BY <1>0, <2>2, <2>3, <2>5 DEF Same, WasNewer
<1>5. ASSUME NEW p \in Runs, RemoveDir(p) PROVE WasNewer(e, d)
  <2> DEFINE h == run[p].handle
  <2>1. /\ h \in Dirs
        /\ \A x \in Dirs \ {h} : Same(x)
        /\ \/ dirs' = dirs /\ newer' = newer
           \/ /\ Existing' = Existing \ {h} /\ newer' = Forgotten({h})
              /\ Committed' = Committed \ {h}
    BY <1>5, RemoveDirEffect
  <2> HIDE DEF h
  <2>2. CASE dirs' = dirs /\ newer' = newer
    BY <2>2 DEF Existing, Committed, WasNewer
  <2>3. CASE /\ Existing' = Existing \ {h} /\ newer' = Forgotten({h})
             /\ Committed' = Committed \ {h}
    BY <1>0, <2>1, <2>3 DEF Forgotten, Same, WasNewer
  <2> QED BY <2>1, <2>2, <2>3
<1>6. ASSUME Damage PROVE WasNewer(e, d)
  <2>1. newer' = newer
    BY <1>6 DEF Damage
  <2>2. Same(e) /\ Existing' = Existing /\ Committed' = Committed
    BY <1>0, <1>6, DamageEffect
  <2>3. dirs[e].files = Files
    BY <2>2 DEF Same
  <2> QED BY <2>1, <2>2, <2>3 DEF WasNewer
<1>7. ASSUME DirsStill PROVE WasNewer(e, d)
  BY <1>7 DEF DirsStill, Existing, Committed, WasNewer
<1>8. ~(d \in Runs /\ Write(d))
  BY <1>2
<1>9. WasNewer(e, d)
  BY <1>1, <1>2, <1>3, <1>4, <1>5, <1>6, <1>7, DirsCases
<1> QED BY <1>8, <1>9

LEMMA RecentStep == StoreInv /\ RecentInv /\ [Next]_vars => RecentInv'
<1> SUFFICES ASSUME StoreInv, RecentInv, [Next]_vars PROVE RecentInv'
  OBVIOUS
<1>1. ASSUME NEW d \in Existing', NEW e \in Existing',
             <<e, d>> \in newer', e \in Committed', dirs'[e].files = Files
      PROVE  \E i \in indexed'[d] + 1 .. Len(completed') : completed'[i] = e
  <2>1. /\ <<e, d>> \in newer /\ d \in Existing /\ e \in Existing /\ dirs[e].files = Files
        /\ ~(d \in Runs /\ Write(d))
        /\ e \in Committed \/ (e \in Runs /\ Rename(e))
    BY <1>1, NewerStep DEF WasNewer
  <2>2. d \in Dirs
    BY <2>1 DEF Existing
  <2>3. indexed'[d] = indexed[d] /\ indexed[d] \in Nat /\ indexed[d] <= Len(completed)
    BY <2>1, <2>2, IndexedStep DEF StoreInv, TypeOK, RecentInv
  <2>4. CASE e \in Committed
    <3>1. PICK i \in indexed[d] + 1 .. Len(completed) : completed[i] = e
      BY <2>1, <2>4 DEF RecentInv
    <3>2. i \in 1 .. Len(completed) /\ i \in indexed'[d] + 1 .. Len(completed')
      BY <2>3, <3>1, IndexedStep
    <3> QED BY <3>1, <3>2, IndexedStep
  <2>5. CASE e \in Runs /\ Rename(e)
    <3>1. completed' = Append(completed, e) /\ completed \in Seq(Dirs) /\ e \in Dirs
      BY <2>5, Members DEF Rename, Commits, StoreInv, TypeOK
    <3>2. Len(completed') = Len(completed) + 1 /\ completed'[Len(completed) + 1] = e
      BY <3>1
    <3>3. Len(completed) + 1 \in indexed'[d] + 1 .. Len(completed')
      BY <2>3, <3>2, IndexedStep
    <3> QED BY <3>2, <3>3
  <2> QED BY <2>1, <2>4, <2>5
<1>2. \A d \in Dirs : indexed'[d] <= Len(completed')
  BY IndexedStep
<1> QED BY <1>1, <1>2 DEF RecentInv

LEMMA InitRecent == Init => RecentInv
<1> SUFFICES ASSUME Init PROVE RecentInv
  OBVIOUS
<1>0. completed \in Seq(Earlier)
  BY InitOrder
<1>1. Len(completed) \in Nat
  BY <1>0
<1>2. /\ Earlier = {completed[i] : i \in 1 .. Len(completed)}
      /\ \A i, j \in 1 .. Len(completed) :
              /\ completed[i] = completed[j] => i = j
              /\ <<completed[j], completed[i]>> \in newer <=> i < j
      /\ \A i \in 1 .. Len(completed) : indexed[completed[i]] = i - 1
      /\ \A d \in Dirs \ Earlier : indexed[d] = 0
  BY InitOrder
<1>3. \A d \in Earlier : \E i \in 1 .. Len(completed) : completed[i] = d
  BY <1>2
<1>4. ASSUME NEW d \in Dirs PROVE indexed[d] <= Len(completed)
  <2>1. CASE d \in Earlier
    <3>1. PICK i \in 1 .. Len(completed) : completed[i] = d
      BY <1>3, <2>1
    <3>2. indexed[d] = i - 1
      BY <1>2, <3>1
    <3> QED BY <1>1, <3>2
  <2>2. CASE d \notin Earlier
    BY <1>1, <1>2, <2>2
  <2> QED BY <2>1, <2>2
<1>5. ASSUME NEW d \in Existing, NEW e \in Existing, <<e, d>> \in newer
      PROVE  \E i \in indexed[d] + 1 .. Len(completed) : completed[i] = e
  <2>1. d \in Earlier /\ e \in Earlier
    BY InitDirs
  <2>2. PICK i \in 1 .. Len(completed) : completed[i] = d
    BY <1>3, <2>1
  <2>3. PICK j \in 1 .. Len(completed) : completed[j] = e
    BY <1>3, <2>1
  <2>4. i < j /\ indexed[d] = i - 1
    BY <1>2, <1>5, <2>2, <2>3
  <2>5. j \in indexed[d] + 1 .. Len(completed)
    BY <1>1, <2>4
  <2> QED BY <2>3, <2>5
<1> QED BY <1>4, <1>5 DEF RecentInv

\* The directories that a run's prune removes are the excess ones.
LEMMA ListedExcess ==
  ASSUME StoreInv, NEW p \in Runs, Prune(p), NEW d \in Listed(p)
  PROVE  d \in Excess(p)
<1>1. PICK doomed \in Seq(Paths) :
        /\ Becomes(p, "remove", run[p].content, run[p].at, Append(doomed, Staging(p)), run[p].handle)
        /\ {doomed[i] : i \in 1 .. Len(doomed)}
             = {dirs[x].path : x \in StaleStaging \cup Excess(p)}
  BY RunEffects
<1> DEFINE all == Append(doomed, Staging(p))
<1>2. run'[p].doomed = all
  BY <1>1 DEF Becomes
<1>3. d \in Committed /\ d \in Dirs /\ dirs[d].path \in Snapshots
  BY DEF Listed, Committed, Snapshots
<1>4. Staging(p) \in Paths
  BY Locations, Members
<1>5. ToSet(all) = ToSet(doomed) \cup {Staging(p)}
  BY <1>4, ListsToRemove
<1>6. dirs[d].path \in ToSet(all)
  BY <1>2 DEF Listed, ToSet
<1>7. dirs[d].path # Staging(p)
  BY <1>3, Locations, Members
<1>a. ToSet(doomed) = {dirs[x].path : x \in StaleStaging \cup Excess(p)}
  BY <1>1, ListsToRemove
<1>b. dirs[d].path \in ToSet(doomed)
  BY <1>5, <1>6, <1>7
<1>8. PICK x \in StaleStaging \cup Excess(p) : dirs[d].path = dirs[x].path
  BY <1>a, <1>b
<1>9. x \notin StaleStaging
  BY <1>3, <1>8, Locations, Members DEF StaleStaging, StoreInv, TypeOK
<1>10. x \in Committed
  BY <1>8, <1>9 DEF Excess
<1>11. d \in Existing /\ x \in Existing
  BY <1>3, <1>10, Locations DEF Existing, Committed, Snapshots
<1>12. d = x
  BY <1>8, <1>11 DEF StoreInv, TypeOK
<1> QED BY <1>8, <1>9, <1>12

\* Of the directories before one that is not current all but the current one are newer.
LEMMA BeforeNewer ==
  ASSUME StoreInv, NEW p \in Runs, NEW d \in Committed, NEW e \in Committed, e # d, Before(p, e, d)
  PROVE  /\ dirs[d].path # Snapshot(run[p].content)
         /\ dirs[e].path = Snapshot(run[p].content) \/ <<e, d>> \in newer
<1>1. d \in Existing /\ e \in Existing
  BY Locations DEF Existing, Committed
<1>2. dirs[d].path # dirs[e].path
  BY <1>1 DEF StoreInv, TypeOK
<1> QED BY <1>2 DEF Before

LEMMA PruneSpares ==
  ASSUME StoreInv, RecentInv, NEW p \in Runs, Prune(p),
         \A d \in Committed : dirs[d].files = Files, NEW d \in Listed(p)
  PROVE  /\ dirs[d].path # Snapshot(run[p].content)
         /\ Cardinality(SinceIndexed(d)) >= KEEP_SNAPSHOTS - 1
<1> DEFINE E == {e \in Committed \ {d} : Before(p, e, d)}
           current == {e \in Committed : dirs[e].path = Snapshot(run[p].content)}
           S == SinceIndexed(d)
<1>1. d \in Excess(p) /\ d \in Committed
  BY ListedExcess DEF Listed
<1>2. Cardinality(E) >= KEEP_SNAPSHOTS
  BY <1>1 DEF Excess
<1>3. Committed \subseteq Dirs /\ Committed \subseteq Existing
  BY Locations DEF Committed, Existing
<1>4. IsFiniteSet(E)
  BY <1>3, Members, FS_Subset
<1>5. KEEP_SNAPSHOTS \in Nat /\ KEEP_SNAPSHOTS > 0
  BY StoreAssumption
<1>6. E # {}
  BY <1>2, <1>5, FS_EmptySet
<1>7. dirs[d].path # Snapshot(run[p].content)
  BY <1>1, <1>6, BeforeNewer
<1>8. \A e, f \in current : e = f
  BY <1>3 DEF StoreInv, TypeOK
<1>9. IsFiniteSet(E \ current) /\ Cardinality(E \ current) >= KEEP_SNAPSHOTS - 1
  <2>1. CASE current = {}
    <3>1. E \ current = E
      BY <2>1
    <3>2. Cardinality(E) \in Nat
      BY <1>4, FS_CardinalityType
    <3> HIDE DEF E, current
    <3> QED BY <1>2, <1>4, <1>5, <3>1, <3>2
  <2>2. CASE current # {}
    <3>1. PICK c : current = {c}
      BY <1>8, <2>2
    <3>2. Cardinality(E) \in Nat
      BY <1>4, FS_CardinalityType
    <3>3. /\ IsFiniteSet(E \ {c})
          /\ Cardinality(E \ {c}) = IF c \in E THEN Cardinality(E) - 1 ELSE Cardinality(E)
      BY <1>4, FS_RemoveElement
    <3> HIDE DEF E, current
    <3> QED BY <1>2, <1>5, <3>1, <3>2, <3>3
  <2> QED BY <2>1, <2>2
<1>10. \A e \in E \ current : \E i \in S : completed[i] = e
  <2> SUFFICES ASSUME NEW e \in E \ current PROVE \E i \in S : completed[i] = e
    OBVIOUS
  <2>1. <<e, d>> \in newer /\ e \in Committed /\ e # d
    BY <1>1, BeforeNewer
  <2>2. PICK i \in indexed[d] + 1 .. Len(completed) : completed[i] = e
    BY <1>1, <1>3, <2>1 DEF RecentInv
  <2> QED BY <2>1, <2>2 DEF SinceIndexed
<1>11. IsFiniteSet(S)
  <2>1. indexed[d] \in Nat /\ completed \in Seq(Dirs)
    BY <1>1, <1>3 DEF StoreInv, TypeOK
  <2>2. indexed[d] + 1 \in Int /\ Len(completed) \in Int
    BY <2>1
  <2>3. IsFiniteSet(indexed[d] + 1 .. Len(completed))
    BY <2>2, FS_Interval
  <2>4. S \in SUBSET (indexed[d] + 1 .. Len(completed))
    BY DEF SinceIndexed
  <2> QED BY <2>3, <2>4, FS_Subset
<1> DEFINE f == [e \in E \ current |-> CHOOSE i \in S : completed[i] = e]
<1>12. f \in Injection(E \ current, S)
  <2>1. \A e \in E \ current : f[e] \in S /\ completed[f[e]] = e
    BY <1>10
  <2> HIDE DEF E, current, S
  <2>2. f \in [E \ current -> S]
    BY <2>1
  <2>3. \A a, b \in DOMAIN f : f[a] = f[b] => a = b
    BY <2>1, <2>2
  <2> QED BY <2>2, <2>3 DEF Injection, IsInjective
<1>13. Cardinality(E \ current) <= Cardinality(S) /\ Cardinality(S) \in Nat
       /\ Cardinality(E \ current) \in Nat
  <2> HIDE DEF E, current, S, f
  <2> QED BY <1>9, <1>11, <1>12, FS_Injection, FS_CardinalityType
<1>14. Cardinality(S) >= KEEP_SNAPSHOTS - 1
  <2> HIDE DEF E, current, S
  <2> QED BY <1>5, <1>9, <1>13
<1> QED BY <1>7, <1>14

\* A prune that finds no half removed directory spares the run's own snapshot, and
\* every other until as many have been committed since its index was written as are kept
\* beside the run's own: who is sorted before it was modified, so committed, after that.
THEOREM LatestSpared == Spec => PruneSparesLatest
<1>1. StoreInv /\ RecentInv /\ [Next]_vars =>
        [\A p \in Runs :
           (run[p].pc = "prune" /\ run'[p].pc = "remove"
              /\ \A d \in Committed : dirs[d].files = Files)
             => \A d \in Listed(p) : /\ dirs[d].path # Snapshot(run[p].content)
                                     /\ Cardinality(SinceIndexed(d)) >= KEEP_SNAPSHOTS - 1]_vars
  <2> SUFFICES ASSUME StoreInv, RecentInv, [Next]_vars, NEW p \in Runs,
                      run[p].pc = "prune", run'[p].pc = "remove",
                      \A d \in Committed : dirs[d].files = Files, NEW d \in Listed(p)
               PROVE  /\ dirs[d].path # Snapshot(run[p].content)
                      /\ Cardinality(SinceIndexed(d)) >= KEEP_SNAPSHOTS - 1
    OBVIOUS
  <2>1. Prune(p)
    <3>1. ASSUME NEW q \in Runs, q # p,
                 \/ \E c \in Contents : Request(q, c)
                 \/ DownloadFails(q) \/ Stage(q) \/ Write(q) \/ WriteFails(q) \/ Check(q)
                 \/ Compare(q) \/ Rename(q) \/ RenameFails(q) \/ Prune(q) \/ Open(q)
                 \/ RemoveDir(q) \/ RemoveFails(q) \/ Removed(q) \/ Answer(q) \/ Crash(q)
          PROVE  run'[p] = run[p]
      BY <3>1, RunEffects DEF Steps, GivesUp, Drops, Becomes
    <3>2. ASSUME \/ \E c \in Contents : Request(p, c)
                 \/ DownloadFails(p) \/ Stage(p) \/ Write(p) \/ WriteFails(p) \/ Check(p)
                 \/ Compare(p) \/ Rename(p) \/ RenameFails(p) \/ Open(p)
                 \/ RemoveDir(p) \/ RemoveFails(p) \/ Removed(p) \/ Answer(p) \/ Crash(p)
          PROVE  FALSE
      BY <3>2, RunEffects DEF Steps, GivesUp, Drops, Becomes
    <3> QED BY <3>1, <3>2, RunCases
  <2> QED BY <2>1, PruneSpares
<1>2. Spec => [](StoreInv /\ RecentInv)
  BY InitStore, InitRecent, StoreInvStep, RecentStep, PTL DEF Spec
<1> QED BY <1>1, <1>2, PTL DEF Spec, PruneSparesLatest

-----------------------------------------------------------------------------
(* What is left when the runs that prune are done. *)

LEMMA Counted ==
  ASSUME StoreInv
  PROVE  /\ IsFiniteSet(Committed) /\ Committed \subseteq Dirs /\ Committed \subseteq Existing
         /\ IsFiniteSet(Pruning) /\ Removing \subseteq Pruning
         /\ faults \in Nat /\ KEEP_SNAPSHOTS \in Nat
<1>1. Committed \in SUBSET Dirs /\ Pruning \in SUBSET Runs
  BY DEF Committed, Pruning
<1>2. IsFiniteSet(Committed) /\ IsFiniteSet(Pruning)
  BY <1>1, Members, FS_Subset
<1> QED BY <1>1, <1>2, Locations, StoreAssumption DEF Committed, Existing, Removing, Pruning, StoreInv, TypeOK

\* No two committed directories are equal in the order of the sort.
LEMMA SortOrder ==
  ASSUME StoreInv, NEW p, NEW d \in Committed, NEW e \in Committed
  PROVE  /\ d # e => Before(p, d, e) \/ Before(p, e, d)
         /\ d # e => ~Before(p, d, e) \/ ~Before(p, e, d)
         /\ \A f \in Committed : Before(p, f, d) /\ Before(p, d, e) => Before(p, f, e)
<1>1. Ordered /\ \A x, y \in Existing : x # y => dirs[x].path # dirs[y].path
  BY DEF StoreInv, TypeOK
<1>2. Committed \subseteq Existing
  BY Counted
<1> DEFINE own(x) == dirs[x].path = Snapshot(run[p].content)
<1>3. \A x, y \in Committed : own(x) /\ own(y) => x = y
  BY <1>1, <1>2
<1>4. /\ \A x, y \in Committed : Before(p, x, y) =>
           \/ own(x) /\ ~own(y)
           \/ (own(x) <=> own(y)) /\ <<x, y>> \in newer
      /\ \A x, y \in Committed :
           (own(x) /\ ~own(y)) \/ ((own(x) <=> own(y)) /\ <<x, y>> \in newer) => Before(p, x, y)
  BY DEF Before
<1>5. /\ \A x, y \in Committed : <<x, y>> \in newer <=> x # y /\ <<y, x>> \notin newer
      /\ \A x, y, z \in Committed : <<x, y>> \in newer /\ <<y, z>> \in newer => <<x, z>> \in newer
  BY <1>1, <1>2 DEF Ordered
<1> HIDE DEF own
<1>6. ASSUME d # e
      PROVE  (Before(p, d, e) \/ Before(p, e, d)) /\ (~Before(p, d, e) \/ ~Before(p, e, d))
  <2>1. <<d, e>> \in newer <=> <<e, d>> \notin newer
    BY <1>5, <1>6
  <2>2. ~Before(p, d, e) \/ ~Before(p, e, d)
    BY <1>4, <2>1
  <2>3. Before(p, d, e) \/ Before(p, e, d)
    BY <1>4, <2>1
  <2> QED BY <2>2, <2>3
<1>7. ASSUME NEW f \in Committed, Before(p, f, d), Before(p, d, e) PROVE Before(p, f, e)
  <2>1. CASE own(f)
    <3>1. CASE own(e)
      <4>1. e = f
        BY <1>3, <2>1, <3>1
      <4>2. <<f, d>> \in newer /\ <<d, f>> \in newer
        BY <1>4, <1>7, <2>1, <4>1
      <4> QED BY <1>5, <4>2
    <3>2. CASE ~own(e)
      BY <1>4, <2>1, <3>2
    <3> QED BY <3>1, <3>2
  <2>2. CASE ~own(f)
    <3>1. ~own(d) /\ <<f, d>> \in newer
      BY <1>4, <1>7, <2>2
    <3>2. ~own(e) /\ <<d, e>> \in newer
      BY <1>4, <1>7, <3>1
    <3> QED BY <1>4, <1>5, <2>2, <3>1, <3>2
  <2> QED BY <2>1, <2>2
<1> QED BY <1>6, <1>7

\* Whatever the number of directories, pruning keeps no more than KEEP_SNAPSHOTS: one
\* that is before another has fewer before it.
LEMMA KeptAreFew ==
  ASSUME StoreInv, NEW p
  PROVE  Cardinality(Committed \ Excess(p)) <= KEEP_SNAPSHOTS
<1> DEFINE pred(d) == {e \in Committed \ {d} : Before(p, e, d)}
           S == Committed \ Excess(p)
           f == [d \in S |-> Cardinality(pred(d))]
<1>1. IsFiniteSet(Committed) /\ KEEP_SNAPSHOTS \in Nat /\ KEEP_SNAPSHOTS > 0
  BY Counted, StoreAssumption
<1>2. \A d \in Committed : IsFiniteSet(pred(d)) /\ Cardinality(pred(d)) \in Nat
  <2> SUFFICES ASSUME NEW d \in Committed
               PROVE IsFiniteSet(pred(d)) /\ Cardinality(pred(d)) \in Nat
    OBVIOUS
  <2>1. pred(d) \in SUBSET Committed
    OBVIOUS
  <2> HIDE DEF pred
  <2> QED BY <1>1, <2>1, FS_Subset, FS_CardinalityType
<1>3. \A d \in S : d \in Committed /\ ~(Cardinality(pred(d)) >= KEEP_SNAPSHOTS)
  BY DEF Excess
<1>4. ASSUME NEW d \in Committed, NEW e \in Committed, d # e, Before(p, d, e)
      PROVE  Cardinality(pred(d)) < Cardinality(pred(e))
  <2>1. d \notin pred(d)
    OBVIOUS
  <2>2. pred(d) \cup {d} \in SUBSET pred(e)
    <3>1. \A x \in pred(d) : x \in Committed /\ Before(p, x, d)
      OBVIOUS
    <3>2. \A x \in pred(d) : x \in Committed /\ Before(p, x, e)
      BY <3>1, <1>4, SortOrder
    <3>3. e \notin pred(d)
      BY <1>4, SortOrder
    <3> QED BY <1>4, <3>2, <3>3
  <2> HIDE DEF pred
  <2>3. Cardinality(pred(d) \cup {d}) = Cardinality(pred(d)) + 1
    BY <1>2, <2>1, FS_AddElement
  <2>4. Cardinality(pred(d) \cup {d}) <= Cardinality(pred(e))
    BY <1>2, <2>2, FS_Subset
  <2> QED BY <1>2, <2>3, <2>4
<1>5. f \in Injection(S, 0 .. KEEP_SNAPSHOTS - 1)
  <2> HIDE DEF pred
  <2>1. \A d \in S : Cardinality(pred(d)) \in 0 .. KEEP_SNAPSHOTS - 1
    BY <1>1, <1>2, <1>3
  <2>2. \A d, e \in S : d # e => Cardinality(pred(d)) # Cardinality(pred(e))
    <3> SUFFICES ASSUME NEW d \in S, NEW e \in S, d # e
                 PROVE  Cardinality(pred(d)) # Cardinality(pred(e))
      OBVIOUS
    <3>1. d \in Committed /\ e \in Committed
      BY <1>3
    <3>2. Before(p, d, e) \/ Before(p, e, d)
      BY <3>1, SortOrder
    <3>3. Cardinality(pred(d)) < Cardinality(pred(e)) \/ Cardinality(pred(e)) < Cardinality(pred(d))
      BY <1>4, <3>1, <3>2
    <3> QED BY <1>2, <3>1, <3>3
  <2> HIDE DEF S
  <2> QED BY <2>1, <2>2 DEF Injection, IsInjective
<1>6. IsFiniteSet(0 .. KEEP_SNAPSHOTS - 1) /\ Cardinality(0 .. KEEP_SNAPSHOTS - 1) = KEEP_SNAPSHOTS
  <2>1. 0 \in Int /\ KEEP_SNAPSHOTS - 1 \in Int
    BY <1>1
  <2> QED BY <1>1, <2>1, FS_Interval
<1> HIDE DEF f, S
<1>7. Cardinality(S) <= Cardinality(0 .. KEEP_SNAPSHOTS - 1)
  BY <1>5, <1>6, FS_Injection
<1> QED BY <1>6, <1>7 DEF S

\* One more directory needs one more run that prunes, or one more fault.
LEMMA Fits ==
  ASSUME NEW L, NEW M, NEW R, NEW S, NEW m \in Nat, NEW n \in Nat, NEW k \in Nat,
         IsFiniteSet(L), IsFiniteSet(R), IsFiniteSet(S),
         Cardinality(L) <= k + Cardinality(R) + m,
         \/ M \subseteq L /\ R \subseteq S /\ m <= n
         \/ \E x : M \subseteq L \cup {x} /\ R \subseteq S /\ n = m + 1
         \/ \E x : M \subseteq L /\ R \subseteq S \cup {x} /\ n = m + 1
         \/ \E x : M \subseteq L \cup {x} /\ x \notin R /\ R \cup {x} \subseteq S /\ m <= n
  PROVE  Cardinality(M) <= k + Cardinality(S) + n
<1>0. Cardinality(L) \in Nat /\ Cardinality(R) \in Nat /\ Cardinality(S) \in Nat
  BY FS_CardinalityType
<1>1. CASE M \subseteq L /\ R \subseteq S /\ m <= n
  <2>1. M \in SUBSET L /\ R \in SUBSET S
    BY <1>1
  <2>2. IsFiniteSet(M) /\ Cardinality(M) <= Cardinality(L) /\ Cardinality(R) <= Cardinality(S)
    BY <2>1, FS_Subset
  <2>3. Cardinality(M) \in Nat
    BY <2>2, FS_CardinalityType
  <2> QED BY <1>0, <1>1, <2>2, <2>3
<1>2. ASSUME NEW x
      PROVE  /\ IsFiniteSet(L \cup {x}) /\ Cardinality(L \cup {x}) <= Cardinality(L) + 1
             /\ IsFiniteSet(S \cup {x}) /\ Cardinality(S \cup {x}) <= Cardinality(S) + 1
             /\ Cardinality(L \cup {x}) \in Nat /\ Cardinality(S \cup {x}) \in Nat
             /\ IsFiniteSet(R \cup {x}) /\ Cardinality(R \cup {x}) \in Nat
             /\ x \notin R => Cardinality(R \cup {x}) = Cardinality(R) + 1
  <2>1. /\ IsFiniteSet(L \cup {x}) /\ IsFiniteSet(S \cup {x}) /\ IsFiniteSet(R \cup {x})
        /\ Cardinality(L \cup {x}) = IF x \in L THEN Cardinality(L) ELSE Cardinality(L) + 1
        /\ Cardinality(S \cup {x}) = IF x \in S THEN Cardinality(S) ELSE Cardinality(S) + 1
        /\ Cardinality(R \cup {x}) = IF x \in R THEN Cardinality(R) ELSE Cardinality(R) + 1
    BY FS_AddElement
  <2> QED BY <1>0, <2>1
<1>3. ASSUME NEW x, M \subseteq L \cup {x}, R \subseteq S, n = m + 1
      PROVE  Cardinality(M) <= k + Cardinality(S) + n
  <2>1. M \in SUBSET (L \cup {x}) /\ R \in SUBSET S
    BY <1>3
  <2>2. IsFiniteSet(M) /\ Cardinality(M) <= Cardinality(L \cup {x}) /\ Cardinality(R) <= Cardinality(S)
    BY <1>2, <2>1, FS_Subset
  <2>3. Cardinality(M) \in Nat
    BY <2>2, FS_CardinalityType
  <2>4. Cardinality(L \cup {x}) <= Cardinality(L) + 1 /\ Cardinality(L \cup {x}) \in Nat
    BY <1>2
  <2> QED BY <1>0, <1>3, <2>2, <2>3, <2>4
<1>4. ASSUME NEW x, M \subseteq L, R \subseteq S \cup {x}, n = m + 1
      PROVE  Cardinality(M) <= k + Cardinality(S) + n
  <2>1. M \in SUBSET L /\ R \in SUBSET (S \cup {x})
    BY <1>4
  <2>2. IsFiniteSet(M) /\ Cardinality(M) <= Cardinality(L) /\ Cardinality(R) <= Cardinality(S \cup {x})
    BY <1>2, <2>1, FS_Subset
  <2>3. Cardinality(M) \in Nat
    BY <2>2, FS_CardinalityType
  <2>4. Cardinality(S \cup {x}) <= Cardinality(S) + 1 /\ Cardinality(S \cup {x}) \in Nat
    BY <1>2
  <2> QED BY <1>0, <1>4, <2>2, <2>3, <2>4
<1>5. ASSUME NEW x, M \subseteq L \cup {x}, x \notin R, R \cup {x} \subseteq S, m <= n
      PROVE  Cardinality(M) <= k + Cardinality(S) + n
  <2>1. M \in SUBSET (L \cup {x}) /\ R \cup {x} \in SUBSET S
    BY <1>5
  <2>2. /\ IsFiniteSet(M) /\ Cardinality(M) <= Cardinality(L \cup {x})
        /\ Cardinality(R \cup {x}) <= Cardinality(S)
    BY <1>2, <2>1, FS_Subset
  <2>3. Cardinality(M) \in Nat
    BY <2>2, FS_CardinalityType
  <2>4. /\ Cardinality(L \cup {x}) <= Cardinality(L) + 1 /\ Cardinality(L \cup {x}) \in Nat
        /\ Cardinality(R \cup {x}) = Cardinality(R) + 1
    BY <1>2, <1>5
  <2> QED BY <1>0, <1>5, <2>2, <2>3, <2>4
<1> QED BY <1>1, <1>3, <1>4, <1>5

\* A committed directory was that before, under the same path, unless it is renamed now.
LEMMA CommittedBefore ==
  ASSUME StoreInv, [Next]_vars, NEW d \in Committed', ~(d \in Runs /\ Rename(d))
  PROVE  d \in Committed /\ dirs'[d].path = dirs[d].path
<1>1. d \in Dirs /\ \E c \in Contents : dirs'[d].path = Snapshot(c)
  BY DEF Committed
<1>2. dirs'[d].path # None /\ \A p \in Dirs : dirs'[d].path # Staging(p)
  BY <1>1, Locations DEF Snapshots
<1>3. dirs'[d].path = dirs[d].path
  BY <1>1, <1>2, PathsChange, Members
<1> QED BY <1>1, <1>3 DEF Committed

\* What others will remove, they will still remove.
LEMMA StillRemoved ==
  ASSUME StoreInv, [Next]_vars, NEW q \in Runs, run'[q] = run[q],
         NEW d \in Committed', ~(d \in Runs /\ Rename(d)), d \in WillRemove(q)
  PROVE  d \in WillRemove(q)'
BY CommittedBefore DEF WillRemove

\* So does a run that goes on removing, unless it fails to.
LEMMA StillRemovedOwn ==
  ASSUME StoreInv, [Next]_vars, NEW p \in Runs, Open(p) \/ RemoveDir(p),
         NEW d \in Committed', ~(d \in Runs /\ Rename(d)), d \in WillRemove(p)
  PROVE  d \in WillRemove(p)'
<1>1. d \in Committed /\ dirs'[d].path = dirs[d].path /\ d \in Dirs /\ d \in Existing
  BY CommittedBefore, Counted
<1>2. PICK i \in 1 .. Len(run[p].doomed) :
        dirs[d].path = run[p].doomed[i] /\ (i = 1 => run[p].handle \in {None, d})
  BY DEF WillRemove
<1>3. run[p].doomed \in Seq(Paths) /\ Len(run[p].doomed) \in Nat
  BY DEF StoreInv, TypeOK, RunStates
<1>4. ASSUME i # 1, run'[p].doomed = Tail(run[p].doomed), run'[p].handle = None
      PROVE  d \in WillRemove(p)'
  <2>1. run[p].doomed # << >>
    BY <1>2, <1>3
  <2>2. i - 1 \in 1 .. Len(Tail(run[p].doomed)) /\ Tail(run[p].doomed)[i - 1] = run[p].doomed[i]
    BY <1>2, <1>3, <1>4, <2>1
  <2> QED BY <1>1, <1>2, <1>4, <2>2 DEF WillRemove
<1>5. i = 1 => dirs[d].path = Doomed(p)
  BY <1>2, <1>3 DEF Doomed
<1>6. ASSUME Drops(p), i # 1 PROVE d \in WillRemove(p)'
  BY <1>4, <1>6 DEF Drops, Becomes
<1>7. CASE Open(p)
  <2>1. CASE At(Doomed(p)) = {} /\ Drops(p)
    <3>1. i # 1
      BY <1>1, <1>5, <2>1 DEF At
    <3> QED BY <1>6, <2>1, <3>1
  <2>2. ASSUME NEW x \in At(Doomed(p)), run[p].handle = None,
               Becomes(p, "remove", run[p].content, run[p].at, run[p].doomed, x)
        PROVE  d \in WillRemove(p)'
    <3>1. i = 1 => x = d
      <4>1. x \in Dirs /\ dirs[x].path = Doomed(p)
        BY DEF At
      <4> SUFFICES ASSUME i = 1 PROVE x = d
        OBVIOUS
      <4>2. dirs[x].path = dirs[d].path /\ x \in Existing
        BY <1>1, <1>5, <4>1 DEF Existing
      <4> QED BY <1>1, <4>2 DEF StoreInv, TypeOK
    <3> QED BY <1>1, <1>2, <2>2, <3>1 DEF Becomes, WillRemove
  <2> QED BY <1>7, <2>1, <2>2, RunEffects
<1>8. CASE RemoveDir(p)
  <2>1. run[p].handle # None /\ Drops(p)
    BY <1>8, RunEffects
  <2>2. i # 1
    <3> SUFFICES ASSUME i = 1 PROVE FALSE
      OBVIOUS
    <3>1. run[p].handle = d /\ dirs[d].path = Doomed(p)
      BY <1>2, <1>5, <2>1
    <3>2. dirs'[d].path = None
      BY <1>8, <3>1, RemoveDirEffect
    <3> QED BY <1>1, <3>2 DEF Existing
  <2> QED BY <1>6, <2>1, <2>2
<1> QED BY <1>7, <1>8

\* A removal that fails leaves one directory more.
LEMMA OneMissed ==
  ASSUME StoreInv, [Next]_vars, NEW p \in Runs, RemoveFails(p),
         NEW d \in Committed', ~(d \in Runs /\ Rename(d)), d \in WillRemove(p), d # run[p].handle
  PROVE  d \in WillRemove(p)'
<1>1. d \in Committed /\ dirs'[d].path = dirs[d].path
  BY CommittedBefore
<1>2. PICK i \in 1 .. Len(run[p].doomed) :
        dirs[d].path = run[p].doomed[i] /\ (i = 1 => run[p].handle \in {None, d})
  BY DEF WillRemove
<1>3. run[p].doomed \in Seq(Paths) /\ Len(run[p].doomed) \in Nat
  BY DEF StoreInv, TypeOK, RunStates
<1>4. /\ run[p].handle # None /\ run[p].doomed # << >>
      /\ run'[p].doomed = Tail(run[p].doomed) /\ run'[p].handle = None
  BY RunEffects DEF Drops, Becomes
<1>5. i # 1
  BY <1>2, <1>4
<1>6. i - 1 \in 1 .. Len(Tail(run[p].doomed)) /\ Tail(run[p].doomed)[i - 1] = run[p].doomed[i]
  BY <1>2, <1>3, <1>4, <1>5
<1> QED BY <1>1, <1>2, <1>4, <1>6 DEF WillRemove

\* All that is left by a prune at its outset is what it keeps.
LEMMA PruneLeaves ==
  ASSUME StoreInv, [Next]_vars, NEW p \in Runs, Prune(p), NEW P, p \in P,
         \A q \in Runs : ~Rename(q)
  PROVE  Left(P)' \subseteq Committed \ Excess(p)
<1> SUFFICES ASSUME NEW d \in Left(P)', d \in Excess(p) PROVE FALSE
  <2>1. Left(P)' \subseteq Committed
    BY CommittedBefore DEF Left
  <2> QED BY <2>1
<1>1. d \in Committed' /\ d \notin WillRemove(p)'
  BY DEF Left
<1>2. d \in Committed /\ dirs'[d].path = dirs[d].path
  BY <1>1, CommittedBefore
<1>3. PICK doomed \in Seq(Paths) :
        /\ Becomes(p, "remove", run[p].content, run[p].at, Append(doomed, Staging(p)), run[p].handle)
        /\ {doomed[i] : i \in 1 .. Len(doomed)}
             = {dirs[x].path : x \in StaleStaging \cup Excess(p)}
  BY RunEffects
<1>4. run[p].handle = None
  BY RunEffects DEF StoreInv, RunsOK, RunOK
<1>5. PICK i \in 1 .. Len(doomed) : dirs[d].path = doomed[i]
  BY <1>3
<1>6. i \in 1 .. Len(Append(doomed, Staging(p))) /\ Append(doomed, Staging(p))[i] = doomed[i]
  BY <1>5
<1>7. run'[p].handle = None /\ run'[p].doomed = Append(doomed, Staging(p))
  BY <1>3, <1>4 DEF Becomes
<1>8. d \in WillRemove(p)'
  BY <1>1, <1>2, <1>5, <1>6, <1>7 DEF WillRemove
<1> QED BY <1>1, <1>8

\* What is left of Q and then of P, when only p can make a difference.
LEMMA LeftStep ==
  ASSUME StoreInv, [Next]_vars, NEW P, NEW Q, NEW p, Q \subseteq Runs,
         \A q \in Q \ {p} : q \in P /\ run'[q] = run[q],
         NEW d \in Left(P)', ~(d \in Runs /\ Rename(d)),
         p \in Q /\ d \in WillRemove(p) => p \in P /\ d \in WillRemove(p)'
  PROVE  d \in Left(Q)
<1>1. d \in Committed' /\ \A q \in P : d \notin WillRemove(q)'
  BY DEF Left
<1>2. d \in Committed
  BY <1>1, CommittedBefore
<1>3. ASSUME NEW q \in Q, d \in WillRemove(q) PROVE FALSE
  <2>1. CASE q = p
    BY <1>1, <1>3, <2>1
  <2>2. CASE q # p
    BY <1>1, <1>3, <2>2, StillRemoved
  <2> QED BY <2>1, <2>2
<1> QED BY <1>2, <1>3 DEF Left

\* The pc of a run that others' steps leave alone, and of the one that takes a step.
LEMMA OneMoves ==
  ASSUME StoreInv, NEW p \in Runs,
         \/ \E c \in Contents : Request(p, c)
         \/ DownloadFails(p) \/ Stage(p) \/ Write(p) \/ WriteFails(p) \/ Check(p) \/ Compare(p)
         \/ Rename(p) \/ RenameFails(p) \/ Prune(p) \/ Open(p) \/ RemoveDir(p)
         \/ RemoveFails(p) \/ Removed(p) \/ Answer(p) \/ Crash(p)
  PROVE  /\ \A q \in Runs \ {p} : run'[q] = run[q]
         /\ Rename(p) => run[p].pc = "rename" /\ run'[p].pc = "prune"
         /\ run[p].pc \in {"prune", "remove"} =>
              \/ Prune(p) \/ Open(p) \/ RemoveDir(p) \/ RemoveFails(p) \/ Removed(p) \/ Crash(p)
         /\ Prune(p) \/ Open(p) \/ RemoveDir(p) \/ RemoveFails(p) => run'[p].pc = "remove"
         /\ Removed(p) => run[p].pc = "remove" /\ run[p].doomed = << >> /\ run'[p].pc = "answer"
         /\ Crash(p) => run'[p].pc = "done"
<1>1. \A q \in Runs \ {p} : run'[q] = run[q]
  BY RunEffects DEF Steps, GivesUp, Drops, Becomes
<1>2. Rename(p) => run[p].pc = "rename" /\ run'[p].pc = "prune"
  BY RunEffects DEF Steps, Becomes
<1>3. run[p].pc \in {"prune", "remove"} =>
        \/ Prune(p) \/ Open(p) \/ RemoveDir(p) \/ RemoveFails(p) \/ Removed(p) \/ Crash(p)
  BY RunEffects DEF Steps, GivesUp
<1>4. Prune(p) \/ Open(p) \/ RemoveDir(p) \/ RemoveFails(p) => run'[p].pc = "remove"
  BY RunEffects DEF Drops, Becomes
<1>5. Removed(p) => run[p].pc = "remove" /\ run[p].doomed = << >> /\ run'[p].pc = "answer"
  BY RunEffects DEF Steps, Becomes
<1>6. Crash(p) => run'[p].pc = "done"
  BY RunEffects DEF Becomes
<1> QED BY <1>1, <1>2, <1>3, <1>4, <1>5, <1>6

LEMMA BoundedStep == StoreInv /\ StoreInv' /\ BoundedInv /\ [Next]_vars => BoundedInv'
<1> SUFFICES ASSUME StoreInv, StoreInv', BoundedInv, [Next]_vars, NEW P \in SUBSET Removing'
             PROVE  Cardinality(Left(P)') <= KEEP_SNAPSHOTS + Cardinality(Pruning' \ P) + faults'
  BY DEF BoundedInv, Left, WillRemove
<1>1. /\ KEEP_SNAPSHOTS \in Nat /\ faults \in Nat /\ faults' \in Nat
      /\ IsFiniteSet(Pruning) /\ IsFiniteSet(Pruning') /\ IsFiniteSet(Committed)
  <2>1. Pruning' \in SUBSET Runs
    BY DEF Pruning
  <2>2. faults' \in Nat
    BY DEF StoreInv, TypeOK
  <2> QED BY <2>1, <2>2, Counted, Members, FS_Subset
<1>2. faults' = faults \/ faults' = faults + 1
  BY FaultsStep
<1>3. /\ \A q \in Runs : q \in Pruning <=> run[q].pc \in {"prune", "remove"}
      /\ \A q \in Runs : q \in Pruning' <=> run'[q].pc \in {"prune", "remove"}
      /\ \A q \in Runs : q \in Removing <=> run[q].pc = "remove"
      /\ \A q \in Runs : q \in Removing' <=> run'[q].pc = "remove"
      /\ Removing \subseteq Pruning /\ Removing' \subseteq Pruning'
      /\ Pruning \subseteq Runs /\ Pruning' \subseteq Runs
  BY DEF Pruning, Removing
<1>4. P \subseteq Runs
  BY <1>3
\* It is enough to compare with what is left of some Q before the step.
<1>5. ASSUME NEW Q \in SUBSET Removing,
             \/ /\ Left(P)' \subseteq Left(Q) /\ Pruning \ Q \subseteq Pruning' \ P
             \/ \E x : /\ Left(P)' \subseteq Left(Q) \cup {x} /\ Pruning \ Q \subseteq Pruning' \ P
                       /\ faults' = faults + 1
             \/ \E x : /\ Left(P)' \subseteq Left(Q) /\ Pruning \ Q \subseteq (Pruning' \ P) \cup {x}
                       /\ faults' = faults + 1
             \/ \E x : /\ Left(P)' \subseteq Left(Q) \cup {x} /\ x \notin Pruning \ Q
                       /\ (Pruning \ Q) \cup {x} \subseteq Pruning' \ P
      PROVE  Cardinality(Left(P)') <= KEEP_SNAPSHOTS + Cardinality(Pruning' \ P) + faults'
  <2> DEFINE L == Left(Q)
             M == Left(P)'
             R == Pruning \ Q
             S == Pruning' \ P
             n == faults'
  <2>1. Cardinality(L) <= KEEP_SNAPSHOTS + Cardinality(R) + faults
    BY DEF BoundedInv
  <2>2. L \in SUBSET Committed /\ R \in SUBSET Pruning /\ S \in SUBSET Pruning'
    BY DEF Left
  <2>3. IsFiniteSet(L) /\ IsFiniteSet(R) /\ IsFiniteSet(S)
    BY <1>1, <2>2, FS_Subset
  <2>4. faults <= faults'
    BY <1>1, <1>2
  <2>5. \/ M \subseteq L /\ R \subseteq S /\ faults <= n
        \/ \E x : M \subseteq L \cup {x} /\ R \subseteq S /\ n = faults + 1
        \/ \E x : M \subseteq L /\ R \subseteq S \cup {x} /\ n = faults + 1
        \/ \E x : M \subseteq L \cup {x} /\ x \notin R /\ R \cup {x} \subseteq S /\ faults <= n
    BY <1>5, <2>4
  <2>6. n \in Nat /\ faults \in Nat /\ KEEP_SNAPSHOTS \in Nat
    BY <1>1
  <2> HIDE DEF L, M, R, S, n
  <2>7. Cardinality(M) <= KEEP_SNAPSHOTS + Cardinality(S) + n
    BY ONLY <2>1, <2>3, <2>5, <2>6, Fits
  <2> QED BY <2>7 DEF M, S, n
<1>6. CASE run' = run
  <2>1. \A q \in Runs : ~Rename(q)
    <3>1. ASSUME NEW q \in Runs, Rename(q) PROVE FALSE
      BY <1>6, <3>1, OneMoves
    <3> QED BY <3>1
  <2>2. P \in SUBSET Removing /\ Pruning' = Pruning
    BY <1>3, <1>6
  <2>3. Left(P)' \subseteq Left(P)
    <3>1. \A q \in P \ {None} : q \in P /\ run'[q] = run[q]
      BY <1>6
    <3>2. None \notin P
      BY <1>4, Members
    <3>3. \A d \in Left(P)' : d \in Left(P)
      BY <1>4, <2>1, <3>1, <3>2, LeftStep
    <3> QED BY <3>3
  <2> QED BY <1>5, <2>2, <2>3
<1>7. ASSUME NEW p \in Runs,
             \/ \E c \in Contents : Request(p, c)
             \/ DownloadFails(p) \/ Stage(p) \/ Write(p) \/ WriteFails(p) \/ Check(p) \/ Compare(p)
             \/ Rename(p) \/ RenameFails(p) \/ Prune(p) \/ Open(p) \/ RemoveDir(p)
             \/ RemoveFails(p) \/ Removed(p) \/ Answer(p) \/ Crash(p)
      PROVE  Cardinality(Left(P)') <= KEEP_SNAPSHOTS + Cardinality(Pruning' \ P) + faults'
  <2>1. /\ \A q \in Runs \ {p} : run'[q] = run[q]
        /\ Rename(p) => run[p].pc = "rename" /\ run'[p].pc = "prune"
        /\ run[p].pc \in {"prune", "remove"} =>
             \/ Prune(p) \/ Open(p) \/ RemoveDir(p) \/ RemoveFails(p) \/ Removed(p) \/ Crash(p)
        /\ Prune(p) \/ Open(p) \/ RemoveDir(p) \/ RemoveFails(p) => run'[p].pc = "remove"
        /\ Removed(p) => run[p].pc = "remove" /\ run[p].doomed = << >> /\ run'[p].pc = "answer"
        /\ Crash(p) => run'[p].pc = "done"
    BY <1>7, OneMoves
  <2>2. \A q \in Runs \ {p} : ~Rename(q)
    <3>1. ASSUME NEW q \in Runs \ {p}, Rename(q) PROVE FALSE
      <4>1. run'[q].pc # run[q].pc
        BY <3>1, OneMoves
      <4> QED BY <2>1, <4>1
    <3> QED BY <3>1
  <2>3. /\ \A q \in Runs \ {p} : (q \in Pruning' <=> q \in Pruning) /\ (q \in Removing' <=> q \in Removing)
        /\ P \ {p} \subseteq Removing
    BY <1>3, <1>4, <2>1
  <2>4. CASE p \notin Pruning
    <3> DEFINE Q == P \ {p}
    <3>1. Q \in SUBSET Removing /\ Pruning \ Q \subseteq Pruning' \ P
      BY <1>3, <2>3, <2>4
    <3>2. \A q \in Q \ {p} : q \in P /\ run'[q] = run[q]
      BY <1>4, <2>1
    <3>3. Q \subseteq Runs /\ p \notin Q
      BY <1>4
    <3> HIDE DEF Q
    <3>4. CASE ~Rename(p)
      <4>1. \A d \in Left(P)' : d \in Left(Q)
        BY <2>2, <3>2, <3>3, <3>4, LeftStep
      <4>2. Left(P)' \subseteq Left(Q)
        BY <4>1
      <4> QED BY <1>5, <3>1, <4>2
    <3>5. CASE Rename(p)
      <4>1. \A d \in Left(P)' \ {p} : d \in Left(Q)
        BY <2>2, <3>2, <3>3, LeftStep
      <4>2. p \in Pruning' /\ p \notin P
        BY <1>3, <2>1, <3>5
      <4>3. (Pruning \ Q) \cup {p} \subseteq Pruning' \ P /\ p \notin Pruning \ Q
        BY <2>4, <3>1, <4>2
      <4>4. Left(P)' \subseteq Left(Q) \cup {p}
        BY <4>1
      <4> QED BY <1>5, <3>1, <4>3, <4>4
    <3> QED BY <3>4, <3>5
  <2>5. CASE p \in Pruning
    <3>0. run[p].pc \in {"prune", "remove"} /\ ~Rename(p) /\ \A q \in Runs : ~Rename(q)
      BY <1>3, <2>1, <2>2, <2>5
    <3>1. \A q \in P \ {p} : q \in P /\ run'[q] = run[q]
      BY <1>4, <2>1
    <3>2. ASSUME p \notin P PROVE Left(P)' \subseteq Left(P)
      <4>1. \A d \in Left(P)' : d \in Left(P)
        BY <1>4, <3>0, <3>1, <3>2, LeftStep
      <4> QED BY <4>1
    <3>3. CASE Crash(p)
      <4>1. p \notin P /\ P \in SUBSET Removing
        BY <1>3, <2>1, <2>3, <3>3
      <4>2. Pruning \ P \subseteq (Pruning' \ P) \cup {p}
        BY <1>3, <2>3
      <4>3. faults' = faults + 1
        BY <3>3 DEF Crash, Fails
      <4>4. Left(P)' \subseteq Left(P)
        BY <3>2, <4>1
      <4> QED BY <1>5, <4>1, <4>2, <4>3, <4>4
    <3>4. CASE Removed(p)
      <4> DEFINE Q == P \cup {p}
      <4>1. p \notin P /\ Q \in SUBSET Removing /\ Q \subseteq Runs
        BY <1>3, <1>4, <2>1, <2>3, <3>4
      <4>2. Pruning \ Q \subseteq Pruning' \ P
        BY <1>3, <2>3
      <4>3. \A q \in Q \ {p} : q \in P /\ run'[q] = run[q]
        BY <3>1
      <4>4. \A d : d \notin WillRemove(p)
        BY <2>1, <3>4 DEF WillRemove
      <4> HIDE DEF Q
      <4>5. \A d \in Left(P)' : d \in Left(Q)
        BY <3>0, <4>1, <4>3, <4>4, LeftStep
      <4>6. Left(P)' \subseteq Left(Q)
        BY <4>5
      <4> QED BY <1>5, <4>1, <4>2, <4>6
    <3>5. CASE Prune(p) \/ Open(p) \/ RemoveDir(p) \/ RemoveFails(p)
      <4>1. Pruning' = Pruning
        BY <1>3, <2>1, <2>3, <2>5, <3>5
      <4>2. CASE p \notin P
        <5>1. P \in SUBSET Removing
          BY <2>3, <4>2
        <5>2. Left(P)' \subseteq Left(P)
          BY <3>2, <4>2
        <5> QED BY <1>5, <4>1, <5>1, <5>2
      <4>3. CASE p \in P /\ Prune(p)
        <5>1. Left(P)' \in SUBSET (Committed \ Excess(p))
          BY <3>0, <4>3, PruneLeaves
        <5>2. Cardinality(Committed \ Excess(p)) <= KEEP_SNAPSHOTS
          BY KeptAreFew
        <5>3. Committed \ Excess(p) \in SUBSET Committed /\ Pruning' \ P \in SUBSET Pruning'
          OBVIOUS
        <5>4. IsFiniteSet(Committed \ Excess(p)) /\ IsFiniteSet(Pruning' \ P)
          BY <1>1, <5>3, FS_Subset
        <5>5. /\ IsFiniteSet(Left(P)')
              /\ Cardinality(Left(P)') <= Cardinality(Committed \ Excess(p))
          BY <5>1, <5>4, FS_Subset
        <5>6. /\ Cardinality(Left(P)') \in Nat /\ Cardinality(Committed \ Excess(p)) \in Nat
              /\ Cardinality(Pruning' \ P) \in Nat
          BY <5>4, <5>5, FS_CardinalityType
        <5> QED BY <1>1, <5>2, <5>5, <5>6
      <4>4. CASE p \in P /\ (Open(p) \/ RemoveDir(p))
        <5>1. P \in SUBSET Removing
          <6>1. run[p].pc = "remove"
            BY <4>4, RunEffects DEF Drops
          <6> QED BY <1>3, <2>3, <6>1
        <5>2. \A d \in Left(P)' : d \in Committed' /\ d \in Left(P)
          <6>1. ASSUME NEW d \in Left(P)' PROVE d \in Committed' /\ d \in Left(P)
            <7>1. d \in Committed'
              BY DEF Left
            <7>2. d \in WillRemove(p) => p \in P /\ d \in WillRemove(p)'
              BY <3>0, <4>4, <7>1, StillRemovedOwn
            <7> QED BY <1>4, <3>0, <3>1, <7>1, <7>2, LeftStep
          <6> QED BY <6>1
        <5>3. Left(P)' \subseteq Left(P)
          BY <5>2
        <5> QED BY <1>5, <4>1, <5>1, <5>3
      <4>5. CASE p \in P /\ RemoveFails(p)
        <5>1. P \in SUBSET Removing
          <6>1. run[p].pc = "remove"
            BY <4>5, RunEffects DEF Drops
          <6> QED BY <1>3, <2>3, <6>1
        <5>2. \A d \in Left(P)' \ {run[p].handle} : d \in Left(P)
          <6>1. ASSUME NEW d \in Left(P)' \ {run[p].handle} PROVE d \in Left(P)
            <7>1. d \in Committed'
              BY DEF Left
            <7>2. d \in WillRemove(p) => p \in P /\ d \in WillRemove(p)'
              BY <3>0, <4>5, <7>1, OneMissed
            <7> QED BY <1>4, <3>0, <3>1, <7>2, LeftStep
          <6> QED BY <6>1
        <5>3. Left(P)' \subseteq Left(P) \cup {run[p].handle}
          BY <5>2
        <5>4. faults' = faults + 1
          BY <4>5 DEF RemoveFails, Fails
        <5> QED BY <1>5, <4>1, <5>1, <5>3, <5>4
      <4> QED BY <3>5, <4>2, <4>3, <4>4, <4>5
    <3> QED BY <2>1, <3>0, <3>3, <3>4, <3>5
  <2> QED BY <2>4, <2>5
<1> QED BY <1>6, <1>7, RunCases

LEMMA InitBounded == Init => BoundedInv
<1> SUFFICES ASSUME Init, NEW P \in SUBSET Removing
             PROVE  Cardinality(Left(P)) <= KEEP_SNAPSHOTS + Cardinality(Pruning \ P) + faults
  BY DEF BoundedInv
<1>1. faults = 0 /\ \A q \in Runs : run[q].pc = "new"
  BY DEF Init, NewRun
<1>2. P = {} /\ Pruning \ P = {}
  BY <1>1 DEF Removing, Pruning
<1>3. Left(P) = Earlier
  BY <1>2, InitDirs DEF Left
<1>4. Cardinality(Earlier) \in Nat
  BY Members, FS_CardinalityType
<1>5. Cardinality(Earlier) <= KEEP_SNAPSHOTS /\ KEEP_SNAPSHOTS \in Nat
  BY StoreAssumption
<1>6. Cardinality(Pruning \ P) = 0
  BY <1>2, FS_EmptySet
<1> QED BY <1>1, <1>3, <1>4, <1>5, <1>6

\* No more than KEEP_SNAPSHOTS snapshots outlast the runs, but for runs stopped while
\* they prune and removals that fail: a run that commits one more prunes after that, and
\* a prune removes all but KEEP_SNAPSHOTS of what it finds.
THEOREM CacheIsBounded == Spec => []CacheBounded
<1>1. StoreInv /\ BoundedInv => CacheBounded
  <2> SUFFICES ASSUME StoreInv, BoundedInv PROVE CacheBounded
    OBVIOUS
  <2>1. {} \in SUBSET Removing /\ Pruning \ {} = Pruning
    OBVIOUS
  <2>2. Left({}) = Committed
    BY DEF Left
  <2>3. Cardinality(Left({})) <= KEEP_SNAPSHOTS + Cardinality(Pruning \ {}) + faults
    BY <2>1 DEF BoundedInv
  <2> QED BY <2>1, <2>2, <2>3 DEF CacheBounded
<1> QED BY <1>1, InitStore, InitBounded, StoreInvStep, BoundedStep, PTL DEF Spec
=============================================================================
