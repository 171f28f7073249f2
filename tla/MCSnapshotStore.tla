---------------------------- MODULE MCSnapshotStore ----------------------------
(* Small instances of the snapshot cache for TLC. *)
EXTENDS SnapshotStore

CONSTANTS c1, c2, c3, c4, p1, p2, p3, o1, o2, k1, k2

\* With more pages a client only reads more often; how it puts them together is in Paging.
OnePage == <<"network-0">>
\* Nothing tells contents, runs or directories of earlier runs apart.
Symmetry == Permutations(Contents) \cup Permutations(Runs) \cup Permutations(Earlier)
=============================================================================
