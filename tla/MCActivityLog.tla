---------------------------- MODULE MCActivityLog ----------------------------
(* Small instances of the activity log for TLC. *)
EXTENDS ActivityLog

CONSTANTS t1, t2, t3, r1, r2

ThreeTabs == {t1, t2, t3}
TwoRequests == {r1, r2}
=============================================================================
