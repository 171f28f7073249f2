----------------------------- MODULE MCController -----------------------------
(* Small instances of the controller for TLC. *)
EXTENDS Controller

CONSTANTS easy, other, l1, s1, s2, s3, tok

Blocking(n) == [action |-> "block", condition |-> <<"urlFilter", n>>]
Allowing(n) == [action |-> "allow", condition |-> <<"urlFilter", n>>]

MCConditions == {<<"urlFilter", n>> : n \in 1..4}

OneList == {easy, l1}
MCListRules == [l \in Lists |-> IF l = l1 THEN <<Blocking(1)>> ELSE << >>]
MCListCosmetics == [l \in Lists |-> IF l = l1 THEN {[host |-> 1, selector |-> "ad"]} ELSE {}]
NoSnapshots == {}
\* The last one is beyond the budget of ControllerRefresh.
ThreeSnapshots == {s1, s2, s3}
MCSnapRules == [s \in Snapshots |->
  CASE s = s1 -> <<Blocking(2), Allowing(3)>>
    [] s = s2 -> <<Allowing(2), Blocking(3), Blocking(4)>>
    [] s = s3 -> <<Blocking(1), Blocking(2), Blocking(3), Blocking(4)>>]

MCCovers == [d \in Sites |-> {d}]
OneBlock == {[host |-> 1, selector |-> "ad", token |-> tok]}
TwoBlocks == {[host |-> 1, selector |-> "ad", token |-> tok], [host |-> 1, selector |-> "ad", token |-> other]}
NoBlocks == {}
=============================================================================
