----------------------------- MODULE AtomicConfig -----------------------------
(***************************************************************************)
(* What the controller promises its callers, whatever the browser storage, *)
(* the rule engine, the companion and the worker's lifetime do: there is   *)
(* one committed configuration, and it changes only when the oldest        *)
(* waiting operation takes effect on it, all at once and at most once.     *)
(* An operation may be refused, and all of them are forgotten when the     *)
(* worker stops; none is ever half applied, applied out of turn, or        *)
(* computed from a configuration that is no longer the committed one.      *)
(***************************************************************************)
EXTENDS RuleConfig

VARIABLES
  committed,  \* the configuration a restart finds
  running,    \* the worker runs; only a running worker takes operations
  waiting,    \* operations submitted and not settled, oldest first
  applied     \* the oldest waiting operation has taken effect

vars == <<committed, running, waiting, applied>>

Init ==
  /\ committed \in Configs
  /\ running = TRUE
  /\ waiting = << >>
  /\ applied = FALSE

Newest(s) == s[Len(s)]

Submit ==
  /\ running
  /\ waiting' # << >>
  /\ Newest(waiting') \in Ops
  /\ waiting' = Append(waiting, Newest(waiting'))
  /\ UNCHANGED <<committed, running, applied>>

Apply ==
  /\ waiting # << >>
  /\ ~applied
  /\ Admitted(Head(waiting), committed)
  /\ committed' = Update(Head(waiting), committed)
  /\ applied' = TRUE
  /\ UNCHANGED <<running, waiting>>

\* The caller is answered: with success after Apply, with an error before it.
Settle ==
  /\ waiting # << >>
  /\ waiting' = Tail(waiting)
  /\ applied' = FALSE
  /\ UNCHANGED <<committed, running>>

\* Waiting operations are lost with the worker, never its configuration.
Stop ==
  /\ running
  /\ running' = FALSE
  /\ waiting' = << >>
  /\ applied' = FALSE
  /\ UNCHANGED committed

Start ==
  /\ ~running
  /\ running' = TRUE
  /\ UNCHANGED <<committed, waiting, applied>>

Next == Submit \/ Apply \/ Settle \/ Stop \/ Start

Spec == Init /\ [][Next]_vars
=============================================================================
