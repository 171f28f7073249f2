------------------------------ MODULE ListRefresh ------------------------------
(***************************************************************************)
(* lists.refresh and the requests for pages that follow it: the compiler's *)
(* result is cut into pages, and the client checks the manifest and every  *)
(* page and item, in a language of its own, against limits of its own.     *)
(***************************************************************************)
EXTENDS SubscriptionCompiler, Paging

CONSTANT MAX_COUNT  \* 600,002 in the code: what the client takes for a count

ASSUME CountAssumption == MAX_COUNT \in Nat

vars == <<compilerVars, step, kind, offset, cutting, reading>>

Init == CompilerInit /\ PagingInit

Compile == CompilerNext /\ UNCHANGED <<step, kind, offset, cutting, reading>>

\* refresh_with: a result without any rule is refused.
NothingSupported ==
  coverage.networkSupported = 0 /\ compiled["network"] = << >> /\ compiled["cosmetic"] = << >>

\* What the compiler gathered is gone when it has returned.
Returned ==
  /\ text' = [s \in ToSet(Sources) |-> << >>]
  /\ network_rules' = {} /\ badfilters' = {} /\ suppress' = {}
  /\ hides' = << >> /\ lifted' = [s \in Selectors |-> {}]
  /\ suppressed_selectors' = {} /\ generic_excluded' = {} /\ all_excluded' = {}
  /\ list_stats' = [s \in ToSet(Sources) |-> NoStats]
  /\ diagnostic' = [total |-> 0, samples |-> << >>]
  /\ coverage' = None
  /\ UNCHANGED <<budget, source>>

RefuseEmpty ==
  /\ phase = "compiled" /\ NothingSupported
  /\ phase' = "refused"
  /\ Returned
  /\ UNCHANGED <<compiled, step, kind, offset, cutting, reading>>

\* The numbers are small enough for the client; those of lines are, a list having at most
\* MAX_LIST_LINES.
CountsInBounds ==
  /\ diagnostic.total <= MAX_COUNT
  /\ \A field \in DOMAIN coverage : coverage[field] <= MAX_COUNT

\* validateSubscriptionManifest: what the client demands of the counts.
ManifestAccepted ==
  LET shown == Len(compiled["diagnostics"])
  IN /\ CountsInBounds
     /\ Len(compiled["network"]) <= budget
     /\ Len(compiled["cosmetic"]) <= MAX_COSMETIC
     /\ shown <= MAX_DIAGNOSTICS /\ shown <= diagnostic.total
     /\ coverage.networkSupported = Len(compiled["network"]) + coverage.networkDropped
     /\ coverage.cosmeticSupported >= Len(compiled["cosmetic"]) + coverage.cosmeticDropped

\* The client refuses what the companion has stored, and asks for no page of it.
RefuseManifest ==
  /\ phase = "compiled" /\ ~NothingSupported /\ ~ManifestAccepted
  /\ phase' = "refused"
  /\ Returned
  /\ UNCHANGED <<compiled, step, kind, offset, cutting, reading>>

\* The pages of a manifest that the client will accept are cut.
Persist ==
  /\ phase = "compiled" /\ ~NothingSupported /\ ManifestAccepted
  /\ phase' = "returned"
  /\ Returned
  /\ Begin

Store == (Shrink \/ TooLarge \/ WritePage) /\ UNCHANGED compilerVars
FetchPages == (Receive \/ RejectPage) /\ UNCHANGED compilerVars

Next == Compile \/ RefuseEmpty \/ RefuseManifest \/ Persist \/ Store \/ FetchPages

Spec == Init /\ [][Next]_vars

\* validateNetwork, validateCosmetic and validateDiagnostic.
Validated(k, item) ==
  CASE k = "network" ->
         /\ item.types # {}
         /\ IF item.action = "allowAllRequests" THEN item.types \subseteq FrameTypes
                                                ELSE item.types \subseteq ResourceTypes
         /\ IF item.pattern # None
              THEN item.hosts = {}
              ELSE item.hosts # {} /\ Cardinality(item.hosts) <= MAX_PACKED
         /\ Cardinality(item.included) <= MAX_SCOPE /\ Cardinality(item.excluded) <= MAX_SCOPE
    [] k = "cosmetic" ->
         Cardinality(item.domains) <= MAX_SCOPE /\ Cardinality(item.excluded) <= MAX_SCOPE
    [] OTHER -> TRUE

-----------------------------------------------------------------------------
(* The reports add up, whatever was merged, packed, suppressed or dropped: *)
(* every line is counted once for its list, and the client refuses the     *)
(* manifest of its own companion for nothing but too large a number.       *)
ReportsAddUp ==
  EveryLineCounted /\ (phase = "compiled" /\ CountsInBounds => ManifestAccepted)
=============================================================================
