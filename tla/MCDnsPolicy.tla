----------------------------- MODULE MCDnsPolicy -----------------------------
(* Small texts for the DNS policy. *)
EXTENDS DnsPolicy, TLC

site == <<"site">>
ads == <<"ads", "site">>
MCHosts == {site, ads, <<"other">>}

Plain(exception, host) ==
  [kind |-> "rule", exception |-> exception, marker |-> FALSE, plain |-> TRUE,
   host |-> host, options |-> {}]
Conditional(exception, host, options) ==
  [kind |-> "rule", exception |-> exception, marker |-> FALSE, plain |-> FALSE,
   host |-> host, options |-> options]

MCLines ==
  {Plain(FALSE, site), Plain(FALSE, ads), Plain(TRUE, ads),
   Conditional(TRUE, site, {"other"}), Conditional(TRUE, None, {"other"}),
   Conditional(TRUE, ads, {"page"}), Conditional(TRUE, site, {"cosmetic", "condition"}),
   Conditional(FALSE, ads, {"badfilter"}), Conditional(FALSE, site, {"condition"}),
   [Conditional(TRUE, ads, {}) EXCEPT !.marker = TRUE],
   [Conditional(FALSE, site, {"badfilter"}) EXCEPT !.marker = TRUE],
   [Conditional(TRUE, None, {}) EXCEPT !.kind = "directive", !.exception = FALSE]}

Texts(n) == UNION {[1 .. k -> MCLines] : k \in 0 .. n}

MCInputs ==
  [sources : {<<[name |-> "first", lines |-> t], [name |-> n, lines |-> u]>> :
                t \in Texts(2), u \in Texts(1), n \in {"first", "second"}}
     \cup {[i \in 1 .. 3 |-> [name |-> ToString(i), lines |-> << >>]]},
   allow : {<< >>, <<ads>>, <<site>>}, block : {<< >>, <<site>>, <<None>>}]
=============================================================================
