----------------------------- MODULE MCDnsServer -----------------------------
(* Small instances of the DNS server. *)
EXTENDS DnsServer

CONSTANTS d1, d2, t1

Asked(kind, key, plain) == [kind |-> kind, key |-> key, plain |-> plain]
MCRequests ==
  {Asked("malformed", "k1", TRUE), Asked("invalid", "k1", TRUE), Asked("blocked", "k1", TRUE),
   Asked("query", "k1", TRUE), Asked("query", "k1", FALSE), Asked("query", "k2", TRUE)}

Answered(code, answers, soa, plain, size) ==
  [code |-> code, answers |-> answers, others |-> {}, soa |-> soa,
   truncated |-> FALSE, plain |-> plain, size |-> size]
MCReplies ==
  {Answered("NoError", {2}, {}, TRUE, "large"),
   Answered("NoError", {2}, {}, FALSE, "small"),
   Answered("NXDomain", {}, {[ttl |-> 3, minimum |-> 1]}, TRUE, "small"),
   Answered("ServFail", {}, {}, TRUE, "small")}
=============================================================================
