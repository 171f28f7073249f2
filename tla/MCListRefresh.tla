--------------------------- MODULE MCListRefresh ---------------------------
(* Three lines, in any order and in two lists: every kind of line, exceptions  *)
(* that can and cannot be expressed or read, and limits that three lines exceed.*)
EXTENDS ListRefresh

MCSources == <<"easylist", "easyprivacy">>
MCHosts == {"a", "sub.a", "b"}
MCCovered == [h \in MCHosts |-> IF h = "sub.a" THEN {"sub.a", "a"} ELSE {h}]
MCUrls == {"a", "a/p", "sub.a", "b/word"}
MCHostOf == [u \in MCUrls |-> CASE u \in {"a", "a/p"} -> "a" [] u = "sub.a" -> "sub.a" [] OTHER -> "b"]
MCPatterns == {"||a^", "||b^", "||a/p", "word", "regex"}
MCMatched == [p \in MCPatterns |->
  CASE p = "||a^" -> {"a", "a/p", "sub.a"} [] p = "||b^" -> {"b/word"} [] p = "||a/p" -> {"a/p"}
    [] p = "word" -> {"b/word", "a/p"} [] p = "regex" -> {"a", "b/word"}]
MCMatchedCase == [MCMatched EXCEPT !["word"] = {"b/word"}]
MCAnchor == [p \in MCPatterns |-> CASE p \in {"||a^", "||a/p"} -> "a" [] p = "||b^" -> "b" [] OTHER -> None]
MCFullHost == [p \in MCPatterns |-> CASE p = "||a^" -> "a" [] p = "||b^" -> "b" [] OTHER -> None]
MCTypes == {"script", "sub_frame"}
F(exception, pattern, options) ==
  [kind |-> "filter", exception |-> exception, pattern |-> pattern, types |-> {}, not |-> {},
   scope |-> None, options |-> options]
On(included, excluded) == [wellformed |-> TRUE, included |-> included, excluded |-> excluded]
C(form, included, excluded) ==
  [kind |-> form, scope |-> On(included, excluded), selector |-> ".ad"]
U(pattern, options) == [F(TRUE, pattern, options) EXCEPT !.kind = "unread"]
MCLines == {
 F(FALSE, "||a^", {}), F(FALSE, "||b^", {}), F(FALSE, "word", {"match-case"}),
 [F(FALSE, "||a^", {}) EXCEPT !.types = {"script"}, !.scope = On({"b"}, {})],
 F(TRUE, "||a/p", {}), F(TRUE, "||a^", {"other"}), F(TRUE, "regex", {}),
 F(TRUE, "||a^", {"document"}), F(TRUE, "||a^", {"genericblock"}),
 F(TRUE, "||a/p", {"elemhide"}), F(TRUE, "word", {"generichide"}),
 [F(TRUE, "||b^", {"document", "other"}) EXCEPT !.scope = On({"a"}, {})],
 F(FALSE, "||a^", {"badfilter"}), F(TRUE, "||a^", {"badfilter"}),
 C("hide", {}, {}), C("hide", {"a"}, {"sub.a"}), C("unhide", {"a"}, {}), C("unhide", {}, {"b"}),
 [C("hide", {}, {}) EXCEPT !.selector = None], [kind |-> "long"],
 F(TRUE, "regex", {"badfilter"}), [kind |-> "ignored"],
 U("regex", {}), U("regex", {"elemhide"})}

\* What an exception with a # in its regular expression is about, and itself.
LostLines == {
 F(FALSE, "||a^", {}), C("hide", {}, {}), U("regex", {}), U("regex", {"elemhide"}),
 U("regex", {"badfilter"}), F(TRUE, "regex", {}), F(TRUE, "||a/p", {"elemhide"})}

\* What an item adds to a page grows with the hosts it names.
Weight(i) ==
  CASE "action" \in DOMAIN i -> 1 + Cardinality(i.hosts \cup i.included \cup i.excluded)
    [] "selector" \in DOMAIN i -> 2 + Cardinality(i.domains \cup i.excluded)
    [] OTHER -> 1
MCPageBytes(items) == FoldLeft(LAMBDA n, i : n + Weight(i), 1, items)
=============================================================================
