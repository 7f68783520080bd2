---------------------------- MODULE MCPolicySync ----------------------------
(***************************************************************************)
(* Instances of PolicySync.  Network parts: "empty" has no rules, "a" and  *)
(* "b" load, "bad" does not, "g" is used by global policies only.          *)
(***************************************************************************)
EXTENDS PolicySync

MCNets == {"empty", "a", "b", "bad", "g"}

Bare(n) == [net |-> n, base |-> FALSE]
Full(n) == [net |-> n, base |-> TRUE]

MCEmpty == Bare("empty")
MCFull == {Full("a"), Full("b")}
MCFullBad == {Full("a"), Full("b"), Full("bad")}
MCG == {Bare("g")}
MCFromFull == {Full("a")}
MCFromAny == {None, Bare("a"), Full("b")}
=============================================================================
