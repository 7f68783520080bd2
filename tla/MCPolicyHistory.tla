-------------------------- MODULE MCPolicyHistory --------------------------
(* Instances of PolicyHistory for TLC. *)
EXTENDS PolicyHistory, TLC

CONSTANTS h1, h2, r1, r2, b1, b2, e1, p1, unset, sandboxed, other

MCHandlers == {h1, h2}
MCRules == {r1, r2}
MCBinaries == {b1, b2}
MCEndpoints == {e1}

\* Two binaries ask for one endpoint; the second rule's name is a new one.
g1 == [rule |-> r1, binary |-> b1, endpoint |-> e1]
g2 == [rule |-> r2, binary |-> b2, endpoint |-> e1]
MCGrants == {g1, g2}
OneGrant == {g1}
MCPaths == {p1}
MCIdentities == {unset, sandboxed, other}

Plain == [fs |-> {}, proc |-> unset, net |-> {}]
Wider == [fs |-> {p1}, proc |-> sandboxed, net |-> [rule : {r1}, item : {b1, e1}]]
Foreign == [fs |-> {p1}, proc |-> other, net |-> {}]

\* The payloads differ in each part a handler tells apart.
MCPayloads == {Plain, Wider, Foreign}
PlainPayload == {Plain}
MCWithSpec == {WithIdentity(Wider)}
MCAnySpec == {None} \cup MCWithSpec

Everything == AllOperations
NoReports == AllOperations \ {"report"}

Symmetry == Permutations(MCHandlers)
=============================================================================
