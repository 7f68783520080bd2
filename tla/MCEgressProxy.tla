---------------------------- MODULE MCEgressProxy ----------------------------
(* An instance of EgressProxy for TLC. *)
EXTENDS EgressProxy, TLC

CONSTANTS c1, c2, agent, curl, x, y, get, post, api, ip, etcd

MCCalls == {c1, c2}
MCPaths == {agent, curl}

\* curl is started by the agent.
MCChains == {<<curl, agent>>}

MCSymmetry == Permutations({x, y})

Rest(mode, ips) ==
    [bins |-> {agent}, ips |-> ips, l7 |-> mode, skip |-> FALSE, ok |-> {get}]

\* An endpoint without L7 rules.
Tcp(ips) == [Rest("none", ips) EXCEPT !.ok = {}]

\* An enforced and an audited REST endpoint, one of another binary with
\* tls: skip, a protocol without a relay and an allowed_ips that does not parse,
\* a host that is an address and a port of the control plane.
MCPolicies ==
    {(api :> Rest("enforce", {}) @@ ip :> Rest("enforce", {"public"}) @@ etcd :> None),
     (api :> Rest("audit", {"private"}) @@ ip :> None @@ etcd :> Tcp({"private"})),
     (api :> [bins |-> {curl}, ips |-> {"invalid"}, l7 |-> "sql", skip |-> TRUE, ok |-> {}]
          @@ ip :> Tcp({}) @@ etcd :> Tcp({}))}
==============================================================================
