----------------------------- MODULE EgressProxy -----------------------------
(***************************************************************************)
(* The egress proxy of a sandbox (openshell-sandbox, proxy.rs): how one    *)
(* CONNECT or forward request is identified, decided, resolved, connected  *)
(* and relayed (l7/relay.rs) while other requests run and the policy is    *)
(* reloaded (opa.rs).                                                      *)
(*                                                                         *)
(* The engine is behind a mutex that is taken anew for each question, so   *)
(* decision, allowed_ips, L7 configuration, TLS mode and the tunnel's copy *)
(* may come from different policies: each is a step of its own.            *)
(***************************************************************************)
EXTENDS BinaryIdentity, Sequences

CONSTANTS
    Conns,        \* connections followed here; the other calls of verify_or_cache
                  \* are the ones of other connections
    Policies,     \* network policies the gateway may send: [Dests -> Endpoints or None]
    Dests,        \* destinations, host and port
    Literal,      \* the ones whose host is an IP address
    ControlPorts, \* the ones with a port in BLOCKED_CONTROL_PLANE_PORTS
    Chains,       \* <<binary, ancestor, ...>> of the processes that connect
    Requests,     \* HTTP requests
    TlsState      \* whether the proxy has a CA for TLS termination

\* loopback, link-local and unspecified are "blocked"; the other internal
\* ranges are "private".
Addresses == {"public", "private", "blocked"}

\* One endpoint of one rule for a destination: which of several overlapping
\* rules rego picks is not modelled.  bins: binaries of the rule; ips:
\* allowed_ips, where "invalid" stands for an entry that does not parse; l7:
\* protocol and enforcement; ok: the requests the L7 rules allow.
Endpoints == [bins : SUBSET Paths, ips : SUBSET (Addresses \cup {"invalid"}),
              l7 : {"none", "audit", "enforce", "sql"}, skip : BOOLEAN,
              ok : SUBSET Requests]

ASSUME ProxyAssumption ==
    /\ Conns \subseteq Calls
    /\ Literal \subseteq Dests /\ ControlPorts \subseteq Dests
    /\ Policies \subseteq [Dests -> Endpoints \cup {None}] /\ Policies # {}
    /\ Chains \subseteq Seq(Paths) /\ \A ch \in Chains : ch # <<>>
    /\ None \notin Requests \cup Dests \cup Endpoints \cup Addresses \cup Policies
    /\ TlsState \in BOOLEAN

VARIABLES
    spawned,  \* entrypoint_pid # 0
    engine,   \* the policy in OpaEngine
    conn      \* [Conns -> connection]

vars == <<file, writes, cache, check, spawned, engine, conn>>

\* since: the policies in force since the request arrived, for the properties.
Closed == [pc |-> "idle", kind |-> "connect", chain |-> <<>>, dest |-> None,
           todo |-> <<>>, ips |-> {}, addr |-> None, l7 |-> "none",
           tunnel |-> None, sent |-> None, raw |-> None, since |-> {}]

To(c, pc) == conn' = [conn EXCEPT ![c].pc = pc]
Close(c) == conn' = [conn EXCEPT ![c] = Closed]

\* A denial goes to the aggregator with its stage, the client gets a 403 and
\* the connection ends.
Refuse(c) == Close(c)

-----------------------------------------------------------------------------
(* The policy: allow_network, matched_endpoint_config and allow_request of  *)
(* the rego rules, for a connection's destination, binary and ancestors.    *)

Plain == [bins |-> {}, ips |-> {}, l7 |-> "none", skip |-> FALSE, ok |-> {}]

Matches(p, c) ==
    /\ p[conn[c].dest] # None
    /\ \E i \in DOMAIN conn[c].chain : conn[c].chain[i] \in p[conn[c].dest].bins

\* Mutation: the configuration is asked for without the ancestors.
MUT_Config(p, c) ==
    IF p[conn[c].dest] # None /\ conn[c].chain[1] \in p[conn[c].dest].bins
    THEN p[conn[c].dest] ELSE Plain

\* Without a match, the answer is as for an endpoint without extensions.
Config(p, c) == IF Matches(p, c) THEN p[conn[c].dest] ELSE Plain

AllowsRequest(p, c, r) == Matches(p, c) /\ r \in p[conn[c].dest].ok

\* Mutation: the identities are forgotten with the old policy.
MUT_Reload ==
    /\ engine' \in Policies \ {engine}
    /\ conn' = [c \in Conns |->
           IF conn[c].pc = "idle" THEN conn[c]
           ELSE [conn[c] EXCEPT !.since = @ \cup {engine'}]]
    /\ cache' = [p \in Paths |-> None]
    /\ UNCHANGED <<file, writes, check, spawned>>

\* reload_from_proto: the engine is replaced under its lock.
Reload ==
    /\ engine' \in Policies \ {engine}
    /\ conn' = [c \in Conns |->
           IF conn[c].pc = "idle" THEN conn[c]
           ELSE [conn[c] EXCEPT !.since = @ \cup {engine'}]]
    /\ UNCHANGED <<identityVars, spawned>>

Spawn ==
    /\ ~spawned /\ spawned' = TRUE
    /\ UNCHANGED <<identityVars, engine, conn>>

-----------------------------------------------------------------------------
(* Identity and decision, the same for CONNECT and forward requests. *)

\* Headers complete; requests that do not parse, https in a forward request
\* and inference.local do not get here.
Receive(c) ==
    /\ conn[c].pc = "idle" /\ check[c].pc = "idle"
    /\ \E k \in {"connect", "forward"}, ch \in Chains, d \in Dests :
           conn' = [conn EXCEPT ![c] =
               [Closed EXCEPT !.pc = "identify", !.kind = k, !.chain = ch, !.dest = d,
                              !.todo = ch, !.since = {engine}]]
    /\ UNCHANGED <<identityVars, spawned, engine>>

\* No entrypoint yet, or no process owns the socket.
Unidentified(c) ==
    /\ conn[c].pc = "identify" /\ conn[c].todo = conn[c].chain /\ check[c].pc = "idle"
    /\ Refuse(c)
    /\ UNCHANGED <<identityVars, spawned, engine>>

\* The binary, then each ancestor.
Identify(c) ==
    /\ conn[c].pc = "identify" /\ conn[c].todo # <<>> /\ spawned
    /\ Stat(c, Head(conn[c].todo))
    /\ UNCHANGED <<spawned, engine, conn>>

\* Mutation: only the binary itself is verified.
MUT_Identified(c) ==
    /\ conn[c].pc = "identify"
    /\ \/ /\ check[c].pc = "ok"
          /\ conn' = [conn EXCEPT ![c].todo = <<>>, ![c].pc = "decide"]
       \/ /\ check[c].pc = "failed"
          /\ Refuse(c)
    /\ Return(c)
    /\ UNCHANGED <<spawned, engine>>

Identified(c) ==
    /\ conn[c].pc = "identify"
    /\ \/ /\ check[c].pc = "ok"
          /\ conn' = [conn EXCEPT ![c].todo = Tail(@),
                                  ![c].pc = IF Len(conn[c].todo) = 1 THEN "decide" ELSE @]
       \/ /\ check[c].pc = "failed"
          /\ Refuse(c)
    /\ Return(c)
    /\ UNCHANGED <<spawned, engine>>

\* evaluate_network_action.  An error denies, as no match does.
Decide(c) ==
    /\ conn[c].pc = "decide"
    /\ \/ /\ Matches(engine, c)
          /\ To(c, IF conn[c].kind = "connect" THEN "ips" ELSE "l7")
       \/ Refuse(c)
    /\ UNCHANGED <<identityVars, spawned, engine>>

-----------------------------------------------------------------------------
(* Addresses. *)

\* query_allowed_ips
QueryIps(c) ==
    /\ conn[c].pc = "ips"
    /\ conn' = [conn EXCEPT ![c].pc = "resolve", ![c].ips = Config(engine, c).ips]
    /\ UNCHANGED <<identityVars, spawned, engine>>

\* An IP address as host is its own allowed_ips.
Listed(c) == conn[c].ips # {} \/ conn[c].dest \in Literal

\* resolve_and_check_allowed_ips (with parse_allowed_ips before it) or
\* resolve_and_reject_internal, for the answer of one lookup.
Acceptable(c, answer) ==
    /\ answer # {}
    /\ Listed(c) =>
           /\ "invalid" \notin conn[c].ips
           /\ conn[c].dest \notin ControlPorts
           /\ "blocked" \notin answer
           /\ conn[c].ips # {} => answer \subseteq conn[c].ips
    /\ ~Listed(c) => answer = {"public"}

AfterConnect(c) == IF conn[c].kind = "connect" THEN "l7" ELSE "send"

\* Mutation: the name is resolved again to connect.
MUT_Resolve(c) ==
    /\ conn[c].pc = "resolve"
    /\ \E answer \in SUBSET Addresses :
           \/ /\ Acceptable(c, answer)
              /\ \E a \in Addresses :
                     conn' = [conn EXCEPT ![c].pc = AfterConnect(c), ![c].addr = a, ![c].ips = {}]
           \/ Close(c)
    /\ UNCHANGED <<identityVars, spawned, engine>>

\* One of the checked addresses is connected to.  Refused, or no address
\* answers: 403, an error or 502, and the connection ends.
Resolve(c) ==
    /\ conn[c].pc = "resolve"
    /\ \E answer \in SUBSET Addresses :
           \/ /\ Acceptable(c, answer)
              /\ \E a \in answer :
                     conn' = [conn EXCEPT ![c].pc = AfterConnect(c), ![c].addr = a, ![c].ips = {}]
           \/ Close(c)
    /\ UNCHANGED <<identityVars, spawned, engine>>

-----------------------------------------------------------------------------
(* CONNECT: the way the tunnel is relayed. *)

\* query_l7_config
QueryL7(c) ==
    /\ conn[c].pc = "l7" /\ conn[c].kind = "connect"
    /\ conn' = [conn EXCEPT ![c].pc = "tls", ![c].l7 = Config(engine, c).l7]
    /\ UNCHANGED <<identityVars, spawned, engine>>

\* query_tls_mode: tls: skip makes a raw tunnel.
QueryTls(c) ==
    /\ conn[c].pc = "tls"
    /\ conn' = IF Config(engine, c).skip
               THEN [conn EXCEPT ![c].pc = "raw", ![c].raw = "skip"]
               ELSE [conn EXCEPT ![c].pc = "peek"]
    /\ UNCHANGED <<identityVars, spawned, engine>>

\* What the client's first bytes look like.  Inspection gets a copy of the
\* engine that the tunnel keeps.
Peek(c) ==
    /\ conn[c].pc = "peek"
    /\ \/ /\ conn[c].l7 \in {"audit", "enforce"}
          /\ conn' = [conn EXCEPT ![c].pc = "inspect", ![c].tunnel = engine]
       \/ /\ conn[c].l7 = "sql"
          /\ conn' = [conn EXCEPT ![c].pc = "raw", ![c].raw = "sql"]
       \/ /\ conn[c].l7 = "none"
          /\ To(c, "passthrough")
       \/ conn' = [conn EXCEPT ![c].pc = "raw", ![c].raw = "other"]
       \/ ~TlsState /\ conn' = [conn EXCEPT ![c].pc = "raw", ![c].raw = "no ca"]
    /\ UNCHANGED <<identityVars, spawned, engine>>

-----------------------------------------------------------------------------
(* relay_rest and relay_passthrough_with_credentials: a loop of requests. *)

Forwardable(c, r) ==
    \/ conn[c].pc = "passthrough"
    \/ conn[c].pc = "inspect" /\ conn[c].l7 = "audit"
    \/ conn[c].pc = "inspect" /\ AllowsRequest(conn[c].tunnel, c, r)

\* The request is sent upstream, its response is relayed.  The connection goes
\* on, is used up, or is upgraded when the client asked for it.
Relay(c) ==
    /\ \E r \in Requests :
           /\ Forwardable(c, r)
           /\ \/ conn' = [conn EXCEPT ![c].sent = r]
              \/ conn' = [conn EXCEPT ![c].sent = r, ![c].pc = "raw", ![c].raw = "upgrade"]
    /\ UNCHANGED <<identityVars, spawned, engine>>

\* Mutation: a denied request is answered and the loop goes on with its body.
MUT_Deny(c) ==
    /\ conn[c].pc = "inspect"
    /\ \E r \in Requests : ~Forwardable(c, r) /\ conn' = [conn EXCEPT ![c].sent = r]
    /\ UNCHANGED <<identityVars, spawned, engine>>

\* deny_with_redacted_target: 403, and the connection ends.
Deny(c) ==
    /\ conn[c].pc = "inspect"
    /\ \E r \in Requests : ~Forwardable(c, r) /\ Close(c)
    /\ UNCHANGED <<identityVars, spawned, engine>>

\* The client or the upstream closes, a request does not parse, a credential
\* does not resolve, an unsolicited 101.
Finish(c) ==
    /\ conn[c].pc \in {"l7", "tls", "peek", "send", "inspect", "passthrough", "raw"}
    /\ conn[c].addr # None
    /\ Close(c)
    /\ UNCHANGED <<identityVars, spawned, engine>>

-----------------------------------------------------------------------------
(* Forward requests: L7 is evaluated once, before the addresses. *)

ForwardL7(c) ==
    LET config == Config(engine, c).l7 IN
    /\ conn[c].pc = "l7" /\ conn[c].kind = "forward"
    /\ conn' = [conn EXCEPT ![c].pc = IF config = "none" THEN "ips" ELSE "evaluate",
                            ![c].l7 = config]
    /\ UNCHANGED <<identityVars, spawned, engine>>

\* On a copy of the engine taken now.  A denial of an enforcing endpoint is
\* reported and refused.
ForwardEvaluate(c) ==
    /\ conn[c].pc = "evaluate"
    /\ \E r \in Requests :
           \/ /\ conn[c].l7 # "enforce" \/ AllowsRequest(engine, c, r)
              /\ conn' = [conn EXCEPT ![c].pc = "ips", ![c].tunnel = engine, ![c].sent = r]
           \/ conn[c].l7 = "enforce" /\ Refuse(c)
    /\ UNCHANGED <<identityVars, spawned, engine>>

\* The rewritten request goes upstream, then bytes are copied both ways.
Send(c) ==
    /\ conn[c].pc = "send"
    /\ conn' = [conn EXCEPT ![c].pc = "raw", ![c].raw = "forward"]
    /\ UNCHANGED <<identityVars, spawned, engine>>

-----------------------------------------------------------------------------
Init ==
    /\ IdentityInit
    /\ spawned = FALSE
    /\ engine \in Policies
    /\ conn = [c \in Conns |-> Closed]

\* Connections meet in the engine and in the cache of hashes only.
OtherCall(c) ==
    /\ spawned
    /\ (\E p \in Paths : Stat(c, p)) \/ Verify(c) \/ Return(c)
    /\ UNCHANGED <<spawned, engine, conn>>

Setup(c) ==
    \/ Receive(c) \/ Unidentified(c) \/ Identify(c) \/ Identified(c) \/ Decide(c)
    \/ (Verify(c) /\ UNCHANGED <<spawned, engine, conn>>)
    \/ QueryIps(c) \/ Resolve(c)
Tunnel(c) == QueryL7(c) \/ QueryTls(c) \/ Peek(c) \/ Relay(c) \/ Deny(c) \/ Finish(c)
Forward(c) == ForwardL7(c) \/ ForwardEvaluate(c) \/ Send(c)

Next ==
    \/ FileSystem /\ UNCHANGED <<spawned, engine, conn>>
    \/ \E c \in Calls \ Conns : OtherCall(c)
    \/ Reload
    \/ Spawn
    \/ \E c \in Conns : Setup(c) \/ Tunnel(c) \/ Forward(c)

Spec == Init /\ [][Next]_vars

-----------------------------------------------------------------------------
Connections ==
    [pc : {"idle", "identify", "decide", "ips", "resolve", "l7", "tls", "peek", "inspect",
           "passthrough", "evaluate", "send", "raw"},
     kind : {"connect", "forward"}, chain : Chains \cup {<<>>}, dest : Dests \cup {None},
     todo : Seq(Paths), ips : SUBSET (Addresses \cup {"invalid"}),
     addr : Addresses \cup {None}, l7 : {"none", "audit", "enforce", "sql"},
     tunnel : Policies \cup {None}, sent : Requests \cup {None},
     raw : {"skip", "sql", "other", "no ca", "upgrade", "forward", None},
     since : SUBSET Policies]

\* An open connection has a destination and a chain of binaries, and something
\* left to verify as long as it is being identified.
Connected(r) ==
    /\ r \in Connections
    /\ r.pc # "idle" => r.dest \in Dests /\ r.chain \in Chains
    /\ r.pc = "identify" => r.todo # <<>>

\* Identities, engine and connections stay in their types.
TypeOK ==
    /\ IdentityTypeOK
    /\ spawned \in BOOLEAN
    /\ engine \in Policies
    /\ conn \in [Conns -> Connections] /\ \A c \in Conns : Connected(conn[c])

\* No connection gets past identification before the binary and each of its
\* ancestors has a golden hash in the cache.
ChainVerified ==
    \A c \in Conns :
        conn[c].pc \notin {"idle", "identify"} =>
            \A i \in DOMAIN conn[c].chain : cache[conn[c].chain[i]] # None

\* The address connected to is never loopback, link-local or unspecified, and
\* it is private only on a port that is not of the control plane, and only if
\* a policy in force since the request arrived lists it for this destination
\* or the destination is that address, whatever the name server answers at
\* other times.
AddressLicensed ==
    \A c \in Conns :
        /\ conn[c].addr # "blocked"
        /\ conn[c].addr = "private" =>
               /\ conn[c].dest \notin ControlPorts
               /\ \/ conn[c].dest \in Literal
                  \/ \E p \in conn[c].since : "private" \in Config(p, c).ips

\* What an enforcing, inspected connection has sent upstream was allowed by a
\* policy in force since the request arrived, on each turn of a kept-alive
\* connection and before an upgrade.
RequestsObeyPolicy ==
    \A c \in Conns :
        conn[c].sent # None /\ conn[c].l7 = "enforce" =>
            conn[c].tunnel \in conn[c].since /\ AllowsRequest(conn[c].tunnel, c, conn[c].sent)

Inspects(p, c) ==
    Matches(p, c) /\ p[conn[c].dest].l7 \in {"audit", "enforce"} /\ ~p[conn[c].dest].skip

\* When every policy in force since the request arrived asks for inspection,
\* no sequence of reloads between the engine's five answers makes the
\* connection a relay without it: bytes that are neither TLS nor HTTP, TLS
\* without a CA, and what follows an evaluated request are the exceptions.
InspectedUnlessExempt ==
    \A c \in Conns :
        (/\ conn[c].pc \in {"passthrough", "raw"}
         /\ \A p \in conn[c].since : Inspects(p, c)) =>
            \/ conn[c].raw \in {"other", "no ca"}
            \/ conn[c].raw \in {"upgrade", "forward"} /\ conn[c].sent # None
=============================================================================
