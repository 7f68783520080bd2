-------------------------- MODULE InferenceRoutes --------------------------
(***************************************************************************)
(* Cluster inference: the gateway's route and provider records and the     *)
(* bundle it resolves from them (server inference.rs), the supervisor's    *)
(* two route caches with their refresh loop (sandbox lib.rs), and the      *)
(* connections to inference.local that are routed with them (proxy.rs,     *)
(* l7/inference.rs, the router crate).  A provider record is its           *)
(* generation and whether a key can be resolved from it; a resolved route  *)
(* is the pair of provider and generation.  Upstreams are external.        *)
(***************************************************************************)
EXTENDS Selecting

CONSTANTS
    InfProviders,  \* provider names
    InfProtocols,  \* provider -> the protocols its profile lists
    InfAdmins,     \* clients of SetClusterInference
    InfConns,      \* connections of the sandbox to inference.local
    MaxProvGen,    \* bound on a provider record's generation
    MaxRouteVer,   \* bound on a route record's version
    MaxFileRoutes  \* bound on the routes of a routes file

ASSUME InfAssumption == MaxProvGen \in Nat /\ MaxRouteVer \in Nat /\ MaxFileRoutes \in Nat

VARIABLES
    provs,    \* provider -> [gen, key]; generation 0: no record
    routes,   \* route name -> [prov, ver]; version 0: no record
    sets,     \* admin -> [pc, name, prov, base]: a SetClusterInference call
    fetch,    \* one GetInferenceBundle call of the supervisor: [pc, found]
    ctx,      \* the supervisor's InferenceContext: [mode, rev, cache]
    icon      \* connection -> [pc, proto, bytes, routed, used, out]

infVars == <<provs, routes, sets, fetch, ctx, icon>>

RouteNames == {"user", "system"}   \* inference.local and sandbox-system
NoRoute == [name |-> "none", prov |-> "none", gen |-> 0]
NoSet == [pc |-> "idle", name |-> "user", prov |-> "none", base |-> 0]
NoFetch == [pc |-> "idle", found |-> <<>>]
NoConn == [pc |-> "idle", proto |-> "none", bytes |-> 0, routed |-> FALSE, used |-> NoRoute, out |-> "none"]

InfInit ==
    /\ provs = [p \in InfProviders |-> [gen |-> 0, key |-> FALSE]]
    /\ routes = [n \in RouteNames |-> [prov |-> "none", ver |-> 0]]
    /\ sets = [a \in InfAdmins |-> NoSet] /\ fetch = NoFetch
    /\ ctx = [mode |-> "boot", rev |-> <<>>, cache |-> [n \in RouteNames |-> <<>>]]
    /\ icon = [c \in InfConns |-> NoConn]

-----------------------------------------------------------------------------
(* The gateway's records *)

\* CreateProvider, UpdateProvider (a new key, or none that can be used) and DeleteProvider.
ChangeProvider(p) ==
    /\ provs[p].gen < MaxProvGen
    /\ \E key \in BOOLEAN : provs' = [provs EXCEPT ![p] = [gen |-> @.gen + 1, key |-> key]]
    /\ UNCHANGED <<routes, sets, fetch, ctx, icon>>

RemoveProvider(p) ==
    /\ provs[p].gen = MaxProvGen
    /\ provs' = [provs EXCEPT ![p] = [gen |-> 0, key |-> FALSE]]
    /\ UNCHANGED <<routes, sets, fetch, ctx, icon>>

FindProviderApiKey(p) == provs[p].key
\* A base URL of the provider's config, or the profile's default, which is never empty.
FindProviderConfigValue(own, default) == IF own # "" THEN own ELSE default
ResolveProviderRoute(p) ==
    provs[p].gen > 0 /\ FindProviderApiKey(p) /\ FindProviderConfigValue("", "default") # ""

\* Empty means inference.local; any other name than the two is refused.
EffectiveRouteName(name) == IF name = "" THEN "user" ELSE name

\* One probe answered by its class; HTTP 400 counts as "shape".
TryValidationRequest(answer) == answer = "ok"
\* The openai chat probe has a second body, tried once, after a request-shape failure only.
ValidationProbe(p) == IF "openai_chat" \in InfProtocols[p] THEN 2 ELSE 1
VerifyBackendEndpoint(p, first, second) ==
    \/ TryValidationRequest(first)
    \/ first = "shape" /\ ValidationProbe(p) = 2 /\ TryValidationRequest(second)

\* upsert_cluster_inference_route: the provider is read and resolved, its endpoint probed unless
\* --no-verify; the route record is read and written back in two store calls after that.
SetClusterInference(a) ==
    /\ sets[a].pc = "idle"
    /\ \E name \in {"", "user", "system", "other"}, p \in InfProviders :
          LET n == EffectiveRouteName(name)
          IN  sets' = [sets EXCEPT ![a] = IF n \in RouteNames /\ ResolveProviderRoute(p)
                                          THEN [pc |-> "verify", name |-> n, prov |-> p, base |-> 0]
                                          ELSE NoSet]
    /\ UNCHANGED <<provs, routes, fetch, ctx, icon>>

VerifyProviderEndpoint(a) ==
    /\ sets[a].pc = "verify"
    /\ \E verify \in BOOLEAN, first, second \in {"ok", "shape", "failed"} :
          LET passed == ~verify \/ VerifyBackendEndpoint(sets[a].prov, first, second)
          IN  sets' = [sets EXCEPT ![a] = IF passed THEN [@ EXCEPT !.pc = "read"] ELSE NoSet]
    /\ UNCHANGED <<provs, routes, fetch, ctx, icon>>

ReadRoute(a) ==
    /\ sets[a].pc = "read"
    /\ sets' = [sets EXCEPT ![a].pc = "put", ![a].base = routes[sets[a].name].ver]
    /\ UNCHANGED <<provs, routes, fetch, ctx, icon>>

\* A first version whose name is taken meanwhile hits the store's unique (type, name).
PutRoute(a) ==
    LET s == sets[a] IN
    /\ s.pc = "put" /\ s.base < MaxRouteVer
    /\ routes' = IF s.base = 0 /\ routes[s.name].ver > 0 THEN routes
                 ELSE [routes EXCEPT ![s.name] = [prov |-> s.prov, ver |-> s.base + 1]]
    /\ sets' = [sets EXCEPT ![a] = NoSet]
    /\ UNCHANGED <<provs, fetch, ctx, icon>>

-----------------------------------------------------------------------------
(* GetInferenceBundle, from the supervisor's side *)

\* resolve_route_by_name: no record or no config is an absent route; a record whose provider is
\* gone or cannot be resolved is an error of the whole bundle.
ResolveRouteByName(n) ==
    LET p == routes[n].prov
    IN  IF routes[n].ver = 0 THEN [ok |-> TRUE, found |-> <<>>]
        ELSE IF ResolveProviderRoute(p)
             THEN [ok |-> TRUE, found |-> <<[name |-> n, prov |-> p, gen |-> provs[p].gen]>>]
        ELSE [ok |-> FALSE, found |-> <<>>]

\* The revision is a hash over every field of the routes, the key included.
BundleRevision(found) == found

BeginFetch ==
    /\ fetch.pc = "idle" /\ ctx.mode \in {"boot", "cluster"}
    /\ fetch' = [NoFetch EXCEPT !.pc = "user"]
    /\ UNCHANGED <<provs, routes, sets, ctx, icon>>

\* resolve_inference_bundle: the two routes are resolved one after the other.
ResolveInferenceBundle(n) ==
    /\ fetch.pc = n
    /\ LET r == ResolveRouteByName(n)
       IN  fetch' = IF r.ok THEN [pc |-> IF n = "user" THEN "system" ELSE "got", found |-> fetch.found \o r.found]
                    ELSE [NoFetch EXCEPT !.pc = "error"]
    /\ UNCHANGED <<provs, routes, sets, ctx, icon>>

FetchLost ==
    /\ fetch.pc \in {"user", "system", "got"}
    /\ fetch' = [NoFetch EXCEPT !.pc = "error"]
    /\ UNCHANGED <<provs, routes, sets, ctx, icon>>

-----------------------------------------------------------------------------
(* The supervisor: build_inference_context and spawn_route_refresh *)

\* A routes file wins over the cluster; without sandbox id and endpoint there is no source.
InferRouteSource(file, cluster) == IF file THEN "file" ELSE IF cluster THEN "cluster" ELSE "none"
DisableOnEmptyRoutes(source) == source # "cluster"

\* RouterConfig::load_from_file: one broken route of the file stops the supervisor.
LoadRoutesFile(valid, found) == IF valid THEN found ELSE <<>>

\* The system route by its name, every other route is a user route.
PartitionRoutes(found) ==
    [n \in RouteNames |-> PickAt(found, {i \in DOMAIN found : (found[i].name = "system") <=> (n = "system")})]

BuildFromFile ==
    /\ ctx.mode = "boot" /\ fetch.pc = "idle"
    /\ \E file, cluster, valid \in BOOLEAN, len \in 0..MaxFileRoutes :
       \E listed \in [1..len -> [name : RouteNames, prov : InfProviders, gen : {1}]] :
          LET source == InferRouteSource(file, cluster)
              loaded == LoadRoutesFile(valid, listed)
          IN  /\ source # "cluster"
              /\ ctx' = IF source = "none" \/ (loaded = <<>> /\ DisableOnEmptyRoutes(source))
                        THEN [ctx EXCEPT !.mode = "off"]
                        ELSE [mode |-> "file", rev |-> <<>>, cache |-> PartitionRoutes(loaded)]
    /\ UNCHANGED <<provs, routes, sets, fetch, icon>>

\* The first bundle: any error leaves inference off for good; an empty bundle does not.
BuildFromCluster ==
    /\ ctx.mode = "boot" /\ fetch.pc \in {"got", "error"}
    /\ ctx' = IF fetch.pc = "error" THEN [ctx EXCEPT !.mode = "off"]
              ELSE [mode |-> "cluster", rev |-> BundleRevision(fetch.found), cache |-> PartitionRoutes(fetch.found)]
    /\ fetch' = NoFetch
    /\ UNCHANGED <<provs, routes, sets, icon>>

\* The refresh loop: an error keeps the routes, an equal revision is skipped; else the revision is
\* recorded before the two caches are written, each under its own lock.
RefreshTick ==
    /\ ctx.mode = "cluster" /\ fetch.pc \in {"got", "error"}
    /\ IF fetch.pc = "error" \/ ctx.rev = BundleRevision(fetch.found)
       THEN fetch' = NoFetch /\ UNCHANGED ctx
       ELSE fetch' = [fetch EXCEPT !.pc = "writeUser"] /\ ctx' = [ctx EXCEPT !.rev = BundleRevision(fetch.found)]
    /\ UNCHANGED <<provs, routes, sets, icon>>

\* A request holds the read lock of the user routes until its response is streamed.
HoldsLock(c) == icon[c].pc \in {"send", "stream"}
MUT_WriteUserCache ==
    /\ fetch.pc = "writeUser" /\ \A c \in InfConns : ~HoldsLock(c)
    /\ ctx' = [ctx EXCEPT !.cache["user"] = PartitionRoutes(fetch.found)["user"]]
    /\ fetch' = NoFetch
    /\ UNCHANGED <<provs, routes, sets, icon>>

WriteUserCache ==
    /\ fetch.pc = "writeUser" /\ \A c \in InfConns : ~HoldsLock(c)
    /\ ctx' = [ctx EXCEPT !.cache["user"] = PartitionRoutes(fetch.found)["user"]]
    /\ fetch' = [fetch EXCEPT !.pc = "writeSystem"]
    /\ UNCHANGED <<provs, routes, sets, icon>>

WriteSystemCache ==
    /\ fetch.pc = "writeSystem"
    /\ ctx' = [ctx EXCEPT !.cache["system"] = PartitionRoutes(fetch.found)["system"]]
    /\ fetch' = NoFetch
    /\ UNCHANGED <<provs, routes, sets, icon>>

-----------------------------------------------------------------------------
(* Connections to inference.local: handle_inference_interception *)

\* The request is answered; the connection waits for the next one.
NextRequest(c) == icon' = [icon EXCEPT ![c] = [NoConn EXCEPT !.pc = "read", !.routed = TRUE]]
EndStream(c, out) == icon' = [icon EXCEPT ![c] = [NoConn EXCEPT !.pc = "done", !.routed = icon[c].routed, !.out = out]]
\* A connection that ends after a routed request counts as routed.
EndOf(c) == IF icon[c].routed THEN "routed" ELSE "denied"

\* Without an InferenceContext or TLS state, or if the TLS handshake fails, the connection is denied.
Intercept(c) ==
    /\ icon[c].pc = "idle" /\ ctx.mode # "boot"
    /\ \E tls \in BOOLEAN : IF ctx.mode = "off" \/ ~tls THEN EndStream(c, "denied")
                            ELSE icon' = [icon EXCEPT ![c].pc = "read"]
    /\ UNCHANGED <<provs, routes, sets, fetch, ctx>>

\* try_parse_http_request on what was read, in buffers of 1 and then 2 units: "large" when the
\* request is incomplete in a full buffer.
TryParse(bytes, kind) == IF kind = "part" /\ bytes = 2 THEN "large" ELSE kind
\* parse_chunked_body: complete only with its terminating chunk; malformed sizes are never complete.
ParseChunkedBody(last, wellFormed) == last /\ wellFormed

\* default_patterns and detect_inference_pattern: method and path name a protocol, or nothing.
DefaultPatterns == {"openai_chat", "anthropic_messages"}
DetectInferencePattern(proto) == proto \in DefaultPatterns

ReadRequest(c) ==
    /\ icon[c].pc = "read"
    /\ \/ \E proto \in DefaultPatterns \cup {"other"}, last, wellFormed \in BOOLEAN :
             LET kind == TryParse(icon[c].bytes, IF ParseChunkedBody(last, wellFormed) THEN "complete" ELSE "part")
             IN  IF kind = "complete" /\ DetectInferencePattern(proto)
                 THEN icon' = [icon EXCEPT ![c] = [@ EXCEPT !.pc = "lock", !.proto = proto, !.bytes = 0]]
                 ELSE IF kind = "complete" /\ icon[c].routed THEN icon' = [icon EXCEPT ![c].bytes = 0]
                 ELSE IF kind = "complete" THEN EndStream(c, "denied")
                 ELSE IF kind = "large" THEN EndStream(c, EndOf(c))
                 ELSE icon' = [icon EXCEPT ![c].bytes = @ + 1]
       \/ EndStream(c, "denied")       \* Invalid: 400
       \/ EndStream(c, EndOf(c))       \* end of stream or an I/O error
    /\ UNCHANGED <<provs, routes, sets, fetch, ctx>>

\* ctx.routes.read(): tokio's lock lets no new reader pass a waiting writer.  Without routes: 503.
TakeRoutes(c) ==
    /\ icon[c].pc = "lock" /\ fetch.pc # "writeUser"
    /\ IF ctx.cache["user"] = <<>> THEN NextRequest(c) ELSE icon' = [icon EXCEPT ![c].pc = "send"]
    /\ UNCHANGED <<provs, routes, sets, fetch, ctx>>

\* The first route that speaks the protocol; NoCompatibleRoute otherwise.
ProxyWithCandidates(proto, candidates) ==
    LET speak == {i \in DOMAIN candidates : proto \in InfProtocols[candidates[i].prov]}
    IN  IF speak = {} THEN NoRoute ELSE candidates[FirstAt(candidates, speak)]

\* send_backend_request: credential and host headers of the client are dropped, the route's key,
\* headers and model put in.  Every router error is answered with its status and a generic text.
SendBackendRequest(c) ==
    LET r == ProxyWithCandidates(icon[c].proto, ctx.cache["user"]) IN
    /\ icon[c].pc = "send"
    /\ IF r = NoRoute THEN NextRequest(c)
       ELSE icon' = [icon EXCEPT ![c].routed = TRUE, ![c].used = r, ![c].pc = "stream"]
    /\ UNCHANGED <<provs, routes, sets, fetch, ctx>>

RouterErrorToHttp(c) ==
    /\ icon[c].pc = "stream"
    /\ NextRequest(c)
    /\ UNCHANGED <<provs, routes, sets, fetch, ctx>>

\* The body is streamed in chunks until its end, an upstream error, the idle timeout or the byte
\* limit: all four end with the normal terminator.  The client may go away instead.
StreamBody(c) ==
    /\ icon[c].pc = "stream"
    /\ \/ NextRequest(c)
       \/ EndStream(c, "error")
    /\ UNCHANGED <<provs, routes, sets, fetch, ctx>>

\* system_inference: the supervisor's own calls use the system routes, not the user's.
SystemInference(c) ==
    /\ icon[c].pc = "idle" /\ ctx.mode \notin {"boot", "off"} /\ fetch.pc # "writeSystem"
    /\ \E proto \in DefaultPatterns :
          LET r == ProxyWithCandidates(proto, ctx.cache["system"])
          IN  icon' = [icon EXCEPT ![c] = [NoConn EXCEPT !.pc = "done", !.proto = "system", !.used = r,
                                                         !.out = IF r = NoRoute THEN "error" ELSE "routed"]]
    /\ UNCHANGED <<provs, routes, sets, fetch, ctx>>

InfNext ==
    \/ \E p \in InfProviders : ChangeProvider(p) \/ RemoveProvider(p)
    \/ \E a \in InfAdmins : SetClusterInference(a) \/ VerifyProviderEndpoint(a) \/ ReadRoute(a) \/ PutRoute(a)
    \/ BeginFetch \/ FetchLost \/ \E n \in RouteNames : ResolveInferenceBundle(n)
    \/ BuildFromFile \/ BuildFromCluster \/ RefreshTick \/ WriteUserCache \/ WriteSystemCache
    \/ \E c \in InfConns : \/ Intercept(c) \/ ReadRequest(c) \/ TakeRoutes(c) \/ SendBackendRequest(c)
                           \/ RouterErrorToHttp(c) \/ StreamBody(c) \/ SystemInference(c)

InfSpec == InfInit /\ [][InfNext]_infVars

-----------------------------------------------------------------------------
(* Properties *)

InfTypeOK ==
    /\ \A p \in InfProviders : provs[p].gen \in 0..MaxProvGen
    /\ \A n \in RouteNames : routes[n].ver \in 0..MaxRouteVer
    /\ fetch.pc \in {"idle", "user", "system", "got", "error", "writeUser", "writeSystem"}
    /\ ctx.mode \in {"boot", "off", "file", "cluster"}
    /\ \A c \in InfConns : icon[c].bytes <= 2

\* Between two refreshes the caches hold exactly the bundle whose revision is recorded: an equal
\* revision may be skipped only because of that (spawn_route_refresh records it before the two
\* cache writes, and both the first bundle and an emptied route must count).
CachesMatchRevision ==
    ctx.mode = "cluster" /\ fetch.pc \in {"idle", "user", "system", "got", "error"}
        => ctx.rev = ctx.cache["user"] \o ctx.cache["system"]

\* The route a request is being sent with stays the cached one until the response ends, and speaks
\* the request's protocol: no refresh, key rotation or provider change reaches a request midway.
RouteStable ==
    \A c \in InfConns : icon[c].pc = "stream" =>
        /\ \E i \in DOMAIN ctx.cache["user"] : icon[c].used = ctx.cache["user"][i]
        /\ icon[c].used.name = "user"
        /\ icon[c].proto \in InfProtocols[icon[c].used.prov]

\* However providers, routes, refreshes and requests interleave, the caches are
\* those of the recorded revision and a request keeps the route it began with.
RoutesSound == InfTypeOK /\ CachesMatchRevision /\ RouteStable
=============================================================================
