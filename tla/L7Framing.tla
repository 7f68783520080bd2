----------------------------- MODULE L7Framing -----------------------------
(***************************************************************************)
(* One inspected HTTP connection: requests are parsed off the client's     *)
(* stream, their credential placeholders resolved (secrets.rs), the policy *)
(* asked, and request and response relayed by their framing (l7/rest.rs,   *)
(* l7/relay.rs).  Streams are sequences of a head, body units and the end  *)
(* of a chunked body.  Client and upstream are external: a client sends    *)
(* its next request after the response to the last one, an upstream frames *)
(* what it sends; either may close at any time.                            *)
(***************************************************************************)
EXTENDS Integers, Sequences

CONSTANTS
    BodyUnits,     \* greatest number of units of a body
    Statuses,      \* status codes of the upstream's answers; other 1xx than 101 are interim ones
    MaxRequests    \* bound on the requests of a connection

\* An answer has no body unless its status says it may; units are counted, not bytes.
ASSUME L7Assumption ==
    BodyUnits \in Nat \ {0} /\ MaxRequests \in Nat /\ Statuses \subseteq (100..199) \cup {200, 204, 304}

VARIABLES
    resolver,  \* the sandbox has provider credentials
    inspected, \* the endpoint has an L7 policy; otherwise placeholders are resolved and nothing is asked
    sent,      \* number of requests the client has sent
    toProxy,   \* client's bytes not yet read by the proxy
    toServer,  \* bytes the proxy has written upstream, not yet read there
    toRelay,   \* upstream's bytes not yet read by the proxy
    toClient,  \* bytes written to the client, not yet read
    server,    \* the upstream: [pc, req, need]
    cl,        \* the client: [pc, need, from]
    rly        \* the relay loop: [pc, req, resp, left]

l7Vars == <<resolver, inspected, sent, toProxy, toServer, toRelay, toClient, server, cl, rly>>

Head0 == [t |-> "head", id |-> 0, method |-> "GET", frame |-> "none", len |-> 0, upgrade |-> FALSE, target |-> "plain",
          header |-> "plain", status |-> 0, close |-> FALSE]
Unit(n) == [Head0 EXCEPT !.t = "unit", !.id = n]
LastChunk(n) == [Head0 EXCEPT !.t = "last", !.id = n]
Body(n, frame, len) ==
    [i \in 1..len |-> Unit(n)] \o (IF frame = "chunked" THEN <<LastChunk(n)>> ELSE <<>>)

\* Units behind a head, the last chunk counted: what its reader waits for.
Units(head) == head.len + (IF head.frame = "chunked" THEN 1 ELSE 0)

\* Nothing of a message is kept once the loop is back at its start, or left.
Resting(pc) == [pc |-> pc, req |-> Head0, resp |-> Head0, left |-> 0]

L7Init ==
    /\ resolver \in BOOLEAN /\ inspected \in BOOLEAN /\ sent = 0
    /\ toProxy = <<>> /\ toServer = <<>> /\ toRelay = <<>> /\ toClient = <<>>
    /\ server = [pc |-> "head", req |-> Head0, need |-> 0]
    /\ cl = [pc |-> "idle", need |-> 0, from |-> {}]
    /\ rly = Resting("parse")

-----------------------------------------------------------------------------
(* The client *)

Targets == {"plain", "known", "unknown", "control", "slash", "encoded", "malformed"}
Headers == {"plain", "known", "bearer", "basic", "inside", "control"}

Request(n, method, frame, len, upgrade, target, header) ==
    [Head0 EXCEPT !.id = n, !.method = method, !.frame = frame, !.len = len, !.upgrade = upgrade, !.target = target,
                  !.header = header]

\* Methods with their bodies; a head whose framing contradicts itself is "both".
ClientSends ==
    /\ cl.pc = "idle" /\ sent < MaxRequests /\ rly.pc \notin {"raw", "closed"}
    /\ \E method \in {"GET", "HEAD", "POST"}, frame \in {"none", "length", "chunked", "both"}, len \in 0..BodyUnits,
          upgrade \in BOOLEAN, target \in Targets, header \in Headers :
          /\ frame \in {"none", "both"} => len = 0
          /\ method # "POST" => frame = "none"
          /\ upgrade => method = "GET" /\ target = "plain" /\ header = "plain"
          /\ target = "plain" \/ header = "plain"
          /\ toProxy' = toProxy \o <<Request(sent + 1, method, frame, len, upgrade, target, header)>>
                                \o Body(sent + 1, frame, len)
    /\ sent' = sent + 1 /\ cl' = [pc |-> "wait", need |-> 0, from |-> {}]
    /\ UNCHANGED <<resolver, inspected, toServer, toRelay, toClient, server, rly>>

Interim(head) == head.status \in 100..199 \ {101}

\* The client reads by the rules of HTTP: no body to a HEAD, 204 or 304.
ClientReads ==
    /\ cl.pc \in {"wait", "body"} /\ toClient # <<>>
    /\ toClient' = Tail(toClient)
    /\ LET x == Head(toClient)
           bodiless == x.method = "HEAD" \/ x.status \in {204, 304}
           end == x.frame = "none" \/ bodiless \/ (x.frame = "length" /\ x.len = 0)
           next == IF cl.pc = "body" THEN cl.need - 1 ELSE IF end THEN 0 ELSE Units(x)
       IN  cl' = IF cl.pc = "wait" /\ x.t # "head" THEN [cl EXCEPT !.from = @ \cup {0}]
                 ELSE IF cl.pc = "wait" /\ Interim(x) THEN [cl EXCEPT !.from = @ \cup {x.id}]
                 ELSE [pc |-> IF next = 0 THEN "idle" ELSE "body", need |-> next, from |-> cl.from \cup {x.id}]
    /\ UNCHANGED <<resolver, inspected, sent, toProxy, toServer, toRelay, server, rly>>

-----------------------------------------------------------------------------
(* Placeholders: secrets.rs *)

\* resolve_placeholder: a value with a control character is refused.
ResolvePlaceholder(kind) == kind \notin {"unknown", "control"}
\* A value that would change the path is refused there.
ValidateCredentialForPath(kind) == kind # "slash"

\* rewrite_uri_path and rewrite_uri_query_params: every placeholder is resolved, or it is an error.
RewriteUriPath(kind) == IF ResolvePlaceholder(kind) /\ ValidateCredentialForPath(kind) THEN "secret" ELSE "error"
\* rewrite_request_line looks at a target that shows the prefix as it stands.
RewriteRequestLine(kind) == IF kind \in {"plain", "encoded"} THEN kind ELSE RewriteUriPath(kind)

RewriteBasicAuthToken(kind) == IF kind = "basic" THEN "secret" ELSE kind
\* The whole value, a Basic token, or the part behind the scheme; anything else is left alone.
RewriteHeaderValue(kind) ==
    IF kind \in {"known", "bearer"} THEN "secret" ELSE RewriteBasicAuthToken(kind)

\* The scan of the result: a placeholder left in the head, or, decoded, in the request line.
Unresolved(line, header) == line = "encoded" \/ header \in {"inside", "control"}

\* rewrite_http_header_block: without credentials nothing is looked at.
RewriteHeaderBlock(head) ==
    LET line == RewriteRequestLine(head.target)
        header == RewriteHeaderValue(head.header)
    IN  IF ~resolver THEN head
        ELSE IF line = "error" \/ Unresolved(line, header) THEN [head EXCEPT !.t = "error"]
        ELSE [head EXCEPT !.target = line, !.header = header]

\* rewrite_target_for_eval decides on the target alone, before the policy is asked.
RewriteTargetForEval(kind) == IF kind = "encoded" THEN "error" ELSE RewriteRequestLine(kind)

-----------------------------------------------------------------------------
(* The relay: parse_http_request, relay_rest, relay_http_request_with_resolver *)

CloseRelay == rly' = Resting("closed")

\* Both framings, or two lengths that differ, are an error; chunked wins over none.
ParseBodyLength(head) == IF head.frame = "both" THEN "error" ELSE head.frame

\* A query with broken percent-encoding is an error.
ParseTargetQuery(head) == IF head.target = "malformed" THEN "error" ELSE head.target

\* Byte by byte up to the empty line; a broken head ends the connection.
ParseHttpRequest ==
    /\ rly.pc = "parse" /\ toProxy # <<>>
    /\ IF Head(toProxy).t = "head" /\ "error" \notin {ParseBodyLength(Head(toProxy)), ParseTargetQuery(Head(toProxy))}
       THEN /\ toProxy' = Tail(toProxy)
            /\ rly' = [rly EXCEPT !.pc = "eval", !.req = Head(toProxy)]
       ELSE CloseRelay /\ UNCHANGED toProxy
    /\ UNCHANGED <<resolver, inspected, sent, toServer, toRelay, toClient, server, cl>>

\* A target that does not resolve is answered 500, a denied request 403; both close.
SendDenyResponse(status, len) ==
    toClient' = toClient \o <<[rly.req EXCEPT !.status = status, !.frame = "length", !.len = len, !.close = TRUE]>>
                         \o Body(rly.req.id, "length", len)

TargetFails ==
    /\ rly.pc = "eval" /\ resolver /\ RewriteTargetForEval(rly.req.target) = "error"
    /\ CloseRelay /\ SendDenyResponse(500, 0)
    /\ UNCHANGED <<resolver, inspected, sent, toProxy, toServer, toRelay, server, cl>>

\* relay_rest asks the policy.
EvaluateRequest ==
    /\ rly.pc = "eval" /\ inspected /\ (resolver => RewriteTargetForEval(rly.req.target) # "error")
    /\ \/ rly' = [rly EXCEPT !.pc = "forward"] /\ UNCHANGED toClient
       \/ CloseRelay /\ SendDenyResponse(403, 1)
    /\ UNCHANGED <<resolver, inspected, sent, toProxy, toServer, toRelay, server, cl>>

\* relay_passthrough_with_credentials only logs.
PassThrough ==
    /\ rly.pc = "eval" /\ ~inspected /\ (resolver => RewriteTargetForEval(rly.req.target) # "error")
    /\ rly' = [rly EXCEPT !.pc = "forward"]
    /\ UNCHANGED <<resolver, inspected, sent, toProxy, toServer, toRelay, toClient, server, cl>>

\* The rewritten head, then as much body as the framing says.
ForwardHead ==
    LET out == RewriteHeaderBlock(rly.req) IN
    /\ rly.pc = "forward"
    /\ IF out.t = "error" THEN CloseRelay /\ UNCHANGED toServer
       ELSE /\ toServer' = Append(toServer, out)
            /\ rly' = [rly EXCEPT !.pc = IF out.frame = "chunked" \/ out.len > 0 THEN "body" ELSE "resp",
                                  !.left = IF out.frame = "length" THEN out.len ELSE 0]
    /\ UNCHANGED <<resolver, inspected, sent, toProxy, toRelay, toClient, server, cl>>

\* relay_fixed, relay_chunked: whatever one read returned is written on; a chunked body is over
\* when its last chunk has been seen among what was read.
RelayFixed(left, n) == left - n
RelayChunked(read) == \E i \in DOMAIN read : read[i].t = "last"

RelayBody ==
    /\ rly.pc = "body" /\ toProxy # <<>>
    /\ \E n \in 1..Len(toProxy) :
          LET read == SubSeq(toProxy, 1, n)
          IN  /\ rly.req.frame = "length" => n <= rly.left
              /\ toServer' = toServer \o read /\ toProxy' = SubSeq(toProxy, n + 1, Len(toProxy))
              /\ rly' = IF rly.req.frame = "length"
                        THEN [rly EXCEPT !.left = RelayFixed(@, n), !.pc = IF RelayFixed(rly.left, n) = 0 THEN "resp" ELSE "body"]
                        ELSE [rly EXCEPT !.pc = IF RelayChunked(read) THEN "resp" ELSE "body"]
    /\ UNCHANGED <<resolver, inspected, sent, toRelay, toClient, server, cl>>

-----------------------------------------------------------------------------
(* The response: relay_response *)

MUT_IsBodilessResponse(method, status) == status \in 100..199 \cup {204, 304}
IsBodilessResponse(method, status) == method = "HEAD" \/ status \in 100..199 \cup {204, 304}
\* An unframed body needs the server's Connection: close; without it the body counts as empty.
ParseConnectionClose(head) == head.close
ClientRequestedUpgrade(head) == head.upgrade

\* The head with what was read behind it.  101 upgrades, if the client asked for it; a bodiless
\* response, or one without framing, drops what came behind its head.
RelayResponseHead ==
    /\ rly.pc = "resp" /\ toRelay # <<>>
    /\ \E n \in 1..Len(toRelay) :
          LET head == Head(toRelay)
              over == SubSeq(toRelay, 2, n)
              bodiless == IsBodilessResponse(rly.req.method, head.status)
              rest == IF head.frame = "length" /\ head.len > Len(over) THEN head.len - Len(over) ELSE 0
              framed == /\ toClient' = toClient \o <<head>> \o over
                        /\ rly' = IF (head.frame = "length" /\ rest = 0) \/ RelayChunked(over) THEN Resting("parse")
                                  ELSE [pc |-> "respbody", req |-> Head0, resp |-> head, left |-> rest]
          IN  /\ toRelay' = SubSeq(toRelay, n + 1, Len(toRelay))
              /\ IF head.status = 101 /\ ClientRequestedUpgrade(rly.req) THEN
                    toClient' = toClient \o <<head>> \o over /\ rly' = Resting("raw")
                 ELSE IF head.status = 101 THEN toClient' = Append(toClient, head) /\ CloseRelay
                 ELSE IF bodiless THEN
                    toClient' = Append(toClient, head) /\ rly' = Resting(IF ParseConnectionClose(head) THEN "closed" ELSE "parse")
                 ELSE IF head.frame = "none" /\ ~ParseConnectionClose(head) THEN
                    toClient' = Append(toClient, head) /\ rly' = Resting("parse")
                 ELSE IF head.frame = "none" THEN
                    toClient' = toClient \o <<head>> \o over /\ rly' = Resting("eof")
                 ELSE framed
    /\ UNCHANGED <<resolver, inspected, sent, toProxy, toServer, server, cl>>

\* With explicit framing the loop goes on even if the server is about to close.
RelayResponseBody ==
    /\ rly.pc = "respbody" /\ toRelay # <<>>
    /\ \E n \in 1..Len(toRelay) :
          LET read == SubSeq(toRelay, 1, n)
              over == IF rly.resp.frame = "length" THEN rly.left = n ELSE RelayChunked(read)
          IN  /\ rly.resp.frame = "length" => n <= rly.left
              /\ toClient' = toClient \o read /\ toRelay' = SubSeq(toRelay, n + 1, Len(toRelay))
              /\ rly' = IF over THEN Resting("parse")
                        ELSE [rly EXCEPT !.left = IF rly.resp.frame = "length" THEN @ - n ELSE 0]
    /\ UNCHANGED <<resolver, inspected, sent, toProxy, toServer, server, cl>>

\* relay_until_eof: the close of the server or the idle timeout ends the body and the connection.
RelayUntilEof ==
    /\ rly.pc = "eof"
    /\ \/ toRelay # <<>> /\ toClient' = toClient \o toRelay /\ toRelay' = <<>> /\ UNCHANGED rly
       \/ CloseRelay /\ UNCHANGED <<toClient, toRelay>>
    /\ UNCHANGED <<resolver, inspected, sent, toProxy, toServer, server, cl>>

\* handle_upgrade copies bytes both ways until a side ends; the connection is not parsed again.
HandleUpgrade ==
    /\ rly.pc = "raw" /\ CloseRelay
    /\ UNCHANGED <<resolver, inspected, sent, toProxy, toServer, toRelay, toClient, server, cl>>

\* Either side closes or fails; a read or write then ends the relay.
ConnectionEnds ==
    /\ rly.pc \notin {"raw", "closed"} /\ CloseRelay
    /\ UNCHANGED <<resolver, inspected, sent, toProxy, toServer, toRelay, toClient, server, cl>>

-----------------------------------------------------------------------------
(* The upstream *)

ServerReads ==
    /\ server.pc \in {"head", "body"} /\ toServer # <<>>
    /\ toServer' = Tail(toServer)
    /\ LET x == Head(toServer)
       IN  server' = IF server.pc = "body" THEN [server EXCEPT !.need = @ - 1, !.pc = IF server.need = 1 THEN "answer" ELSE "body"]
                     ELSE IF x.t # "head" THEN [server EXCEPT !.pc = "confused"]
                     ELSE [pc |-> IF Units(x) > 0 THEN "body" ELSE "answer", req |-> x, need |-> Units(x)]
    /\ UNCHANGED <<resolver, inspected, sent, toProxy, toRelay, toClient, cl, rly>>

Response(req, status, frame, len, close) ==
    [Head0 EXCEPT !.id = req.id, !.method = req.method, !.status = status, !.frame = frame, !.len = len, !.close = close]

\* The answer's length may describe a body that HEAD, 204 and 304 leave out.
ServerAnswers ==
    /\ server.pc = "answer"
    /\ \E status \in Statuses, frame \in {"none", "length", "chunked"}, len \in 0..BodyUnits, close \in BOOLEAN :
          LET head == Response(server.req, status, frame, len, close)
              none == status # 200 \/ server.req.method = "HEAD"
          IN  /\ frame = "none" => len = 0
              /\ status < 200 => frame = "none" /\ ~close
              /\ toRelay' = toRelay \o <<head>> \o (IF none THEN <<>> ELSE Body(server.req.id, frame, len))
              /\ server' = IF status < 200 /\ status # 101 THEN server
                           ELSE [server EXCEPT !.pc = IF close \/ status = 101 THEN "done" ELSE "head", !.req = Head0]
    /\ UNCHANGED <<resolver, inspected, sent, toProxy, toServer, toClient, cl, rly>>

L7Next ==
    \/ ClientSends \/ ClientReads \/ ParseHttpRequest \/ TargetFails \/ EvaluateRequest \/ PassThrough \/ ForwardHead \/ RelayBody
    \/ RelayResponseHead \/ RelayResponseBody \/ RelayUntilEof \/ HandleUpgrade \/ ConnectionEnds \/
       ServerReads \/ ServerAnswers

L7Spec == L7Init /\ [][L7Next]_l7Vars

-----------------------------------------------------------------------------
(* Properties *)

L7TypeOK ==
    /\ sent \in 0..MaxRequests
    /\ rly.pc \in {"parse", "eval", "forward", "body", "resp", "respbody", "eof", "raw", "closed"}
    /\ rly.left \in 0..BodyUnits
    /\ server.pc \in {"head", "body", "answer", "done", "confused"} /\ cl.pc \in {"idle", "wait", "body"}

\* What the client reads as the answer to a request is that request's response, head and body, the
\* upstream never meets body bytes where it expects a request, and the relay never waits for a
\* response or a body that nobody will send: across keep-alive, HEAD, 204, 304, fixed and chunked
\* bodies and reads that end anywhere, no byte is left over or missing (relay_response).
InStep ==
    /\ cl.from \subseteq {sent}
    /\ server.pc # "confused"
    /\ rly.pc = "respbody" => toRelay # <<>>
    /\ rly.pc = "resp" => toRelay # <<>> \/ toServer # <<>> \/ server.pc \in {"answer", "done"}

\* With credentials in the sandbox no head with an unresolved placeholder in its request line, plain
\* or percent-encoded, or showing in a header is forwarded (rewrite_http_header_block fails closed).
PlaceholdersResolved ==
    resolver => \A i \in DOMAIN toServer :
                  toServer[i].t = "head" => {toServer[i].target, toServer[i].header} \subseteq {"plain", "secret"}

\* Through any sequence of requests and responses client, relay and upstream
\* agree where a message ends, and no placeholder leaves the sandbox.
FramingSound == L7TypeOK /\ InStep /\ PlaceholdersResolved
=============================================================================
