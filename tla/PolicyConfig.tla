---------------------------- MODULE PolicyConfig ----------------------------
(***************************************************************************)
(* The ways of a policy document: the YAML file a user writes, the         *)
(* protocol message the command line makes of it and the gateway stores,   *)
(* the YAML `policy get --full` prints for editing, and the data document  *)
(* the policy engine of a sandbox decides with.  The engine is filled      *)
(* either from a local file (from_strings, a development override) or from *)
(* the stored message (from_proto); each way normalises ports, validates   *)
(* and expands access presets.                                             *)
(*                                                                         *)
(* A document has one network rule with one endpoint and one binary; the   *)
(* binary is left to module EgressProxy.  A text is a member of a small    *)
(* set, and "" is an absent key as well as an empty text: the YAML schema  *)
(* gives both the same default.  Hosts are the texts "h", "*.h", "*", "h*" *)
(* and "", and glob matching is the relation GlobHost.                     *)
(***************************************************************************)
EXTENDS Integers, Sequences

CONSTANTS
    FilePorts,      \* values of the scalar key port, 0 when absent
    FilePortLists,  \* values of the key ports
    FileHosts,      \* values of the key host
    FileProtocols,  \* values of the key protocol
    FileAccess,     \* values of the key access
    FileQueries     \* matchers of the query parameter, NoMatcher when absent

\* Ports are not negative, and a matcher has a form, a glob and a list of globs.
ASSUME CfgAssumption ==
    /\ FilePorts \subseteq Nat /\ FilePortLists \subseteq Seq(Nat)
    /\ FileQueries \subseteq [form : {"none", "string", "any", "object"}, glob : STRING, any : Seq(STRING)]

VARIABLES
    doc,      \* the user's file
    message,  \* the message the command line made of it, or why there is none
    stored,   \* the revisions the gateway accepted, oldest first
    exported, \* the file printed from the first revision
    engines   \* what was loaded from the file and from each revision

cfgVars == <<doc, message, stored, exported, engines>>

None == [kind |-> "none"]
Rejected == [kind |-> "rejected"]
Unchanged == [kind |-> "unchanged"]
IsPolicy(x) == x.kind = "policy"

----------------------------------------------------------------------------
\* The file.

NoMatcher == [form |-> "none", glob |-> "", any |-> <<>>]

\* A matcher is a glob, a list of globs under the key any, or an object with
\* the key glob; only the first two are in the schema of policy files.
StringMatcher(g) == [form |-> "string", glob |-> g, any |-> <<>>]
AnyMatcher(gs) == [form |-> "any", glob |-> "", any |-> gs]
GlobMatcher(g) == [form |-> "object", glob |-> g, any |-> <<>>]

NoRules == [given |-> FALSE, list |-> <<>>]
Rules(rs) == [given |-> TRUE, list |-> rs]

AllowRule(method, path, query) == [method |-> method, path |-> path, query |-> query]

RuleLists ==
    {NoRules, Rules(<<>>), Rules(<<AllowRule("GET", "", NoMatcher)>>)}
      \cup {Rules(<<AllowRule("GET", "**", q)>>) : q \in FileQueries}

Endpoints ==
    [host : FileHosts, port : FilePorts, ports : FilePortLists,
     protocol : FileProtocols, tls : {"", "skip"}, enforcement : {"", "enforce"},
     access : FileAccess, rules : RuleLists, allowed_ips : {<<>>, <<"10.0.0.1">>}]

\* run_as_user and run_as_group, and the section itself when it is absent.
NoProcess == [given |-> FALSE, user |-> "", group |-> ""]
ProcessDef(u, g) == [given |-> TRUE, user |-> u, group |-> g]

\* A path is what validation tells apart.
Paths == {"/tmp", "tmp", "/a/../b", "/"}

PolicyFile(process, ro, rw, ep) ==
    [kind |-> "policy", process |-> process, read_only |-> ro, read_write |-> rw,
     endpoint |-> ep]

PlainEndpoint ==
    [host |-> "h", port |-> 443, ports |-> <<>>, protocol |-> "", tls |-> "",
     enforcement |-> "", access |-> "", rules |-> NoRules, allowed_ips |-> <<>>]

\* Every endpoint with plain static fields, and all static fields with a plain
\* endpoint.
PathLists == {<<>>} \cup {<<x>> : x \in Paths}

StaticFields ==
    [process : {NoProcess, ProcessDef("", ""), ProcessDef("sandbox", ""), ProcessDef("root", "sandbox")},
     ro : PathLists, rw : PathLists]

Files ==
    {PolicyFile(NoProcess, <<>>, <<"/tmp">>, e) : e \in Endpoints}
      \cup {PolicyFile(s.process, s.ro, s.rw, PlainEndpoint) : s \in StaticFields}

----------------------------------------------------------------------------
\* The conversions between the file and the message.

\* ports takes precedence, and a scalar port becomes a list of one.
PortList(e) ==
    IF e.ports # <<>> THEN e.ports
    ELSE IF e.port > 0 THEN <<e.port>> ELSE <<>>

\* The matcher of a message: a glob or a list, the other one empty.
ProtoMatcher(q) ==
    IF q.form = "string" THEN [form |-> "proto", glob |-> q.glob, any |-> <<>>]
    ELSE IF q.form = "any" THEN [form |-> "proto", glob |-> "", any |-> q.any]
    ELSE NoMatcher

MapRules(f(_), rules) ==
    [rules EXCEPT !.list = [i \in DOMAIN rules.list |-> [rules.list[i] EXCEPT !.query = f(rules.list[i].query)]]]

\* The schema refuses a matcher it does not know.
Parses(file) ==
    \A i \in DOMAIN file.endpoint.rules.list :
        file.endpoint.rules.list[i].query.form # "object"

\* A message has lists, which cannot be absent.
ToProto(file) ==
    LET e == file.endpoint
        ports == PortList(e)
        rules == MapRules(ProtoMatcher, e.rules)
    IN [file EXCEPT !.endpoint =
          [e EXCEPT !.ports = ports,
                    !.port = IF ports = <<>> THEN 0 ELSE ports[1],
                    !.rules = [rules EXCEPT !.given = e.rules.list # <<>>]]]

ParseSandboxPolicy(file) == IF Parses(file) THEN ToProto(file) ELSE Rejected

FileMatcher(q) ==
    IF q.form = "none" THEN NoMatcher
    ELSE IF q.any # <<>> THEN AnyMatcher(q.any)
    ELSE StringMatcher(q.glob)

\* One port is printed as a scalar, several as a list.
CompactPorts(e) ==
    IF Len(e.ports) > 1
    THEN [port |-> 0, ports |-> e.ports]
    ELSE [port |-> IF e.ports = <<>> THEN e.port ELSE e.ports[1], ports |-> <<>>]

FromProto(policy) ==
    LET e == policy.endpoint
    IN [policy EXCEPT
          !.process = IF @.user = "" /\ @.group = "" THEN NoProcess ELSE @,
          !.endpoint = [e EXCEPT !.port = CompactPorts(e).port,
                                 !.ports = CompactPorts(e).ports,
                                 !.rules = MapRules(FileMatcher, e.rules)]]

----------------------------------------------------------------------------
\* What the gateway does with a message before it stores it.

EnsureSandboxProcessIdentity(policy) ==
    [policy EXCEPT !.process =
        ProcessDef(IF @.user = "" THEN "sandbox" ELSE @.user,
                   IF @.group = "" THEN "sandbox" ELSE @.group)]

Has(seq, x) == \E i \in DOMAIN seq : seq[i] = x

\* No relative path, no parent component, and not the root to write.
ValidateSandboxPolicy(policy) ==
    /\ policy.process.user = "sandbox" /\ policy.process.group = "sandbox"
    /\ \A x \in {"tmp", "/a/../b"} :
          ~Has(policy.read_only, x) /\ ~Has(policy.read_write, x)
    /\ ~Has(policy.read_write, "/")

Accepted(policy) ==
    LET p == EnsureSandboxProcessIdentity(policy)
    IN IF ValidateSandboxPolicy(p) THEN p ELSE Rejected

\* Paths may be added, and nothing else of the static fields may change.
StaticFieldsUnchanged(baseline, new) ==
    /\ \A i \in DOMAIN baseline.read_only : Has(new.read_only, baseline.read_only[i])
    /\ \A i \in DOMAIN baseline.read_write : Has(new.read_write, baseline.read_write[i])
    /\ new.process = baseline.process

----------------------------------------------------------------------------
\* The data document of the engine.

\* From a file: port is promoted to ports and removed.
NormalizeEndpointPorts(e) == [e EXCEPT !.ports = PortList(e), !.port = 0]

\* From a message: an object with the keys that are not empty.
MUT_MatcherJson(q) == NoMatcher

MatcherJson(q) ==
    IF q.form = "none" THEN NoMatcher
    ELSE IF q.any # <<>> THEN AnyMatcher(q.any)
    ELSE IF q.glob # "" THEN GlobMatcher(q.glob)
    ELSE [form |-> "empty", glob |-> "", any |-> <<>>]

ProtoToOpaData(e) ==
    [e EXCEPT !.ports = PortList(e), !.port = 0, !.rules = MapRules(MatcherJson, e.rules)]

\* A wildcard host starts with "*." and does not match all hosts.
HostValid(e) == e.host \notin {"*", "h*"}

\* Checked for endpoints whose protocol is spelled "rest": the matcher is a
\* glob, or an object with one of glob and any, any not empty.
QueryValid(q) ==
    /\ q.form # "empty"
    /\ q.form = "any" => q.any # <<>>

HasRules(e) == e.rules.list # <<>>

ValidateL7Policies(e) ==
    /\ HostValid(e)
    /\ ~(e.port > 0 /\ e.ports # <<>>)
    /\ ~(HasRules(e) /\ e.access # "")
    /\ e.protocol # "" => HasRules(e) \/ e.access # ""
    /\ ~(e.protocol = "sql" /\ e.enforcement = "enforce")
    /\ e.rules # Rules(<<>>)
    /\ HasRules(e) /\ e.protocol = "rest" =>
          \A i \in DOMAIN e.rules.list : QueryValid(e.rules.list[i].query)

Preset(access) ==
    CASE access = "read-only"  -> <<"GET", "HEAD", "OPTIONS">>
      [] access = "read-write" -> <<"GET", "HEAD", "OPTIONS", "POST", "PUT", "PATCH">>
      [] access = "full"       -> <<"*">>
      [] OTHER                 -> <<>>

ExpandAccessPresets(e) ==
    LET methods == Preset(e.access)
    IN IF HasRules(e) \/ methods = <<>> THEN e
       ELSE [e EXCEPT !.rules =
               Rules([i \in DOMAIN methods |-> AllowRule(methods[i], "**", NoMatcher)])]

\* Validation comes before expansion, so that rules beside access are noticed.
Load(process, e) ==
    IF ValidateL7Policies(e)
    THEN [kind |-> "policy", process |-> process, endpoint |-> ExpandAccessPresets(e)]
    ELSE Rejected

\* The static fields: a message without a process section means the sandbox
\* user, a file without one means no user at all.
ProtoProcess(p) == IF p.given THEN p ELSE ProcessDef("sandbox", "sandbox")

LoadStrings(file) == Load(file.process, NormalizeEndpointPorts(file.endpoint))
LoadProto(policy) ==
    Load(ProtoProcess(policy.process), ProtoToOpaData(policy.endpoint))

\* What the supervisor sets up processes with.
QuerySandboxConfig(data) == data.process

----------------------------------------------------------------------------
\* What an engine answers.

Requests ==
    [host : {"h", "a.h", "other"}, port : {80, 443}, method : {"GET", "POST"},
     value : {"none", "v", "w"}]

\* glob.match with "." as delimiter.
GlobHost(pattern, host) ==
    \/ pattern = "*.h" /\ host = "a.h"
    \/ pattern = "h*" /\ host = "h"
    \/ pattern = "*" /\ host \in {"h", "other"}

EndpointMatches(e, r) ==
    /\ \/ e.host = r.host
       \/ GlobHost(e.host, r.host)
       \/ e.host = "" /\ e.allowed_ips # <<>>
    /\ Has(e.ports, r.port)

Glob(pattern, value) == pattern = "*" \/ pattern = value

QueryMatches(q, value) ==
    \/ q.form = "none"
    \/ q.form \in {"string", "object"} /\ value # "none" /\ Glob(q.glob, value)
    \/ q.form \in {"any", "empty"} /\ value # "none" /\ \E i \in DOMAIN q.any : Glob(q.any[i], value)

RuleMatches(rule, r) ==
    /\ rule.method \in {"*", r.method}
    /\ rule.path = "**"
    /\ QueryMatches(rule.query, r.value)

AllowRequest(e, r) ==
    \E i \in DOMAIN e.rules.list : RuleMatches(e.rules.list[i], r)

HasExtendedConfig(e) == e.protocol # "" \/ e.allowed_ips # <<>> \/ e.tls # ""

\* The endpoint the request matches, when it says more than where to connect.
NoConfig == [PlainEndpoint EXCEPT !.host = "", !.port = 0]

QueryEndpointConfig(e, r) ==
    IF EndpointMatches(e, r) /\ HasExtendedConfig(e) THEN e ELSE NoConfig

QueryAllowedIps(e, r) == QueryEndpointConfig(e, r).allowed_ips

\* An unknown protocol has no L7 configuration: the tunnel is not inspected.
L7Protocol(text) ==
    CASE text \in {"rest", "REST"} -> "rest" [] text = "sql" -> "sql" [] OTHER -> "none"

ParseL7Config(c) ==
    [protocol |-> L7Protocol(c.protocol),
     enforcement |-> IF c.enforcement = "enforce" THEN "enforce" ELSE "audit"]

ParseTlsMode(c) == IF c.tls = "skip" THEN "skip" ELSE "auto"

EvaluateNetworkAction(e, r) == IF EndpointMatches(e, r) THEN "allow" ELSE "deny"

\* All the engine says of one request: the connection, what the tunnel needs,
\* and the request of an inspected tunnel.
Answer(data, r) ==
    LET e == data.endpoint
        c == QueryEndpointConfig(e, r)
    IN [action  |-> EvaluateNetworkAction(e, r),
        l7      |-> ParseL7Config(c),
        tls     |-> ParseTlsMode(c),
        ips     |-> QueryAllowedIps(e, r),
        request |-> L7Protocol(c.protocol) = "none" \/ AllowRequest(e, r)]

----------------------------------------------------------------------------
\* The steps.

CfgInit ==
    /\ doc \in Files
    /\ message = None /\ exported = None
    /\ stored = <<>>
    /\ engines = [file |-> None, first |-> None, second |-> None]

\* The supervisor started with a local policy file.
StartFromFile ==
    /\ engines.file = None
    /\ engines' = [engines EXCEPT !.file = LoadStrings(doc)]
    /\ UNCHANGED <<doc, message, stored, exported>>

\* The command line reads the user's file, or the one it printed.
ReadFile ==
    /\ message = None
    /\ \/ stored = <<>> /\ message' = ParseSandboxPolicy(doc)
       \/ exported # None /\ Len(stored) = 1 /\ message' = ParseSandboxPolicy(exported)
    /\ UNCHANGED <<doc, stored, exported, engines>>

\* The gateway completes and checks the message and stores it: the first one
\* with a new sandbox, the second as an update, which may not change the static
\* fields and adds no revision when its hash is that of the latest one.
SubmitPolicy ==
    /\ IsPolicy(message)
    /\ LET p == Accepted(message)
           fits == IsPolicy(p) /\ \A i \in DOMAIN stored : StaticFieldsUnchanged(stored[i], p)
       IN \/ ~fits /\ message' = Rejected /\ UNCHANGED stored
          \/ fits /\ Has(stored, p) /\ message' = Unchanged /\ UNCHANGED stored
          \/ fits /\ ~Has(stored, p) /\ message' = None /\ stored' = Append(stored, p)
    /\ UNCHANGED <<doc, exported, engines>>

ExportPolicy ==
    /\ stored # <<>> /\ exported = None
    /\ exported' = FromProto(stored[1])
    /\ UNCHANGED <<doc, message, stored, engines>>

\* A sandbox loads a stored revision.
LoadRevision ==
    \/ /\ Len(stored) >= 1 /\ engines.first = None
       /\ engines' = [engines EXCEPT !.first = LoadProto(stored[1])]
       /\ UNCHANGED <<doc, message, stored, exported>>
    \/ /\ Len(stored) = 2 /\ engines.second = None
       /\ engines' = [engines EXCEPT !.second = LoadProto(stored[2])]
       /\ UNCHANGED <<doc, message, stored, exported>>

CfgNext == StartFromFile \/ ReadFile \/ SubmitPolicy \/ ExportPolicy \/ LoadRevision

CfgSpec == CfgInit /\ [][CfgNext]_cfgVars

----------------------------------------------------------------------------

Texts(x) == x.kind \in {"none", "rejected", "unchanged", "policy"}

CfgTypeOK ==
    /\ doc \in Files
    /\ Texts(message) /\ Texts(exported) /\ Len(stored) \in 0..2
    /\ \A w \in DOMAIN engines : Texts(engines[w])

\* Two loaded engines answer every request alike.
SameAnswers(a, b) ==
    IsPolicy(a) /\ IsPolicy(b) => \A r \in Requests : Answer(a, r) = Answer(b, r)

\* A policy file that both ways of loading accept means the same on both: a
\* sandbox that reads it from disk and one that gets it from the gateway
\* decide every connection and every request alike, although one normalises
\* the YAML document and the other a message with other defaults.
PathsAgree == SameAnswers(engines.file, engines.first)

\* Printing a stored policy and submitting the print again changes nothing:
\* the gateway accepts it, a sandbox can load the second revision whenever it
\* could load the first, and both decide alike and run processes alike ("is round-trippable through
\* parse_sandbox_policy").
PrintedPolicyMeansTheSame ==
    /\ exported # None => message # Rejected
    /\ engines.first # None /\ engines.second # None =>
          /\ IsPolicy(engines.first) = IsPolicy(engines.second)
          /\ IsPolicy(engines.first) =>
                QuerySandboxConfig(engines.first) = QuerySandboxConfig(engines.second)
    /\ SameAnswers(engines.first, engines.second)

\* A policy means the same from a file and from the gateway, and again after it
\* was printed and submitted.
ConfigSound == CfgTypeOK /\ PathsAgree /\ PrintedPolicyMeansTheSame
=============================================================================
