--------------------------- MODULE PolicyHistory ---------------------------
(***************************************************************************)
(* The policy revision history of one sandbox, as the gateway's gRPC      *)
(* handlers keep it (openshell-server, grpc/policy.rs and                 *)
(* persistence/sqlite.rs).                                                *)
(*                                                                         *)
(* Handlers run concurrently and share nothing but the database.  Every   *)
(* store call is one step here, so that any two handlers interleave       *)
(* between a read and the write that depends on it.  The table's          *)
(* UNIQUE (sandbox_id, version) constraint is the only protection.        *)
(***************************************************************************)
EXTENDS Integers, FiniteSets, FiniteSetsExt

CONSTANTS
    Handlers,        \* slots for requests that are being served
    Rules,           \* names (map keys) of network policies
    Binaries,        \* binaries a rule lists
    Endpoints,       \* endpoints (host and port) a rule lists
    Grants,          \* draft chunks: rule name, binary and endpoint
    Paths,           \* filesystem paths of the static part
    Identities,      \* process identities of the static part
    Unset,           \* the empty process identity
    Sandboxed,       \* the identity an empty one is replaced by
    None,            \* an absent policy or grant
    Operations,      \* the request kinds the clients send
    Payloads,        \* the policies the clients send in updates
    InitialSpecs,    \* spec.policy as sandbox creation may have left it
    MergeRetryLimit, \* attempts of a merge or a removal
    MaxVersion,      \* bound: no new request once this version exists
    Faults           \* whether a call may be abandoned between two store calls

AllOperations == {"update", "approve", "reject", "undo", "config", "report"}

\* network_policies as a relation between rules and what they list.
Entries == [rule : Rules, item : Binaries \cup Endpoints]

Policies == [fs : SUBSET Paths, proc : Identities, net : SUBSET Entries]

DefaultPolicy == [fs |-> {}, proc |-> Unset, net |-> {}]

ASSUME MergeRetryLimitAssumption == MergeRetryLimit \in Nat \ {0}
ASSUME MaxVersionAssumption == MaxVersion \in Nat
ASSUME FaultsAssumption == Faults \in BOOLEAN
ASSUME IdentitiesAssumption == Unset \in Identities /\ Sandboxed \in Identities
ASSUME OperationsAssumption == Operations \subseteq AllOperations
ASSUME GrantsAssumption ==
    Grants \subseteq [rule : Rules, binary : Binaries, endpoint : Endpoints]
ASSUME PayloadsAssumption == Payloads \subseteq Policies
ASSUME InitialSpecsAssumption == InitialSpecs \subseteq Policies \cup {None}
ASSUME NoneAssumption == None \notin Policies /\ None \notin Grants

VARIABLES
    rows,          \* sandbox_policies: version -> [policy, status]
    record,        \* the Sandbox object: [spec, current]
    globalPolicy,  \* whether the global settings hold the "policy" key
    call           \* what each handler is doing

vars == <<rows, record, globalPolicy, call>>

Status == {"pending", "loaded", "failed", "superseded"}

Steps == {"idle", "check", "validate", "latest", "put", "supersede",
          "config_latest", "config_put", "config_mark",
          "report_supersede", "report_read", "report_put"}

Record == [spec : Policies \cup {None}, current : Nat]

Call == [pc : Steps, op : AllOperations, policy : Policies,
         grant : Grants \cup {None}, seenVersion : Nat, seenPolicy : Policies,
         seenRecord : Record, attempt : Nat]

Idle == [pc |-> "idle", op |-> "config", policy |-> DefaultPolicy,
         grant |-> None, seenVersion |-> 0, seenPolicy |-> DefaultPolicy,
         seenRecord |-> [spec |-> None, current |-> 0], attempt |-> 1]

-----------------------------------------------------------------------------
(* The sandbox_policies table. *)

Versions == DOMAIN rows

\* get_latest_policy: ORDER BY version DESC LIMIT 1, 0 when there is no row.
Latest == IF Versions = {} THEN 0 ELSE Max(Versions)

LatestPolicy == IF Versions = {} THEN DefaultPolicy ELSE rows[Latest].policy

\* put_policy_revision without its UNIQUE check: INSERT with status pending.
WithRevision(v, p) ==
    [w \in Versions \cup {v} |->
        IF w = v THEN [policy |-> p, status |-> "pending"] ELSE rows[w]]

\* supersede_older_policies.
WithSuperseded(before) ==
    [w \in Versions |->
        IF w < before /\ rows[w].status \in {"pending", "loaded"}
        THEN [rows[w] EXCEPT !.status = "superseded"]
        ELSE rows[w]]

\* update_policy_status: UPDATE ... WHERE version = v, whatever its status was.
WithStatus(v, s) == [rows EXCEPT ![v].status = s]

-----------------------------------------------------------------------------
(* Policies. *)

\* ensure_sandbox_process_identity
WithIdentity(p) ==
    IF p.proc = Unset THEN [p EXCEPT !.proc = Sandboxed] ELSE p

\* validate_static_fields_unchanged: paths may be added, nothing else changes.
StaticFieldsUnchanged(baseline, p) ==
    /\ baseline.fs \subseteq p.fs
    /\ baseline.proc = p.proc

\* The rule a grant is merged into: the one of its name, else the first found
\* (in the order of a HashMap) with its endpoint, else a new one.
MergeKeys(p, g) ==
    LET serving == {e.rule : e \in {f \in p.net : f.item = g.endpoint}}
    IN  IF serving = {} \/ \E e \in p.net : e.rule = g.rule THEN {g.rule} ELSE serving

Merges(p, g) ==
    {[p EXCEPT !.net = @ \cup [rule : {k}, item : {g.binary, g.endpoint}]] : k \in MergeKeys(p, g)}

\* The binary leaves the rule of the grant's name, and a rule without binaries
\* goes altogether.
Without(p, g) ==
    LET inRule(e) == e.rule = g.rule
        used == \E e \in p.net : inRule(e) /\ e.item \in Binaries \ {g.binary}
    IN  [p EXCEPT !.net = {e \in @ : inRule(e) => used /\ e.item # g.binary}]

\* The policies a handler may persist, computed from what it read.
Results(c) ==
    CASE c.op = "update" -> {c.policy}
      [] c.op = "approve" -> Merges(c.seenPolicy, c.grant)
      [] OTHER -> {Without(c.seenPolicy, c.grant)}

-----------------------------------------------------------------------------
Init ==
    /\ rows = [v \in {} |-> Idle]
    /\ record \in [spec : InitialSpecs, current : {0}]
    /\ globalPolicy = FALSE
    /\ call = [h \in Handlers |-> Idle]

Receive(h, c) ==
    /\ call[h].pc = "idle"
    /\ c.op \in Operations
    /\ Latest < MaxVersion
    /\ call' = [call EXCEPT ![h] = c]

Goto(h, step) == call' = [call EXCEPT ![h].pc = step]

Finish(h) == call' = [call EXCEPT ![h] = Idle]

\* UpdateConfig, sandbox scope: the record is read by name, then the global
\* settings are consulted in the next step.
ReceiveUpdate(h) ==
    \E p \in Payloads :
        /\ Receive(h, [Idle EXCEPT !.pc = "check", !.op = "update",
                                   !.policy = WithIdentity(p),
                                   !.seenRecord = record])
        /\ UNCHANGED <<rows, record, globalPolicy>>

\* ApproveDraftChunk, and RejectDraftChunk of an approved chunk.  Chunks come
\* from a sandbox that has fetched its policy, which left revision 1 behind;
\* only a store error in the backfill makes a chunk without any revision.
ReceiveDecision(h) ==
    \E g \in Grants, o \in {"approve", "reject"} :
        /\ Faults \/ Versions # {}
        /\ Receive(h, [Idle EXCEPT !.pc = "check", !.op = o, !.grant = g])
        /\ UNCHANGED <<rows, record, globalPolicy>>

\* UndoDraftChunk goes straight to the policy: it has no global check.
ReceiveUndo(h) ==
    \E g \in Grants :
        /\ Receive(h, [Idle EXCEPT !.pc = "latest", !.op = "undo", !.grant = g])
        /\ UNCHANGED <<rows, record, globalPolicy>>

CheckGlobal(h) ==
    /\ call[h].pc = "check"
    /\ \/ /\ globalPolicy
          /\ Finish(h)
       \/ /\ ~globalPolicy
          /\ Goto(h, IF call[h].op = "update" THEN "validate" ELSE "latest")
    /\ UNCHANGED <<rows, record, globalPolicy>>

\* The static fields are compared with the baseline in the record as it was
\* read; a record that had no policy gets this one, written back whole.
ValidateUpdate(h) ==
    /\ call[h].pc = "validate"
    /\ \/ /\ call[h].seenRecord.spec # None
          /\ IF StaticFieldsUnchanged(call[h].seenRecord.spec, call[h].policy)
             THEN Goto(h, "latest")
             ELSE Finish(h)
          /\ UNCHANGED record
       \/ /\ call[h].seenRecord.spec = None
          /\ record' = [call[h].seenRecord EXCEPT !.spec = call[h].policy]
          /\ Goto(h, "latest")
    /\ UNCHANGED <<rows, globalPolicy>>

\* get_latest_policy in UpdateConfig, merge_chunk_into_policy and
\* remove_chunk_from_policy, with the early returns that follow it.
ReadLatest(h) ==
    /\ call[h].pc = "latest"
    /\ \/ /\ \/ call[h].op = "update" /\ Versions # {}
                   /\ LatestPolicy = call[h].policy
             \/ call[h].op \in {"reject", "undo"} /\ Versions = {}
          /\ Finish(h)
       \/ /\ call[h].op = "update" /\ Versions # {} =>
                LatestPolicy # call[h].policy
          /\ call[h].op \in {"reject", "undo"} => Versions # {}
          /\ call' = [call EXCEPT ![h].pc = "put", ![h].seenVersion = Latest,
                                  ![h].seenPolicy = LatestPolicy]
    /\ UNCHANGED <<rows, record, globalPolicy>>

\* Mutation: the next version counts the attempts.
MUT_PutRevisionSkip(h) ==
    LET v == call[h].seenVersion + call[h].attempt IN
    /\ call[h].pc = "put"
    /\ \/ /\ v \notin Versions
          /\ \E p \in Results(call[h]) : rows' = WithRevision(v, p)
          /\ Goto(h, "supersede")
       \/ /\ v \in Versions
          /\ call' = [call EXCEPT ![h].pc = "latest", ![h].attempt = @ + 1]
          /\ UNCHANGED rows
    /\ UNCHANGED <<record, globalPolicy>>

\* Mutation: a conflict is retried with the next number and the old policy.
MUT_PutRevisionStale(h) ==
    LET v == call[h].seenVersion + 1 IN
    /\ call[h].pc = "put"
    /\ \/ /\ v \notin Versions
          /\ \E p \in Results(call[h]) : rows' = WithRevision(v, p)
          /\ Goto(h, "supersede")
       \/ /\ v \in Versions
          /\ call' = [call EXCEPT ![h].seenVersion = @ + 1]
          /\ UNCHANGED rows
    /\ UNCHANGED <<record, globalPolicy>>

\* put_policy_revision at the version after the one read.  A UNIQUE conflict
\* is retried from the read by merges and removals, and fails an update.
PutRevision(h) ==
    LET v == call[h].seenVersion + 1 IN
    /\ call[h].pc = "put"
    /\ \/ /\ v \notin Versions
          /\ \E p \in Results(call[h]) : rows' = WithRevision(v, p)
          /\ Goto(h, "supersede")
       \/ /\ v \in Versions
          /\ call[h].op # "update" /\ call[h].attempt < MergeRetryLimit
          /\ call' = [call EXCEPT ![h].pc = "latest", ![h].attempt = @ + 1]
          /\ UNCHANGED rows
       \/ /\ v \in Versions
          /\ call[h].op = "update" \/ call[h].attempt >= MergeRetryLimit
          /\ Finish(h)
          /\ UNCHANGED rows
    /\ UNCHANGED <<record, globalPolicy>>

\* Mutation: the version read is left out.
MUT_SupersedeOlder(h) ==
    /\ call[h].pc = "supersede"
    /\ rows' = WithSuperseded(call[h].seenVersion)
    /\ Finish(h)
    /\ UNCHANGED <<record, globalPolicy>>

SupersedeOlder(h) ==
    /\ call[h].pc = "supersede"
    /\ rows' = WithSuperseded(call[h].seenVersion + 1)
    /\ Finish(h)
    /\ UNCHANGED <<record, globalPolicy>>

-----------------------------------------------------------------------------
(* GetSandboxConfig: the read, and the lazy backfill of version 1. *)

ReceiveConfig(h) ==
    /\ Receive(h, [Idle EXCEPT !.pc = "config_latest", !.op = "config",
                               !.seenRecord = record])
    /\ UNCHANGED <<rows, record, globalPolicy>>

ConfigReadLatest(h) ==
    /\ call[h].pc = "config_latest"
    /\ IF Versions = {} /\ call[h].seenRecord.spec # None
       THEN Goto(h, "config_put")
       ELSE Finish(h)
    /\ UNCHANGED <<rows, record, globalPolicy>>

\* A conflict is only logged: the answer is served from the specification.
ConfigPut(h) ==
    /\ call[h].pc = "config_put"
    /\ \/ /\ 1 \notin Versions
          /\ rows' = WithRevision(1, call[h].seenRecord.spec)
          /\ Goto(h, "config_mark")
       \/ /\ 1 \in Versions
          /\ Finish(h)
          /\ UNCHANGED rows
    /\ UNCHANGED <<record, globalPolicy>>

ConfigMarkLoaded(h) ==
    /\ call[h].pc = "config_mark"
    /\ rows' = WithStatus(1, "loaded")
    /\ Finish(h)
    /\ UNCHANGED <<record, globalPolicy>>

-----------------------------------------------------------------------------
(* ReportPolicyStatus. *)

\* The supervisor reports versions it was served; rows are never deleted, so
\* the "policy revision not found" answer is for versions that do not exist.
ReceiveReport(h) ==
    \E v \in Versions, s \in {"loaded", "failed"} :
        /\ rows' = WithStatus(v, s)
        /\ "report" \in Operations
        /\ call[h].pc = "idle"
        /\ IF s = "loaded"
           THEN call' = [call EXCEPT ![h] =
                            [Idle EXCEPT !.pc = "report_supersede",
                                         !.op = "report", !.seenVersion = v]]
           ELSE UNCHANGED call
        /\ UNCHANGED <<record, globalPolicy>>

ReportSupersede(h) ==
    /\ call[h].pc = "report_supersede"
    /\ rows' = WithSuperseded(call[h].seenVersion)
    /\ Goto(h, "report_read")
    /\ UNCHANGED <<record, globalPolicy>>

ReportRead(h) ==
    /\ call[h].pc = "report_read"
    /\ call' = [call EXCEPT ![h].pc = "report_put", ![h].seenRecord = record]
    /\ UNCHANGED <<rows, record, globalPolicy>>

\* The whole record is written back, the field and everything read with it.
ReportPut(h) ==
    /\ call[h].pc = "report_put"
    /\ record' = [call[h].seenRecord EXCEPT !.current = call[h].seenVersion]
    /\ Finish(h)
    /\ UNCHANGED <<rows, globalPolicy>>

-----------------------------------------------------------------------------
(* UpdateConfig, global scope, as it shows here: the key appears and goes. *)
ToggleGlobalPolicy ==
    /\ globalPolicy' = ~globalPolicy
    /\ UNCHANGED <<rows, record, call>>

\* A store error returned with `?`, a cancelled request or a gateway restart.
Abandon(h) ==
    /\ Faults
    /\ call[h].pc # "idle"
    /\ Finish(h)
    /\ UNCHANGED <<rows, record, globalPolicy>>

Handle(h) ==
    \/ ReceiveUpdate(h) \/ ReceiveDecision(h) \/ ReceiveUndo(h)
    \/ CheckGlobal(h) \/ ValidateUpdate(h) \/ ReadLatest(h)
    \/ PutRevision(h) \/ SupersedeOlder(h)
    \/ ReceiveConfig(h) \/ ConfigReadLatest(h) \/ ConfigPut(h)
    \/ ConfigMarkLoaded(h)
    \/ ReceiveReport(h) \/ ReportSupersede(h) \/ ReportRead(h) \/ ReportPut(h)
    \/ Abandon(h)

Next == ToggleGlobalPolicy \/ \E h \in Handlers : Handle(h)

Spec == Init /\ [][Next]_vars

-----------------------------------------------------------------------------
(* Properties. *)

\* Every variable stays in its type.
TypeOK ==
    /\ Versions \subseteq Nat \ {0}
    /\ rows \in [Versions -> [policy : Policies, status : Status]]
    /\ record \in Record
    /\ globalPolicy \in BOOLEAN
    /\ call \in [Handlers -> Call]

\* Concurrent handlers never leave a hole in the version numbers, whatever
\* they read before they insert (next_version is computed from a stale read).
NoGaps == Versions = 1..Latest

\* A persisted revision is never overwritten and never deleted: of two
\* handlers that computed the same next version, one loses.
AppendOnly ==
    [][\A v \in Versions :
           v \in Versions' /\ rows'[v].policy = rows[v].policy]_vars

\* When nothing failed midway, a revision is still "pending" only while it is
\* the newest or the handler of a newer one has yet to supersede it.
PendingIsNewest ==
    ~Faults =>
        \A v \in Versions :
            rows[v].status = "pending" =>
                \/ v = Latest
                \/ \E h \in Handlers :
                       /\ call[h].pc = "supersede"
                       /\ v <= call[h].seenVersion

Submitted == {WithIdentity(p) : p \in Payloads}

Log == INSTANCE RevisionLog
           WITH Default <- DefaultPolicy,
                Seeds <- Submitted \cup (InitialSpecs \ {None}),
                log <- [v \in 1..Latest |-> rows[v].policy]

\* The read-compute-insert loop of merges, removals and updates behaves as if
\* each were one atomic step on the newest policy: no approved grant is lost
\* to a concurrent approval and none comes back after its removal.
AtomicRevisions == Log!Spec

\* For a sandbox created with a policy, every revision keeps the baseline's
\* process identity and all of its filesystem paths.
BaselineRespected ==
    None \notin InitialSpecs =>
        \A v \in Versions : StaticFieldsUnchanged(record.spec, rows[v].policy)

\* The two together: whatever the merges, removals and updates of a sandbox
\* interleave to, at most the newest revision awaits the supervisor, and none
\* has left the baseline.
HistoryCoherent == PendingIsNewest /\ BaselineRespected
=============================================================================
