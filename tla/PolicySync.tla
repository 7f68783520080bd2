----------------------------- MODULE PolicySync -----------------------------
(***************************************************************************)
(* How a sandbox supervisor follows the configuration the gateway keeps   *)
(* for it: load_policy at startup, then run_policy_poll_loop              *)
(* (openshell-sandbox, lib.rs), against UpdateConfig, GetSandboxConfig    *)
(* and ReportPolicyStatus (openshell-server, grpc/policy.rs).             *)
(*                                                                         *)
(* Every RPC is one step: PolicyHistory shows that the gateway's handlers *)
(* act atomically on the history.  A policy is what the supervisor tells  *)
(* apart: the network rules the OPA engine enforces, and whether the      *)
(* baseline filesystem paths are in it.  The config revision is a hash of *)
(* source, policy and settings; here it is that triple itself.            *)
(***************************************************************************)
EXTENDS Integers, Sequences

CONSTANTS
    Nets,         \* network parts of policies
    Invalid,      \* the ones OpaEngine::from_proto refuses
    NoRules,      \* the network part without any network policy
    None,         \* an absent policy, engine or configuration
    Discovered,   \* the policy found on the sandbox's disk
    Submitted,    \* what users submit for the sandbox
    Global,       \* what users submit as the global policy
    InitialSpecs, \* spec.policy as sandbox creation left it, or None
    MaxVersion,   \* bound on the number of revisions
    Toggles,      \* whether users change the setting
    Restarts,     \* whether the supervisor may crash and start again
    RpcFailures   \* whether single RPCs of the supervisor may fail

Policies == [net : Nets, base : BOOLEAN]

ASSUME NetsAssumption ==
    /\ NoRules \in Nets /\ Invalid \subseteq Nets \ {NoRules}
    /\ None \notin Nets
ASSUME PoliciesAssumption ==
    /\ Submitted \subseteq Policies
    /\ Global \subseteq Policies
    /\ Discovered \in Policies
    /\ InitialSpecs \subseteq Policies \cup {None}
    /\ None \notin Policies
ASSUME BoundsAssumption ==
    /\ MaxVersion \in Nat
    /\ Toggles \in BOOLEAN /\ Restarts \in BOOLEAN /\ RpcFailures \in BOOLEAN

VARIABLES
    rows,      \* gateway: the sandbox's revisions, <<[policy, status]>>
    spec,      \* gateway: spec.policy of the sandbox record
    current,   \* gateway: current_policy_version of the sandbox record
    global,    \* gateway: the global policy, or None
    setting,   \* gateway: effective value of ocsf_json_enabled
    pc,        \* supervisor: where it is
    fetched,   \* supervisor: the policy load_policy works on
    engine,    \* supervisor: network rules the OPA engine enforces
    tracked,   \* supervisor: last configuration the poll loop recorded
    polled,    \* supervisor: configuration whose load is being reported
    ocsf       \* supervisor: the ocsf_enabled flag

gatewayVars == <<rows, spec, current, global, setting>>
supervisorVars == <<pc, fetched, engine, tracked, polled, ocsf>>
vars == <<gatewayVars, supervisorVars>>

Config == [policy : Policies \cup {None}, version : Nat,
           source : {"sandbox", "global"}, ocsf : BOOLEAN]
Tracked == [policy : Policies \cup {None}, source : {"sandbox", "global"},
            ocsf : BOOLEAN]

-----------------------------------------------------------------------------
(* The gateway's side of each RPC. *)

Newest == rows[Len(rows)]

Superseded(rs, before) ==
    [v \in 1..Len(rs) |->
        IF v < before /\ rs[v].status \in {"pending", "loaded"}
        THEN [rs[v] EXCEPT !.status = "superseded"]
        ELSE rs[v]]

\* GetSandboxConfig: version 1 is backfilled from the specification, marked
\* loaded at once; a global policy replaces the answer's policy.
Backfilled ==
    IF rows = <<>> /\ spec # None
    THEN <<[policy |-> spec, status |-> "loaded"]>>
    ELSE rows

MUT_ServedNext ==
    [policy |-> CASE global # None -> global
                  [] Backfilled # <<>> -> Backfilled[Len(Backfilled)].policy
                  [] OTHER -> None,
     version |-> Len(rows) + 1,
     source |-> IF global # None THEN "global" ELSE "sandbox",
     ocsf |-> setting]

MUT_Served ==
    [policy |-> CASE global # None -> global
                  [] Backfilled # <<>> -> Backfilled[Len(Backfilled)].policy
                  [] OTHER -> None,
     version |-> IF Backfilled = <<>> /\ global # None THEN 1 ELSE Len(Backfilled),
     source |-> "sandbox",
     ocsf |-> setting]

Served ==
    [policy |-> CASE global # None -> global
                  [] Backfilled # <<>> -> Backfilled[Len(Backfilled)].policy
                  [] OTHER -> None,
     version |-> IF Backfilled = <<>> /\ global # None THEN 1 ELSE Len(Backfilled),
     source |-> IF global # None THEN "global" ELSE "sandbox",
     ocsf |-> setting]

\* compute_config_revision leaves the version out.
Revision(c) == [policy |-> c.policy, source |-> c.source, ocsf |-> c.ocsf]

\* UpdateConfig, sandbox scope: refused under a global policy or when a
\* baseline path would go; a policy equal to the newest is a no-op.
Accepts(p) ==
    /\ global = None
    /\ spec # None => (spec.base => p.base)

Update(p) ==
    /\ spec' = IF spec = None THEN p ELSE spec
    /\ rows' = IF rows # <<>> /\ Newest.policy = p
               THEN rows
               ELSE Append(Superseded(rows, Len(rows) + 1),
                           [policy |-> p, status |-> "pending"])
    /\ UNCHANGED <<current, global, setting>>

MUT_Reported(v, s) == [rows EXCEPT ![v].status = s]

\* ReportPolicyStatus
Reported(v, s) ==
    LET rs == [rows EXCEPT ![v].status = s]
    IN  IF s = "loaded" THEN Superseded(rs, v) ELSE rs

-----------------------------------------------------------------------------
(* What users do. *)

UserUpdate ==
    /\ Len(rows) < MaxVersion
    /\ \E p \in Submitted : Accepts(p) /\ Update(p)
    /\ UNCHANGED supervisorVars

SetGlobalPolicy ==
    /\ \E p \in Global : global' = p
    /\ UNCHANGED <<rows, spec, current, setting, supervisorVars>>

DeleteGlobalPolicy ==
    /\ global # None
    /\ global' = None
    /\ UNCHANGED <<rows, spec, current, setting, supervisorVars>>

SetSetting ==
    /\ Toggles
    /\ setting' = ~setting
    /\ UNCHANGED <<rows, spec, current, global, supervisorVars>>

-----------------------------------------------------------------------------
(* The supervisor: load_policy. *)

Start ==
    /\ pc = "down"
    /\ pc' = "fetch"
    /\ UNCHANGED <<gatewayVars, fetched, engine, tracked, polled, ocsf>>

\* A failure anywhere in load_policy ends the process.
Exit ==
    /\ pc' = "down"
    /\ fetched' = None /\ engine' = None /\ tracked' = None /\ polled' = None
    /\ ocsf' = FALSE

FetchPolicy ==
    /\ pc = "fetch"
    /\ rows' = Backfilled
    /\ fetched' = Served.policy
    /\ pc' = IF Served.policy = None THEN "sync" ELSE "enrich"
    /\ UNCHANGED <<spec, current, global, setting, engine, tracked, polled, ocsf>>

\* enrich_proto_baseline_paths: only a policy with network rules is enriched.
Enriched(p) == IF p.net = NoRules THEN p ELSE [p EXCEPT !.base = TRUE]

SyncDiscovered ==
    /\ pc = "sync"
    /\ \/ /\ Accepts(Enriched(Discovered))
          /\ Update(Enriched(Discovered))
          /\ pc' = "fetch"
          /\ UNCHANGED <<fetched, engine, tracked, polled, ocsf>>
       \/ /\ ~Accepts(Enriched(Discovered))
          /\ Exit
          /\ UNCHANGED gatewayVars

\* The policy is enriched, and what that added is synced to the gateway.  A
\* refused or failed sync is not fatal.
EnrichPolicy ==
    /\ pc = "enrich"
    /\ LET p == Enriched(fetched) IN
       /\ fetched' = p
       /\ \/ /\ p # fetched /\ Accepts(p)
             /\ Update(p)
          \/ /\ p # fetched => (~Accepts(p) \/ RpcFailures)
             /\ UNCHANGED gatewayVars
    /\ pc' = "load"
    /\ UNCHANGED <<engine, tracked, polled, ocsf>>

LoadEngine ==
    /\ pc = "load"
    /\ \/ /\ fetched.net \notin Invalid
          /\ engine' = fetched.net
          /\ pc' = "init"
          /\ UNCHANGED <<fetched, tracked, polled, ocsf>>
       \/ /\ fetched.net \in Invalid
          /\ Exit
    /\ UNCHANGED gatewayVars

-----------------------------------------------------------------------------
(* The supervisor: run_policy_poll_loop. *)

\* The first poll only records what it saw.
InitialPoll ==
    /\ pc = "init"
    /\ pc' = "loop"
    /\ \/ /\ rows' = Backfilled
          /\ tracked' = Revision(Served)
       \/ /\ RpcFailures
          /\ UNCHANGED <<rows, tracked>>
    /\ UNCHANGED <<spec, current, global, setting, fetched, engine, polled, ocsf>>

\* The connection for the loop cannot be set up: the task ends, the sandbox
\* keeps running.
PollLoopFails ==
    /\ RpcFailures
    /\ pc = "init"
    /\ pc' = "unpolled"
    /\ UNCHANGED <<gatewayVars, fetched, engine, tracked, polled, ocsf>>

PolicyChanged ==
    IF tracked = None THEN Served.policy # None
                      ELSE Served.policy # tracked.policy

Changed == tracked = None \/ Revision(Served) # tracked

MUT_PollAndReload ==
    /\ pc = "loop"
    /\ Changed /\ PolicyChanged /\ Served.policy # None
    /\ rows' = Backfilled
    /\ engine' = Served.policy.net
    /\ polled' = Served
    /\ pc' = "report"
    /\ UNCHANGED <<spec, current, global, setting, fetched, tracked, ocsf>>

\* The policy changed: the engine is rebuilt, and kept on failure; the result
\* is reported for the sandbox's own revisions only.
PollAndReload ==
    /\ pc = "loop"
    /\ Changed /\ PolicyChanged /\ Served.policy # None
    /\ rows' = Backfilled
    /\ engine' = IF Served.policy.net \in Invalid THEN engine ELSE Served.policy.net
    /\ \/ /\ Served.version > 0 /\ Served.source = "sandbox"
          /\ polled' = Served
          /\ pc' = "report"
          /\ UNCHANGED <<tracked, ocsf>>
       \/ /\ Served.version = 0 \/ Served.source = "global"
          /\ tracked' = Revision(Served)
          /\ ocsf' = Served.ocsf
          /\ UNCHANGED <<pc, polled>>
    /\ UNCHANGED <<spec, current, global, setting, fetched>>

\* The policy went away: recorded, and the rest of the iteration is skipped.
PollNoPayload ==
    /\ pc = "loop"
    /\ Changed /\ PolicyChanged /\ Served.policy = None
    /\ tracked' = Revision(Served)
    /\ UNCHANGED <<gatewayVars, pc, fetched, engine, polled, ocsf>>

MUT_PollSettings ==
    /\ pc = "loop"
    /\ Changed
    /\ rows' = Backfilled
    /\ tracked' = Revision(Served)
    /\ ocsf' = Served.ocsf
    /\ UNCHANGED <<spec, current, global, setting, pc, fetched, engine, polled>>

PollSettings ==
    /\ pc = "loop"
    /\ Changed /\ ~PolicyChanged
    /\ rows' = Backfilled
    /\ tracked' = Revision(Served)
    /\ ocsf' = Served.ocsf
    /\ UNCHANGED <<spec, current, global, setting, pc, fetched, engine, polled>>

Poll == PollAndReload \/ PollNoPayload \/ PollSettings

\* The report reaches the gateway or it does not; nobody tries again.
Report ==
    /\ pc = "report"
    /\ LET s == IF polled.policy.net \in Invalid THEN "failed" ELSE "loaded" IN
       \/ /\ rows' = Reported(polled.version, s)
          /\ current' = IF s = "loaded" THEN polled.version ELSE current
       \/ RpcFailures /\ UNCHANGED <<rows, current>>
    /\ tracked' = Revision(polled)
    /\ ocsf' = polled.ocsf
    /\ polled' = None
    /\ pc' = "loop"
    /\ UNCHANGED <<spec, global, setting, fetched, engine>>

Crash ==
    /\ Restarts
    /\ pc # "down"
    /\ Exit
    /\ UNCHANGED gatewayVars

-----------------------------------------------------------------------------
Init ==
    /\ rows = <<>>
    /\ spec \in InitialSpecs
    /\ current = 0
    /\ global = None
    /\ setting = FALSE
    /\ pc = "down"
    /\ fetched = None /\ engine = None /\ tracked = None /\ polled = None
    /\ ocsf = FALSE

User == UserUpdate \/ SetGlobalPolicy \/ DeleteGlobalPolicy \/ SetSetting

Supervisor ==
    \/ Start \/ FetchPolicy \/ SyncDiscovered \/ EnrichPolicy \/ LoadEngine
    \/ InitialPoll \/ PollLoopFails \/ Poll \/ Report

Next == User \/ Supervisor \/ Crash

\* The kubelet restarts the container, the poll loop's timer fires forever and
\* the gateway answers: the supervisor always takes its next step.
Spec == Init /\ [][Next]_vars /\ WF_vars(Supervisor)

-----------------------------------------------------------------------------
(* Properties. *)

\* Every variable stays in its type, and a report names a revision that exists.
TypeOK ==
    /\ rows \in Seq([policy : Policies,
                     status : {"pending", "loaded", "failed", "superseded"}])
    /\ spec \in Policies \cup {None}
    /\ current \in 0..Len(rows)
    /\ global \in Policies \cup {None}
    /\ setting \in BOOLEAN /\ ocsf \in BOOLEAN
    /\ pc \in {"down", "fetch", "sync", "enrich", "load", "init", "loop", "report",
              "unpolled"}
    /\ fetched \in Policies \cup {None}
    /\ engine \in Nets \cup {None}
    /\ tracked \in Tracked \cup {None}
    /\ polled \in Config \cup {None}
    /\ polled # None => polled.version \in 1..Len(rows)

\* Last-known-good: whatever is submitted and however polls, crashes and
\* failed reports interleave, a running engine holds a policy that passed
\* validation, and once there is one it is never without.
LastKnownGood ==
    /\ engine \notin Invalid
    /\ pc \in {"init", "loop", "report", "unpolled"} => engine # None

\* A revision is reported as loaded only when the engine enforces exactly its
\* rules (the backfill of version 1 excepted), even when a global policy hides
\* it or newer revisions arrive between poll and report.
ReportsAreTruthful ==
    [][\A v \in 1..Len(rows) :
           rows'[v].status = "loaded" /\ rows[v].status # "loaded"
               => engine = rows[v].policy.net]_vars

\* Two revisions of a sandbox are never both "loaded".
OneLoaded ==
    \A v, w \in 1..Len(rows) :
        rows[v].status = "loaded" /\ rows[w].status = "loaded" => v = w

\* A valid policy that becomes effective while the poll loop runs is enforced,
\* unless it is replaced or the supervisor goes down.
NewPolicyEnforced ==
    \A p \in Submitted :
        (/\ p.net \notin Invalid
         /\ pc = "loop" /\ tracked # None
         /\ Served.policy = p /\ tracked.policy # p)
            ~> (engine = p.net \/ Served.policy # p \/ pc = "down")

\* "The sandbox picks up the new policy on its next poll cycle (default 10
\* seconds) and hot-reloads the OPA engine" (architecture/policy-advisor.md:162):
\* an effective valid policy that stays effective is enforced in the end.
EffectivePolicyEnforced ==
    \A p \in Submitted :
        p.net \notin Invalid =>
            (<>[](Served.policy = p) => <>[](engine = p.net))
=============================================================================
