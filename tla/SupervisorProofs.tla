-------------------------- MODULE SupervisorProofs --------------------------
(***************************************************************************)
(* Theorems about the supervisor.  PolicySync, for any policies and any    *)
(* number of revisions: the engine always runs rules that passed           *)
(* validation, reports are truthful and at most one revision is loaded.    *)
(* SandboxBoot, for any number of refused packet rules: no process runs    *)
(* half confined, and nothing is left on the host.  LogStream, for any     *)
(* lines, calls and watchers: no line is missed.  InferenceRoutes, for     *)
(* any providers, routes files and connections: the two route caches are   *)
(* the bundle whose revision is recorded, and a request keeps its route.   *)
(***************************************************************************)
EXTENDS PolicySync, SandboxBoot, LogStream, InferenceRoutes, SelectingProofs

Statuses == {"pending", "loaded", "failed", "superseded"}
Rows == [policy : Policies, status : Statuses]

-----------------------------------------------------------------------------
(* The gateway's operators on the history. *)

\* Superseding keeps the length and the policies of a history, and the status
\* of every revision it does not supersede.
LEMMA SupersededRows ==
    ASSUME NEW rs \in Seq(Rows), NEW n \in Int
    PROVE  /\ Superseded(rs, n) \in Seq(Rows)
           /\ Len(Superseded(rs, n)) = Len(rs)
           /\ \A v \in 1..Len(rs) :
                 /\ Superseded(rs, n)[v].policy = rs[v].policy
                 /\ Superseded(rs, n)[v].status = "loaded"
                       <=> rs[v].status = "loaded" /\ v >= n
  <1> DEFINE f == Superseded(rs, n)
  <1>1. ASSUME NEW v \in 1..Len(rs)
        PROVE  /\ f[v] \in Rows
               /\ f[v].policy = rs[v].policy
               /\ f[v].status = "loaded" <=> rs[v].status = "loaded" /\ v >= n
    <2>1. rs[v] \in Rows
      OBVIOUS
    <2>2. f[v] = IF v < n /\ rs[v].status \in {"pending", "loaded"}
                 THEN [rs[v] EXCEPT !.status = "superseded"] ELSE rs[v]
      BY DEF Superseded
    <2> QED
      BY <2>1, <2>2 DEF Rows, Statuses
  <1>2. f \in Seq(Rows) /\ Len(f) = Len(rs)
    <2>1. f = [v \in 1..Len(rs) |-> f[v]] /\ DOMAIN f = 1..Len(rs)
      BY DEF Superseded
    <2> HIDE DEF f
    <2> QED
      BY <1>1, <2>1
  <1> QED
    BY <1>1, <1>2

\* An accepted update appends one pending revision, or changes no revision;
\* after an append no revision is loaded.
LEMMA UpdateRows ==
    ASSUME rows \in Seq(Rows), NEW p \in Policies, Update(p)
    PROVE  \/ rows' = rows
           \/ /\ rows' \in Seq(Rows)
              /\ Len(rows') = Len(rows) + 1
              /\ \A v \in 1..Len(rows) : rows'[v].policy = rows[v].policy
              /\ \A v \in 1..Len(rows') : rows'[v].status # "loaded"
  <1> DEFINE f == Superseded(rows, Len(rows) + 1)
             r == [policy |-> p, status |-> "pending"]
  <1>1. r \in Rows /\ r.status # "loaded"
    BY DEF Rows, Statuses
  <1>2. /\ f \in Seq(Rows) /\ Len(f) = Len(rows)
        /\ \A v \in 1..Len(rows) : /\ f[v].policy = rows[v].policy
                                   /\ f[v].status # "loaded"
    BY SupersededRows
  <1>3. rows' = rows \/ rows' = Append(f, r)
    BY DEF Update
  <1> HIDE DEF f, r
  <1>4. CASE rows' = Append(f, r)
    <2>1. rows' \in Seq(Rows) /\ Len(rows') = Len(rows) + 1
      BY <1>1, <1>2, <1>4
    <2>2. ASSUME NEW v \in 1..Len(rows')
          PROVE  /\ v \in 1..Len(rows) => rows'[v] = f[v]
                 /\ v \notin 1..Len(rows) => rows'[v] = r
      BY <1>1, <1>2, <1>4, <2>1
    <2> QED
      BY <1>1, <1>2, <2>1, <2>2
  <1> QED
    BY <1>3, <1>4

\* The backfill makes a first revision, loaded, out of the specification.
LEMMA BackfilledRows ==
    ASSUME rows \in Seq(Rows), spec \in Policies \cup {None}
    PROVE  /\ Backfilled \in Seq(Rows)
           /\ \/ Backfilled = rows
              \/ rows = <<>> /\ Len(Backfilled) = 1
  <1>1. CASE rows = <<>> /\ spec # None
    <2> DEFINE r == [policy |-> spec, status |-> "loaded"]
    <2>1. r \in Rows
      BY <1>1 DEF Rows, Statuses
    <2>2. Backfilled = <<r>>
      BY <1>1 DEF Backfilled
    <2> HIDE DEF r
    <2> QED
      BY <1>1, <2>1, <2>2
  <1>2. CASE ~(rows = <<>> /\ spec # None)
    BY <1>2 DEF Backfilled
  <1> QED
    BY <1>1, <1>2

\* A report changes no policy, and no status but that of its revision and of
\* older ones; when it says "loaded", no older revision stays loaded.
LEMMA ReportedRows ==
    ASSUME rows \in Seq(Rows), NEW n \in 1..Len(rows), NEW s \in {"loaded", "failed"}
    PROVE  /\ Reported(n, s) \in Seq(Rows)
           /\ Len(Reported(n, s)) = Len(rows)
           /\ \A v \in 1..Len(rows) :
                 /\ Reported(n, s)[v].policy = rows[v].policy
                 /\ Reported(n, s)[v].status = "loaded"
                       <=> \/ v = n /\ s = "loaded"
                           \/ v # n /\ rows[v].status = "loaded" /\ (v > n \/ s # "loaded")
  <1> DEFINE rs == [rows EXCEPT ![n].status = s]
  <1>1. rs \in Seq(Rows) /\ Len(rs) = Len(rows)
    <2>0. rows[n] \in Rows
      OBVIOUS
    <2>1. [rows[n] EXCEPT !.status = s] \in Rows
      BY <2>0 DEF Rows, Statuses
    <2>2. rs = [rows EXCEPT ![n] = [rows[n] EXCEPT !.status = s]]
      OBVIOUS
    <2> QED
      BY <2>1, <2>2, ExceptSeq
  <1>2. ASSUME NEW v \in 1..Len(rows)
        PROVE  /\ rs[v].policy = rows[v].policy
               /\ rs[v].status = IF v = n THEN s ELSE rows[v].status
    <2>1. rows[v] \in Rows /\ rs[v] = IF v = n THEN [rows[n] EXCEPT !.status = s] ELSE rows[v]
      OBVIOUS
    <2> QED
      BY <2>1 DEF Rows
  <1>3. Reported(n, s) = IF s = "loaded" THEN Superseded(rs, n) ELSE rs
    BY DEF Reported
  <1> HIDE DEF rs
  <1>4. CASE s = "loaded"
    <2>0. n \in Int /\ rs \in Seq(Rows)
      BY <1>1
    <2>1. /\ Superseded(rs, n) \in Seq(Rows)
          /\ Len(Superseded(rs, n)) = Len(rs)
          /\ \A v \in 1..Len(rs) :
                /\ Superseded(rs, n)[v].policy = rs[v].policy
                /\ Superseded(rs, n)[v].status = "loaded"
                      <=> rs[v].status = "loaded" /\ v >= n
      BY <2>0, SupersededRows
    <2> QED
      BY <1>1, <1>2, <1>3, <1>4, <2>1
  <1>5. CASE s # "loaded"
    BY <1>1, <1>2, <1>3, <1>5
  <1> QED
    BY <1>4, <1>5

\* What a poll is served is a configuration; its policy, when the sandbox's
\* own and there is one, is that of the newest revision.
LEMMA ServedConfig ==
    ASSUME TypeOK
    PROVE  /\ Served \in Config
           /\ Revision(Served) \in Tracked
           /\ Served.policy \in Policies \cup {None}
           /\ Served.ocsf \in BOOLEAN
           /\ Served.source = "sandbox" /\ Served.version > 0 =>
                 /\ Served.version = Len(Backfilled)
                 /\ Served.policy = Backfilled[Len(Backfilled)].policy
  <1> USE PoliciesAssumption
  <1>1. Backfilled \in Seq(Rows)
    BY BackfilledRows DEF TypeOK, Rows, Statuses
  <1>2. Backfilled # <<>> => Len(Backfilled) > 0 /\ Backfilled[Len(Backfilled)] \in Rows
    BY <1>1
  <1>3. Backfilled # <<>> => Backfilled[Len(Backfilled)].policy \in Policies
    BY <1>2 DEF Rows
  <1>4. Served.policy \in Policies \cup {None}
    BY <1>3 DEF Served, TypeOK
  <1>5. Served.version \in Nat /\ Served.source \in {"sandbox", "global"} /\ Served.ocsf \in BOOLEAN
    BY <1>1 DEF Served, TypeOK
  <1>6. Served.source = "sandbox" /\ Served.version > 0 =>
           /\ Served.version = Len(Backfilled)
           /\ Served.policy = Backfilled[Len(Backfilled)].policy
    BY <1>1, <1>2 DEF Served
  <1>7. Served \in Config
    <2>1. Served = [policy |-> Served.policy, version |-> Served.version,
                    source |-> Served.source, ocsf |-> Served.ocsf]
      BY DEF Served
    <2> QED
      BY <1>4, <1>5, <2>1 DEF Config
  <1> QED
    BY <1>4, <1>5, <1>6, <1>7 DEF Revision, Tracked

-----------------------------------------------------------------------------
(* Types, and what the supervisor's place says about its variables. *)

\* A policy is there to enrich and to load.
FetchedKnown == pc \in {"enrich", "load"} => fetched # None

\* While a report is under way, the revision it names has the policy that was
\* polled, the engine has its rules when they are valid, and no newer revision
\* is loaded.
ReportKnown ==
    pc = "report" =>
        /\ polled \in Config /\ polled.version \in 1..Len(rows)
        /\ polled.policy = rows[polled.version].policy
        /\ polled.policy.net \notin Invalid => engine = polled.policy.net
        /\ \A v \in 1..Len(rows) : rows[v].status = "loaded" => v <= polled.version

Inv == TypeOK /\ FetchedKnown /\ LastKnownGood /\ OneLoaded /\ ReportKnown

\* The types of what only the supervisor keeps.
SupervisorTypes ==
    /\ ocsf \in BOOLEAN
    /\ pc \in {"down", "fetch", "sync", "enrich", "load", "init", "loop", "report",
              "unpolled"}
    /\ fetched \in Policies \cup {None}
    /\ engine \in Nets \cup {None}
    /\ tracked \in Tracked \cup {None}
    /\ polled \in Config \cup {None}

\* What a history may become in one step, as far as the invariants go: it grows,
\* its policies stay, and what is loaded was loaded before or is the only
\* revision.
Grows ==
    /\ rows' \in Seq(Rows)
    /\ Len(rows) <= Len(rows')
    /\ \A v \in 1..Len(rows) : rows'[v].policy = rows[v].policy
    /\ \/ Len(rows') = 1 /\ rows = <<>>
       \/ \A v \in 1..Len(rows') : rows'[v].status = "loaded" =>
             v \in 1..Len(rows) /\ rows[v].status = "loaded"

\* An update makes the history grow and the other gateway variables keep types.
LEMMA UpdateGrows ==
    ASSUME TypeOK, NEW p \in Policies, Update(p)
    PROVE  Grows /\ spec' \in Policies \cup {None} /\ UNCHANGED <<current, global, setting>>
  <1>1. rows \in Seq(Rows)
    BY DEF TypeOK, Rows, Statuses
  <1>2. Grows
    BY <1>1, UpdateRows DEF Grows
  <1> QED
    BY <1>2 DEF Update, TypeOK

\* So does the backfill, and leaving the history alone.
LEMMA BackfillGrows ==
    ASSUME TypeOK, rows' = Backfilled \/ rows' = rows
    PROVE  Grows
  <1>1. rows \in Seq(Rows)
    BY DEF TypeOK, Rows, Statuses
  <1>2. CASE rows' = rows
    BY <1>1, <1>2 DEF Grows
  <1>3. CASE rows' = Backfilled /\ rows' # rows
    <2>1. rows' \in Seq(Rows) /\ rows = <<>> /\ Len(rows') = 1
      BY <1>1, <1>3, BackfilledRows DEF TypeOK
    <2>2. Len(rows) = 0
      BY <2>1
    <2> QED
      BY <2>1, <2>2 DEF Grows
  <1> QED
    BY <1>2, <1>3

\* A step in which the history grows, no report begins, and the version being
\* reported and the engine under it stay, keeps what concerns the history.
LEMMA GrowsKeeps ==
    ASSUME Inv, Grows, UNCHANGED current,
           polled' = polled \/ polled' = None,
           pc' = "report" => pc = "report" /\ UNCHANGED <<polled, engine>>
    PROVE  /\ current' \in 0..Len(rows')
           /\ polled' # None => polled'.version \in 1..Len(rows')
           /\ OneLoaded' /\ ReportKnown'
  <1>1. /\ rows \in Seq(Rows) /\ Len(rows) \in Nat /\ Len(rows') \in Nat
        /\ current \in 0..Len(rows)
        /\ polled # None => polled.version \in 1..Len(rows)
    BY DEF Inv, TypeOK, Rows, Statuses, Grows
  <1>2. current' \in 0..Len(rows') /\ (polled' # None => polled'.version \in 1..Len(rows'))
    BY <1>1 DEF Grows
  <1>3. OneLoaded'
    <2>1. CASE Len(rows') = 1
      BY <2>1 DEF OneLoaded
    <2>2. CASE \A v \in 1..Len(rows') : rows'[v].status = "loaded" =>
                  v \in 1..Len(rows) /\ rows[v].status = "loaded"
      BY <2>2 DEF Inv, OneLoaded
    <2> QED
      BY <2>1, <2>2 DEF Grows
  <1>4. ReportKnown'
    <2> SUFFICES ASSUME pc' = "report" PROVE ReportKnown'
      BY DEF ReportKnown
    <2>1. /\ polled \in Config /\ polled' = polled /\ engine' = engine
          /\ polled.version \in 1..Len(rows)
      BY <1>1 DEF Inv, ReportKnown
    <2>2. rows # <<>>
      BY <1>1, <2>1
    <2>3. rows'[polled.version].policy = rows[polled.version].policy
      BY <2>1 DEF Grows
    <2>4. \A v \in 1..Len(rows') : rows'[v].status = "loaded" => v <= polled.version
      BY <2>1, <2>2 DEF Grows, Inv, ReportKnown
    <2>5. polled.version \in 1..Len(rows')
      BY <1>1, <2>1 DEF Grows
    <2> QED
      BY <2>1, <2>3, <2>4, <2>5 DEF Inv, ReportKnown
  <1> QED
    BY <1>2, <1>3, <1>4

\* An enriched policy is a policy.
LEMMA EnrichedType == ASSUME NEW p \in Policies PROVE Enriched(p) \in Policies
  BY DEF Enriched, Policies

\* Exit keeps the supervisor's types, and nothing is reported or enforced.
LEMMA ExitKeeps ==
    ASSUME Inv, Exit
    PROVE  SupervisorTypes' /\ FetchedKnown' /\ LastKnownGood' /\ polled' = None /\ pc' # "report"
  BY NetsAssumption DEF Exit, SupervisorTypes, FetchedKnown, LastKnownGood

\* TypeOK is the types of the gateway's variables with those of the supervisor's.
LEMMA TypeParts ==
    TypeOK <=> /\ SupervisorTypes
               /\ rows \in Seq(Rows) /\ current \in 0..Len(rows)
               /\ spec \in Policies \cup {None} /\ global \in Policies \cup {None}
               /\ setting \in BOOLEAN
               /\ polled # None => polled.version \in 1..Len(rows)
  BY DEF TypeOK, SupervisorTypes, Rows, Statuses

\* The initial state satisfies the invariant.
LEMMA InitInv == Init => Inv
  <1> SUFFICES ASSUME Init PROVE Inv
    OBVIOUS
  <1> USE NetsAssumption, PoliciesAssumption
  <1>1. rows = <<>> /\ Len(rows) = 0
    BY DEF Init
  <1>2. TypeOK
    <2>1. rows \in Seq(Rows) /\ current \in 0..Len(rows) /\ (polled # None => polled.version \in 1..Len(rows))
      BY <1>1 DEF Init
    <2>2. SupervisorTypes
      BY DEF Init, SupervisorTypes
    <2> QED
      BY <2>1, <2>2, TypeParts DEF Init
  <1> QED
    BY <1>1, <1>2 DEF Init, Inv, FetchedKnown, LastKnownGood, OneLoaded, ReportKnown

\* Every step keeps the invariant: all but the poll that begins a report and
\* the report itself only let the history grow.
LEMMA NextInv == Inv /\ [Next]_vars => Inv'
  <1> SUFFICES ASSUME Inv, [Next]_vars PROVE Inv'
    OBVIOUS
  <1> USE NetsAssumption, PoliciesAssumption
  <1>t. TypeOK /\ SupervisorTypes /\ rows \in Seq(Rows)
    BY TypeParts DEF Inv
  <1>g. ASSUME Grows, UNCHANGED current, polled' = polled \/ polled' = None,
               pc' = "report" => pc = "report" /\ UNCHANGED <<polled, engine>>,
               SupervisorTypes', FetchedKnown', LastKnownGood',
               spec' \in Policies \cup {None}, global' \in Policies \cup {None},
               setting' \in BOOLEAN
        PROVE  Inv'
    <2>1. /\ current' \in 0..Len(rows')
          /\ polled' # None => polled'.version \in 1..Len(rows')
          /\ OneLoaded' /\ ReportKnown'
      BY <1>g, GrowsKeeps
    <2>2. TypeOK'
      <3>1. rows' \in Seq(Rows)
        BY <1>g DEF Grows
      <3> QED
        BY <1>g, <2>1, <3>1 DEF TypeOK, SupervisorTypes, Rows, Statuses
    <2> QED
      BY <1>g, <2>1, <2>2 DEF Inv
  <1>s. ASSUME UNCHANGED supervisorVars
        PROVE  SupervisorTypes' /\ FetchedKnown' /\ LastKnownGood'
    BY <1>s, <1>t DEF supervisorVars, SupervisorTypes, Inv, FetchedKnown, LastKnownGood
  <1>1. CASE UserUpdate
    <2>1. PICK p \in Submitted : Update(p)
      BY <1>1 DEF UserUpdate
    <2>2. p \in Policies /\ UNCHANGED supervisorVars
      BY <1>1, <2>1 DEF UserUpdate
    <2>3. Grows /\ spec' \in Policies \cup {None} /\ UNCHANGED <<current, global, setting>>
      BY <1>t, <2>1, <2>2, UpdateGrows
    <2> QED
      BY <1>g, <1>s, <1>t, <2>2, <2>3 DEF TypeOK, supervisorVars
  <1>2. CASE SetGlobalPolicy \/ DeleteGlobalPolicy \/ SetSetting \/ UNCHANGED vars
    <2>1. UNCHANGED <<rows, spec, current>> /\ UNCHANGED supervisorVars
      BY <1>2 DEF SetGlobalPolicy, DeleteGlobalPolicy, SetSetting, vars, gatewayVars, supervisorVars
    <2>2. global' \in Policies \cup {None} /\ setting' \in BOOLEAN
      BY <1>2, <1>t DEF SetGlobalPolicy, DeleteGlobalPolicy, SetSetting, vars, gatewayVars, TypeOK
    <2>3. Grows
      BY <1>t, <2>1, BackfillGrows
    <2> QED
      BY <1>g, <1>s, <1>t, <2>1, <2>2, <2>3 DEF TypeOK, supervisorVars
  <1>3. CASE Start
    <2>1. Grows
      BY <1>3, <1>t, BackfillGrows DEF Start, gatewayVars
    <2>2. SupervisorTypes' /\ FetchedKnown' /\ LastKnownGood'
      BY <1>3, <1>t DEF Start, SupervisorTypes, FetchedKnown, LastKnownGood, Inv
    <2> QED
      BY <1>3, <1>g, <1>t, <2>1, <2>2 DEF Start, gatewayVars, TypeOK
  <1>4. CASE FetchPolicy
    <2>1. Grows
      BY <1>4, <1>t, BackfillGrows DEF FetchPolicy
    <2>2. SupervisorTypes' /\ FetchedKnown' /\ LastKnownGood'
      BY <1>4, <1>t, ServedConfig DEF FetchPolicy, SupervisorTypes, FetchedKnown, LastKnownGood, Inv
    <2> QED
      BY <1>4, <1>g, <1>t, <2>1, <2>2 DEF FetchPolicy, TypeOK
  <1>5. CASE SyncDiscovered
    <2>1. CASE Update(Enriched(Discovered)) /\ pc' = "fetch" /\ UNCHANGED <<fetched, engine, tracked, polled, ocsf>>
      <3>1. Enriched(Discovered) \in Policies
        BY EnrichedType
      <3>2. Grows /\ spec' \in Policies \cup {None} /\ UNCHANGED <<current, global, setting>>
        BY <1>t, <2>1, <3>1, UpdateGrows
      <3>3. SupervisorTypes' /\ FetchedKnown' /\ LastKnownGood'
        BY <1>5, <1>t, <2>1 DEF SupervisorTypes, FetchedKnown, LastKnownGood, Inv
      <3> QED
        BY <1>g, <1>t, <2>1, <3>2, <3>3 DEF TypeOK
    <2>2. CASE Exit /\ UNCHANGED gatewayVars
      <3>1. Grows
        BY <1>t, <2>2, BackfillGrows DEF gatewayVars
      <3> QED
        BY <1>g, <1>t, <2>2, <3>1, ExitKeeps DEF gatewayVars, TypeOK
    <2> QED
      BY <1>5, <2>1, <2>2 DEF SyncDiscovered
  <1>6. CASE EnrichPolicy
    <2> DEFINE p == Enriched(fetched)
    <2>1. p \in Policies
      BY <1>6, <1>t, EnrichedType DEF EnrichPolicy, Inv, FetchedKnown, SupervisorTypes
    <2> HIDE DEF p
    <2>2. pc' = "load" /\ fetched' = p /\ UNCHANGED <<engine, tracked, polled, ocsf>>
      BY <1>6 DEF EnrichPolicy, p
    <2>3. SupervisorTypes' /\ FetchedKnown' /\ LastKnownGood'
      BY <1>t, <2>1, <2>2 DEF SupervisorTypes, FetchedKnown, LastKnownGood, Inv
    <2>4. CASE Update(p)
      BY <1>g, <1>t, <2>1, <2>2, <2>3, <2>4, UpdateGrows DEF TypeOK
    <2>5. CASE UNCHANGED gatewayVars
      <3>1. Grows
        BY <1>t, <2>5, BackfillGrows DEF gatewayVars
      <3> QED
        BY <1>g, <1>t, <2>2, <2>3, <2>5, <3>1 DEF gatewayVars, TypeOK
    <2> QED
      BY <1>6, <2>4, <2>5 DEF EnrichPolicy, p
  <1>7. CASE LoadEngine
    <2>1. Grows
      BY <1>7, <1>t, BackfillGrows DEF LoadEngine, gatewayVars
    <2>2. fetched \in Policies /\ fetched.net \in Nets
      BY <1>7, <1>t DEF LoadEngine, SupervisorTypes, Inv, FetchedKnown, Policies
    <2>3. CASE Exit
      BY <1>7, <1>g, <1>t, <2>1, <2>3, ExitKeeps DEF LoadEngine, gatewayVars, TypeOK
    <2>4. CASE /\ fetched.net \notin Invalid /\ engine' = fetched.net /\ pc' = "init"
               /\ UNCHANGED <<fetched, tracked, polled, ocsf>>
      <3>1. SupervisorTypes' /\ FetchedKnown' /\ LastKnownGood'
        BY <1>t, <2>2, <2>4 DEF SupervisorTypes, FetchedKnown, LastKnownGood
      <3> QED
        BY <1>7, <1>g, <1>t, <2>1, <2>4, <3>1 DEF LoadEngine, gatewayVars, TypeOK
    <2> QED
      BY <1>7, <2>3, <2>4 DEF LoadEngine
  <1>8. CASE InitialPoll \/ PollLoopFails
    <2>1. Grows
      BY <1>8, <1>t, BackfillGrows DEF InitialPoll, PollLoopFails, gatewayVars
    <2>2. SupervisorTypes' /\ FetchedKnown' /\ LastKnownGood'
      BY <1>8, <1>t, ServedConfig
      DEF InitialPoll, PollLoopFails, SupervisorTypes, FetchedKnown, LastKnownGood, Inv
    <2> QED
      BY <1>8, <1>g, <1>t, <2>1, <2>2 DEF InitialPoll, PollLoopFails, gatewayVars, TypeOK
  <1>9. CASE PollNoPayload \/ PollSettings
    <2>1. Grows
      BY <1>9, <1>t, BackfillGrows DEF PollNoPayload, PollSettings, gatewayVars
    <2>2. SupervisorTypes' /\ FetchedKnown' /\ LastKnownGood'
      BY <1>9, <1>t, ServedConfig
      DEF PollNoPayload, PollSettings, SupervisorTypes, FetchedKnown, LastKnownGood, Inv
    <2> QED
      BY <1>9, <1>g, <1>t, <2>1, <2>2 DEF PollNoPayload, PollSettings, gatewayVars, TypeOK
  <1>10. CASE PollAndReload
    <2>1. Grows
      BY <1>10, <1>t, BackfillGrows DEF PollAndReload
    <2>2. Served.policy \in Policies /\ Served.policy.net \in Nets
      BY <1>10, <1>t, ServedConfig DEF PollAndReload, Policies
    <2>3. /\ engine' \in Nets /\ engine' \notin Invalid
          /\ Served.policy.net \notin Invalid => engine' = Served.policy.net
      BY <1>10, <1>t, <2>2 DEF PollAndReload, Inv, LastKnownGood, SupervisorTypes
    <2>4. UNCHANGED <<spec, current, global, setting, fetched>> /\ rows' = Backfilled /\ pc = "loop"
      BY <1>10 DEF PollAndReload
    <2>5. CASE tracked' = Revision(Served) /\ ocsf' = Served.ocsf /\ UNCHANGED <<pc, polled>>
      <3>1. SupervisorTypes' /\ FetchedKnown' /\ LastKnownGood'
        BY <1>t, <2>3, <2>4, <2>5, ServedConfig DEF SupervisorTypes, FetchedKnown, LastKnownGood
      <3> QED
        BY <1>g, <1>t, <2>1, <2>4, <2>5, <3>1 DEF TypeOK
    <2>6. CASE /\ Served.version > 0 /\ Served.source = "sandbox" /\ polled' = Served
               /\ pc' = "report" /\ UNCHANGED <<tracked, ocsf>>
      <3>1. SupervisorTypes' /\ FetchedKnown' /\ LastKnownGood'
        BY <1>t, <2>3, <2>4, <2>6, ServedConfig DEF SupervisorTypes, FetchedKnown, LastKnownGood
      <3>2. /\ polled'.version = Len(rows') /\ Len(rows') > 0
            /\ polled'.policy = rows'[Len(rows')].policy
        BY <1>t, <2>4, <2>6, ServedConfig
      <3>3. rows' \in Seq(Rows) /\ Len(rows') \in Nat /\ Len(rows) <= Len(rows')
        BY <2>1 DEF Grows
      <3>4. OneLoaded'
        <4>1. CASE Len(rows') = 1
          BY <4>1 DEF OneLoaded
        <4>2. CASE \A v \in 1..Len(rows') : rows'[v].status = "loaded" =>
                      v \in 1..Len(rows) /\ rows[v].status = "loaded"
          BY <4>2 DEF Inv, OneLoaded
        <4> QED
          BY <2>1, <4>1, <4>2 DEF Grows
      <3>5. polled' \in Config
        BY <1>t, <2>6, ServedConfig
      <3>6. ReportKnown'
        BY <2>2, <2>3, <2>6, <3>2, <3>3, <3>5 DEF ReportKnown
      <3>7. TypeOK'
        <4>1. current' \in 0..Len(rows')
          BY <1>t, <2>4, <3>3 DEF TypeOK
        <4> QED
          BY <1>t, <2>4, <3>1, <3>2, <3>3, <4>1 DEF TypeOK, SupervisorTypes, Rows, Statuses
      <3> QED
        BY <3>1, <3>4, <3>6, <3>7 DEF Inv
    <2> QED
      BY <1>10, <2>5, <2>6 DEF PollAndReload
  <1>11. CASE Report
    <2> DEFINE s == IF polled.policy.net \in Invalid THEN "failed" ELSE "loaded"
    <2>1. /\ polled \in Config /\ polled.version \in 1..Len(rows) /\ pc = "report"
          /\ \A v \in 1..Len(rows) : rows[v].status = "loaded" => v <= polled.version
      BY <1>11, <1>t DEF Report, Inv, ReportKnown, TypeOK
    <2>2. /\ tracked' \in Tracked /\ ocsf' \in BOOLEAN /\ polled' = None /\ pc' = "loop"
          /\ UNCHANGED <<spec, global, setting, fetched, engine>>
      BY <1>11, <2>1 DEF Report, Config, Tracked, Revision
    <2>3. SupervisorTypes' /\ FetchedKnown' /\ LastKnownGood' /\ ReportKnown'
      BY <1>t, <2>1, <2>2 DEF SupervisorTypes, FetchedKnown, LastKnownGood, ReportKnown, Inv
    <2>4. CASE UNCHANGED <<rows, current>>
      <3>1. Grows
        BY <1>t, <2>4, BackfillGrows
      <3> QED
        BY <1>g, <1>t, <2>2, <2>3, <2>4, <3>1 DEF TypeOK
    <2>5. CASE /\ rows' = Reported(polled.version, s)
               /\ current' = IF s = "loaded" THEN polled.version ELSE current
      <3>1. s \in {"loaded", "failed"}
        OBVIOUS
      <3> HIDE DEF s
      <3>2. /\ rows' \in Seq(Rows) /\ Len(rows') = Len(rows)
            /\ \A v \in 1..Len(rows) :
                  rows'[v].status = "loaded"
                     <=> \/ v = polled.version /\ s = "loaded"
                         \/ v # polled.version /\ rows[v].status = "loaded"
                               /\ (v > polled.version \/ s # "loaded")
        BY <1>t, <2>1, <2>5, <3>1, ReportedRows
      <3>3. OneLoaded'
        BY <2>1, <3>2 DEF OneLoaded, Inv
      <3>4. current' \in 0..Len(rows')
        BY <1>t, <2>1, <2>5, <3>2 DEF TypeOK
      <3>5. TypeOK'
        BY <1>t, <2>2, <2>3, <3>2, <3>4 DEF TypeOK, SupervisorTypes, Rows, Statuses
      <3> QED
        BY <2>3, <3>3, <3>5 DEF Inv
    <2> QED
      BY <1>11, <2>4, <2>5 DEF Report
  <1>12. CASE Crash
    <2>1. Grows
      BY <1>12, <1>t, BackfillGrows DEF Crash, gatewayVars
    <2> QED
      BY <1>12, <1>g, <1>t, <2>1, ExitKeeps DEF Crash, gatewayVars, TypeOK
  <1> QED
    BY <1>1, <1>2, <1>3, <1>4, <1>5, <1>6, <1>7, <1>8, <1>9, <1>10, <1>11, <1>12
    DEF Next, User, Supervisor, Poll

-----------------------------------------------------------------------------
(* The theorems. *)

\* The inductive invariant holds in every reachable state.
LEMMA InvHolds == Spec => []Inv
  <1>1. Init => Inv
    BY InitInv
  <1>2. Inv /\ [Next]_vars => Inv'
    BY NextInv
  <1> QED
    BY <1>1, <1>2, PTL DEF Spec

\* load_policy, run_policy_poll_loop and the gateway's handlers keep their
\* types, and a report names a revision that exists.
THEOREM TypeCorrect == Spec => []TypeOK
  <1>1. Inv => TypeOK
    BY DEF Inv
  <1> QED
    BY <1>1, InvHolds, PTL

\* reload_from_proto keeps the last good engine: no history of submissions,
\* polls, failed RPCs and restarts leaves a running supervisor without rules or
\* with rules that did not pass validation.
THEOREM KeepsLastGood == Spec => []LastKnownGood
  <1>1. Inv => LastKnownGood
    BY DEF Inv
  <1> QED
    BY <1>1, InvHolds, PTL

\* ReportPolicyStatus and the supersede it does leave at most one revision
\* loaded, also when reports are late or lost.
THEOREM AtMostOneLoaded == Spec => []OneLoaded
  <1>1. Inv => OneLoaded
    BY DEF Inv
  <1> QED
    BY <1>1, InvHolds, PTL

\* A step that marks an existing revision loaded is a report, made while the
\* engine enforces the rules of that revision.
LEMMA TruthfulStep ==
    ASSUME Inv, [Next]_vars, NEW v \in 1..Len(rows),
           rows'[v].status = "loaded", rows[v].status # "loaded"
    PROVE  engine = rows[v].policy.net
  <1> USE NetsAssumption, PoliciesAssumption
  <1>1. TypeOK /\ rows \in Seq(Rows)
    BY TypeParts DEF Inv
  <1>2. rows # <<>> /\ Backfilled = rows
    BY <1>1 DEF Backfilled
  <1>3. ~Grows
    BY <1>1, <1>2 DEF Grows
  <1>4. rows' # rows
    OBVIOUS
  <1>5. \A p \in Policies : ~Update(p)
    BY <1>1, <1>3, UpdateGrows
  <1>6. Report
    <2>1. CASE UserUpdate
      BY <1>5, <2>1 DEF UserUpdate
    <2>2. CASE SyncDiscovered
      BY <1>4, <1>5, <2>2, EnrichedType DEF SyncDiscovered, gatewayVars
    <2>3. CASE EnrichPolicy
      BY <1>1, <1>4, <1>5, <2>3, EnrichedType
      DEF EnrichPolicy, gatewayVars, Inv, FetchedKnown, TypeOK
    <2> QED
      BY <1>2, <1>4, <2>1, <2>2, <2>3
      DEF Next, User, Supervisor, Poll, SetGlobalPolicy, DeleteGlobalPolicy, SetSetting, Start,
          FetchPolicy, LoadEngine, InitialPoll, PollLoopFails, PollAndReload, PollNoPayload,
          PollSettings, Crash, vars, gatewayVars
  <1> DEFINE s == IF polled.policy.net \in Invalid THEN "failed" ELSE "loaded"
  <1>7. /\ polled.version \in 1..Len(rows)
        /\ polled.policy = rows[polled.version].policy
        /\ polled.policy.net \notin Invalid => engine = polled.policy.net
    BY <1>6 DEF Report, Inv, ReportKnown
  <1>8. rows' = Reported(polled.version, s)
    BY <1>4, <1>6 DEF Report
  <1>9. s \in {"loaded", "failed"} /\ (s = "loaded" => polled.policy.net \notin Invalid)
    OBVIOUS
  <1> HIDE DEF s
  <1>10. v = polled.version /\ s = "loaded"
    BY <1>1, <1>7, <1>8, <1>9, ReportedRows
  <1> QED
    BY <1>7, <1>9, <1>10

\* The supervisor's reports are truthful: the gateway's record says a revision
\* is loaded only when the engine enforces exactly its rules.
THEOREM TruthfulReports == Spec => ReportsAreTruthful
  <1> DEFINE A == \A v \in 1..Len(rows) :
                     rows'[v].status = "loaded" /\ rows[v].status # "loaded"
                        => engine = rows[v].policy.net
  <1>1. Inv /\ [Next]_vars => [A]_vars
    BY TruthfulStep
  <1> QED
    BY <1>1, InvHolds, PTL DEF Spec, ReportsAreTruthful


-----------------------------------------------------------------------------
(* SandboxBoot: the chain of packet rules.                                 *)

RuleRecs ==
    [match : {"proxy", "lo", "response", "tcp", "udp"}, do : {"ACCEPT", "LOG", "REJECT"}, must : BOOLEAN]
TailRules ==
    {Rule("tcp", "LOG", FALSE), Rule("tcp", "REJECT", TRUE), Rule("udp", "LOG", FALSE), Rule("udp", "REJECT", TRUE)}

\* A chain begins with the n rules that accept, and only then rejects.
Begins(c, rules, n) ==
    \A i \in 1..Len(c) : (i <= n => c[i] = rules[i]) /\ (n < i => c[i] \in TailRules)
Placed(c, a, n) == (a <= n => Len(c) = a) /\ (n < a => Len(c) >= n)
HasReject(c, packet) == \E i \in 1..Len(c) : c[i] = Rule(packet, "REJECT", TRUE)

LEMMA RulesAre ==
    /\ BypassRules \in Seq(RuleRecs) /\ Len(BypassRules) = 7
    /\ BypassRules[1] = Rule("proxy", "ACCEPT", TRUE) /\ BypassRules[2] = Rule("lo", "ACCEPT", TRUE)
    /\ BypassRules[3] = Rule("response", "ACCEPT", TRUE) /\ BypassRules[4] = Rule("tcp", "LOG", FALSE)
    /\ BypassRules[5] = Rule("tcp", "REJECT", TRUE) /\ BypassRules[6] = Rule("udp", "LOG", FALSE)
    /\ BypassRules[7] = Rule("udp", "REJECT", TRUE)
    /\ TailRules \subseteq RuleRecs
  <1> DEFINE r1 == Rule("proxy", "ACCEPT", TRUE)
             r2 == Rule("lo", "ACCEPT", TRUE)
             r3 == Rule("response", "ACCEPT", TRUE)
             r4 == Rule("tcp", "LOG", FALSE)
             r5 == Rule("tcp", "REJECT", TRUE)
             r6 == Rule("udp", "LOG", FALSE)
             r7 == Rule("udp", "REJECT", TRUE)
             q == <<r1, r2, r3, r4, r5, r6, r7>>
  <1>1. r1 \in RuleRecs /\ r2 \in RuleRecs /\ r3 \in RuleRecs
    BY DEF Rule, RuleRecs
  <1>2. r4 \in RuleRecs /\ r5 \in RuleRecs /\ r6 \in RuleRecs /\ r7 \in RuleRecs
    BY DEF Rule, RuleRecs
  <1>3. TailRules \subseteq RuleRecs
    BY <1>2 DEF TailRules
  <1>4. BypassRules = q
    BY DEF BypassRules
  <1> HIDE DEF r1, r2, r3, r4, r5, r6, r7
  <1>5. /\ q \in Seq(RuleRecs) /\ Len(q) = 7 /\ q[1] = r1 /\ q[2] = r2 /\ q[3] = r3 /\ q[4] = r4
        /\ q[5] = r5 /\ q[6] = r6 /\ q[7] = r7
    BY <1>1, <1>2
  <1> HIDE DEF q
  <1> QED BY <1>3, <1>4, <1>5 DEF r1, r2, r3, r4, r5, r6, r7

LEMMA RulesV6Are ==
    /\ BypassRulesV6 \in Seq(RuleRecs) /\ Len(BypassRulesV6) = 6
    /\ \A i \in 1..6 : BypassRulesV6[i] = BypassRules[i + 1]
  <1> DEFINE b == BypassRules
  <1>1. b \in Seq(RuleRecs) /\ Len(b) = 7
    BY RulesAre
  <1> HIDE DEF b
  <1>2. ASSUME NEW i \in 2..7 PROVE b[i] \in RuleRecs
    <2>1. i \in 1..Len(b)
      BY <1>1
    <2> QED BY <1>1, <2>1
  <1>3. /\ SubSeq(b, 2, 7) \in Seq(RuleRecs) /\ Len(SubSeq(b, 2, 7)) = 6
        /\ \A i \in 1..6 : SubSeq(b, 2, 7)[i] = b[2 + i - 1]
    <2>1. 2 \in Int /\ 7 \in Int /\ 2 <= 7 /\ 7 - 2 + 1 = 6
      OBVIOUS
    <2>2. /\ SubSeq(b, 2, 7) \in Seq(RuleRecs)
          /\ Len(SubSeq(b, 2, 7)) = IF 2 <= 7 THEN 7 - 2 + 1 ELSE 0
          /\ \A i \in 1..(7 - 2 + 1) : SubSeq(b, 2, 7)[i] = b[2 + i - 1]
      BY <1>2, <2>1, SubSeqProperties
    <2> QED BY <2>1, <2>2
  <1>4. \A i \in 1..6 : 2 + i - 1 = i + 1
    OBVIOUS
  <1> QED BY <1>1, <1>3, <1>4 DEF BypassRulesV6, b

\* One more rule, applied or refused.
LEMMA ChainGrows ==
    ASSUME NEW c \in Seq(RuleRecs), NEW rules \in Seq(RuleRecs), NEW n \in Nat, NEW a \in Nat,
           n < Len(rules), a < Len(rules),
           \A i \in 1..n : rules[i].must, \A i \in 1..Len(rules) : n < i => rules[i] \in TailRules,
           Begins(c, rules, n), Placed(c, a, n),
           NEW ok \in BOOLEAN, NEW d, ok => d = Append(c, rules[a + 1]), ~ok => d = c
    PROVE  /\ d \in Seq(RuleRecs) /\ Begins(d, rules, n)
           /\ (ok \/ ~rules[a + 1].must => Placed(d, a + 1, n))
           /\ Len(d) >= Len(c) /\ \A i \in 1..Len(c) : d[i] = c[i]
           /\ (ok => Len(d) = Len(c) + 1 /\ d[Len(c) + 1] = rules[a + 1])
  <1>1. Len(c) \in Nat /\ Len(rules) \in Nat /\ a + 1 \in 1..Len(rules) /\ rules[a + 1] \in RuleRecs
    OBVIOUS
  <1>2. CASE ~ok
    <2>1. d = c
      BY <1>2
    <2>2. ~rules[a + 1].must => Placed(c, a + 1, n)
      <3> SUFFICES ASSUME ~rules[a + 1].must PROVE Placed(c, a + 1, n)
        OBVIOUS
      <3>1. ~(a + 1 <= n)
        <4>1. a + 1 <= n => a + 1 \in 1..n
          OBVIOUS
        <4> QED BY <4>1
      <3>2. n <= a
        BY <3>1
      <3> QED BY <1>1, <3>2 DEF Placed
    <2> QED BY <1>1, <1>2, <2>1, <2>2
  <1>3. CASE ok
    <2>1. d = Append(c, rules[a + 1])
      BY <1>3
    <2>2. /\ d \in Seq(RuleRecs) /\ Len(d) = Len(c) + 1 /\ d[Len(c) + 1] = rules[a + 1]
          /\ \A i \in 1..Len(c) : d[i] = c[i]
      BY <1>1, <2>1
    <2>3. Placed(d, a + 1, n)
      BY <1>1, <2>2 DEF Placed
    <2>4. ASSUME NEW i \in 1..Len(d)
          PROVE  (i <= n => d[i] = rules[i]) /\ (n < i => d[i] \in TailRules)
      <3>1. CASE i \in 1..Len(c)
        BY <2>2, <3>1 DEF Begins
      <3>2. CASE i = Len(c) + 1
        <4>1. d[i] = rules[a + 1]
          BY <2>2, <3>2
        <4>2. i <= n => i = a + 1
          BY <1>1, <3>2 DEF Placed
        <4>3. n < i => n < a + 1
          BY <1>1, <3>2 DEF Placed
        <4> QED BY <1>1, <4>1, <4>2, <4>3
      <3> QED BY <1>1, <2>2, <3>1, <3>2
    <2>5. Begins(d, rules, n)
      BY <2>4 DEF Begins
    <2> QED BY <1>1, <1>3, <2>2, <2>3, <2>5
  <1> QED BY <1>2, <1>3

\* What the first rules accept is accepted, however far the chain got.
LEMMA AcceptsEarly ==
    ASSUME NEW c \in Seq(RuleRecs), NEW rules, NEW n \in Nat, Begins(c, rules, n),
           NEW k \in 1..n, NEW packet, rules[k].match = packet, \A i \in 1..n : rules[i].do = "ACCEPT"
    PROVE  Verdict(c, packet) = "ACCEPT"
  <1> SUFFICES ASSUME NEW i \in 1..Len(c), c[i].do = "REJECT", Undecided(c, i, packet)
               PROVE  FALSE
    BY DEF Verdict
  <1>1. n < i
    <2>1. i <= n => i \in 1..n /\ c[i] = rules[i]
      BY DEF Begins
    <2> QED BY <2>1
  <1>2. k \in 1..(i - 1) /\ k \in 1..Len(c) /\ k <= n
    BY <1>1
  <1>3. c[k] = rules[k]
    BY <1>2 DEF Begins
  <1>4. Matches(c[k], packet) /\ c[k].do # "LOG"
    BY <1>3 DEF Matches
  <1> QED BY <1>2, <1>4 DEF Undecided

\* A complete chain rejects every other connection.
LEMMA RejectsOthers ==
    ASSUME NEW c \in Seq(RuleRecs), Begins(c, BypassRules, 3), NEW packet \in {"tcp", "udp"},
           HasReject(c, packet)
    PROVE  Verdict(c, packet) = "REJECT"
  <1> DEFINE T == {i \in 1..Len(c) : Matches(c[i], packet) /\ c[i].do # "LOG"}
  <1>1. T \subseteq Nat /\ T # {}
    <2>1. PICK i \in 1..Len(c) : c[i] = Rule(packet, "REJECT", TRUE)
      BY DEF HasReject
    <2>2. Matches(c[i], packet) /\ c[i].do # "LOG"
      BY <2>1 DEF Rule, Matches
    <2> QED BY <2>2
  <1>2. PICK m \in T : \A y \in T : m <= y
    BY <1>1, LeastExists
  <1>3. m \in 1..Len(c) /\ Matches(c[m], packet) /\ c[m].do # "LOG" /\ Len(c) \in Nat
    OBVIOUS
  <1>4. Undecided(c, m, packet)
    <2> SUFFICES ASSUME NEW j \in 1..(m - 1), Matches(c[j], packet) /\ c[j].do # "LOG"
                 PROVE  FALSE
      BY DEF Undecided
    <2>1. j \in 1..Len(c) /\ ~(m <= j)
      BY <1>3
    <2> QED BY <1>2, <2>1
  <1> HIDE DEF T
  <1>5. 3 < m
    <2> SUFFICES ASSUME m <= 3 PROVE FALSE
      BY <1>3
    <2>1. c[m] = BypassRules[m] /\ m \in {1, 2, 3}
      BY <1>3 DEF Begins
    <2>2. c[m].match \in {"proxy", "lo", "response"}
      BY <2>1, RulesAre DEF Rule
    <2> QED BY <1>3, <2>2 DEF Matches
  <1>6. c[m].do = "REJECT"
    <2>1. c[m] \in TailRules
      BY <1>3, <1>5 DEF Begins
    <2> QED BY <1>3, <2>1 DEF TailRules, Rule
  <1> QED BY <1>3, <1>4, <1>6 DEF Verdict

-----------------------------------------------------------------------------
(* SandboxBoot: the set-up and the processes.                              *)

Early == {"load", "user", "env", "files", "ca"}
Bare == Early \cup {"netns", "fd"}
BootPcs ==
    Bare \cup {"rules", "rules6", "proxy", "monitor", "ssh", "sshwait", "spawn", "spawning", "publish", "wait",
               "drop", "exited"}
SupRecs ==
    [pc : BootPcs, user : Users \cup {""}, group : BOOLEAN, compat : {"best_effort", "hard_requirement"},
     netns : BOOLEAN, proxy : BOOLEAN, monitor : BOOLEAN, sshd : {"off", "starting", "ready", "failed"},
     managed : BOOLEAN, pid : BOOLEAN, code : {"none", "status", "124", "error"}]
NetRecs ==
    [done : 0..9, ns : BOOLEAN, veth : BOOLEAN, fd : BOOLEAN, opened : BOOLEAN, v4 : Seq(RuleRecs),
     v6 : Seq(RuleRecs), at : 0..7, complete : BOOLEAN, refused : Nat, stuck : BOOLEAN]
ProcRecs ==
    [pc : {"none", "forked", "running", "zombie", "reaped", "failed"}, ns : BOOLEAN,
     uid : Users \cup {"root"}, files : {"none", "some", "all"}, calls : BOOLEAN]

BootTypes ==
    /\ sup \in SupRecs /\ users \subseteq Users /\ net \in NetRecs /\ proc \in [Procs -> ProcRecs]
    /\ kmsg \in Seq({"tcp", "udp"}) /\ Len(kmsg) <= MaxPending

\* What has been started at each position of run_sandbox.
SupTrue(s) ==
    /\ s.pc \in Bare => ~s.netns /\ ~s.proxy /\ s.sshd = "off"
    /\ s.pc \in {"rules", "rules6", "proxy"} => s.netns /\ ~s.proxy /\ s.sshd = "off"
    /\ s.pc \in {"monitor", "ssh", "sshwait", "spawn", "spawning", "publish", "wait"} => s.netns /\ s.proxy
    /\ s.sshd # "off" => s.proxy
    /\ s.pc = "exited" => ~s.netns /\ ~s.proxy /\ s.sshd = "off"

\* What exists on the host; a clean-up that was not refused leaves nothing.
NetTrue(s, n) ==
    /\ s.pc \in Early => n.done = 0
    /\ n.done = 0 => ~n.ns
    /\ n.done < 2 => ~n.veth
    /\ s.pc \in Bare => ~n.opened
    /\ s.pc # "exited" => (n.opened => n.fd)
    /\ s.pc \in {"drop", "exited"} /\ ~s.netns /\ ~n.stuck => ~n.ns /\ ~n.veth

ChainTrue(s, n) ==
    /\ Begins(n.v4, BypassRules, 3) /\ Begins(n.v6, BypassRulesV6, 2)
    /\ s.pc \in Bare => n.v4 = <<>> /\ n.v6 = <<>> /\ n.at = 0
    /\ s.pc = "rules" => n.at < 7 /\ Placed(n.v4, n.at, 3) /\ n.v6 = <<>>
    /\ s.pc = "rules6" => n.at < 6 /\ Placed(n.v6, n.at, 2)
    /\ s.pc = "rules" /\ n.at >= 5 => HasReject(n.v4, "tcp")
    /\ n.complete => HasReject(n.v4, "tcp") /\ HasReject(n.v4, "udp")

\* A process is forked behind a proxy that is up, and runs confined.
ProcTrue(s, n, q) ==
    /\ q.pc # "none" => s.proxy
    /\ q.pc = "running" =>
          /\ (s.user = "" => ~s.group) => q.uid # "root"
          /\ q.calls
          /\ s.compat = "hard_requirement" => q.files = "all"
          /\ n.opened => q.ns

BootInv ==
    /\ BootTypes /\ SupTrue(sup) /\ NetTrue(sup, net) /\ ChainTrue(sup, net)
    /\ \A p \in Procs : ProcTrue(sup, net, proc[p])

\* A step of run_sandbox or of the SSH server alone.
LEMMA SupStep ==
    ASSUME BootInv, NEW s \in SupRecs, sup' = s, UNCHANGED <<users, net, proc, kmsg>>,
           sup.proxy => s.proxy /\ s.user = sup.user /\ s.group = sup.group /\ s.compat = sup.compat,
           SupTrue(s), NetTrue(s, net), ChainTrue(s, net)
    PROVE  BootInv'
  <1>1. \A p \in Procs : ProcTrue(s, net, proc[p])
    BY DEF BootInv, ProcTrue
  <1>2. BootTypes'
    BY DEF BootInv, BootTypes
  <1>3. SupTrue(sup') /\ NetTrue(sup', net') /\ ChainTrue(sup', net')
    OBVIOUS
  <1>4. \A p \in Procs : ProcTrue(sup', net', proc'[p])
    BY <1>1
  <1> QED BY <1>2, <1>3, <1>4 DEF BootInv

\* The step gives up, or goes on to a position that has no more of its own.
LEMMA SupAborts ==
    ASSUME BootInv, Abort, UNCHANGED <<users, net, proc, kmsg>>, sup.pc \notin {"drop", "exited", "netns", "fd"}
    PROVE  BootInv'
  <1>1. sup \in SupRecs /\ SupTrue(sup) /\ NetTrue(sup, net) /\ ChainTrue(sup, net)
    BY DEF BootInv, BootTypes
  <1>2. sup' = [sup EXCEPT !.pc = "drop", !.code = "error"]
    BY DEF Abort
  <1>3. /\ sup' \in SupRecs /\ sup'.pc = "drop" /\ sup'.netns = sup.netns /\ sup'.proxy = sup.proxy
        /\ sup'.sshd = sup.sshd /\ sup'.user = sup.user /\ sup'.group = sup.group /\ sup'.compat = sup.compat
    BY <1>1, <1>2 DEF SupRecs, BootPcs
  <1>4. SupTrue(sup')
    BY <1>1, <1>3 DEF SupTrue, Bare, Early
  <1>5. sup.pc \in BootPcs /\ (sup.pc \in Early \/ sup.netns)
    BY <1>1 DEF SupRecs, SupTrue, BootPcs, Bare
  <1>6. NetTrue(sup', net)
    <2>1. net \in NetRecs
      BY DEF BootInv, BootTypes
    <2>2. sup.pc \in Early => ~net.ns /\ ~net.veth
      BY <1>1 DEF NetTrue
    <2> QED BY <1>1, <1>3, <1>5, <2>2 DEF NetTrue, Bare, Early
  <1>7. ChainTrue(sup', net)
    BY <1>1, <1>3 DEF ChainTrue, Bare, Early
  <1> QED BY <1>3, <1>4, <1>6, <1>7, SupStep

LEMMA SupProceeds ==
    ASSUME BootInv, NEW to, sup' = [sup EXCEPT !.pc = to], UNCHANGED <<users, net, proc, kmsg>>,
           \/ sup.pc \in Early /\ to \in Early
           \/ sup.pc = "ca" /\ to = "netns"
           \/ sup.pc = "rules" /\ to = "proxy"
           \/ sup.pc \in {"ssh", "sshwait"} /\ to = "spawn"
    PROVE  BootInv'
  <1>1. sup \in SupRecs /\ SupTrue(sup) /\ NetTrue(sup, net) /\ ChainTrue(sup, net)
    BY DEF BootInv, BootTypes
  <1>2. to \in BootPcs
    BY DEF BootPcs, Bare, Early
  <1>3. /\ sup' \in SupRecs /\ sup'.pc = to /\ sup'.netns = sup.netns /\ sup'.proxy = sup.proxy
        /\ sup'.sshd = sup.sshd /\ sup'.user = sup.user /\ sup'.group = sup.group /\ sup'.compat = sup.compat
    BY <1>1, <1>2 DEF SupRecs
  <1>4. SupTrue(sup')
    BY <1>1, <1>3 DEF SupTrue, Bare, Early
  <1>5. NetTrue(sup', net)
    BY <1>1, <1>3 DEF NetTrue, Bare, Early
  <1>6. ChainTrue(sup', net)
    BY <1>1, <1>3 DEF ChainTrue, Bare, Early
  <1> QED BY <1>3, <1>4, <1>5, <1>6, SupStep

\* The steps of run_sandbox and of the SSH server that touch nothing else.
SetupActions ==
    \/ \E u \in {"", "sandbox", "other"}, g \in BOOLEAN, c \in {"best_effort", "hard_requirement"} : LoadPolicy(u, g, c)
    \/ LoadPolicyFails \/ ValidateUser \/ FetchProviderEnv \/ GenerateCa \/ SkipRules \/ SshReady \/ SshTimeout
    \/ \E rw \in {"dir", "missing", "link"}, ok \in BOOLEAN : PrepareFilesystem(rw, ok)
    \/ \E ok \in BOOLEAN : StartProxy(ok) \/ StartMonitor(ok) \/ SshdBinds(ok)
    \/ \E a, b \in BOOLEAN : StartSsh(a, b)
    \/ EntrySpawned \/ EntryFailed \/ PublishPid

LEMMA SetupKeeps ==
    ASSUME BootInv, SetupActions
    PROVE  BootInv'
  <1>1. sup \in SupRecs /\ SupTrue(sup) /\ NetTrue(sup, net) /\ ChainTrue(sup, net)
    BY DEF BootInv, BootTypes
  <1>2. ASSUME NEW u \in {"", "sandbox", "other"}, NEW g \in BOOLEAN, NEW c \in {"best_effort", "hard_requirement"},
               LoadPolicy(u, g, c)
        PROVE  BootInv'
    <2>1. /\ sup.pc = "load" /\ UNCHANGED <<users, net, proc, kmsg>>
          /\ sup' = [sup EXCEPT !.pc = "user", !.user = u, !.group = g, !.compat = c]
      BY <1>2 DEF LoadPolicy
    <2>2. u \in Users \cup {""}
      BY DEF Users
    <2>3. /\ sup' \in SupRecs /\ sup'.pc = "user" /\ sup'.netns = sup.netns /\ sup'.proxy = sup.proxy
          /\ sup'.sshd = sup.sshd
      BY <1>1, <2>1, <2>2 DEF SupRecs, BootPcs, Bare, Early
    <2>4. SupTrue(sup') /\ ~sup.proxy
      BY <1>1, <2>1, <2>3 DEF SupTrue, Bare, Early
    <2>5. NetTrue(sup', net) /\ ChainTrue(sup', net)
      BY <1>1, <2>1, <2>3 DEF NetTrue, ChainTrue, Bare, Early
    <2> QED BY <2>1, <2>3, <2>4, <2>5, SupStep
  <1>3. CASE LoadPolicyFails
    BY <1>3, SupAborts DEF LoadPolicyFails
  <1>4. CASE ValidateUser
    BY <1>4, SupAborts, SupProceeds DEF ValidateUser, Proceed, Early
  <1>5. CASE FetchProviderEnv
    BY <1>5, SupProceeds DEF FetchProviderEnv, Proceed, Early
  <1>6. CASE GenerateCa
    BY <1>6, SupProceeds DEF GenerateCa, Proceed
  <1>7. CASE SkipRules
    BY <1>7, SupProceeds DEF SkipRules, Proceed
  <1>8. CASE SshReady
    BY <1>8, SupAborts, SupProceeds DEF SshReady, Proceed
  <1>9. CASE SshTimeout
    BY <1>9, SupAborts DEF SshTimeout
  <1>10. ASSUME NEW rw, NEW ok, PrepareFilesystem(rw, ok)
         PROVE  BootInv'
    BY <1>10, SupAborts, SupProceeds DEF PrepareFilesystem, Proceed, Early
  <1>11. ASSUME NEW ok \in BOOLEAN, StartProxy(ok)
         PROVE  BootInv'
    <2>1. CASE ~ok
      BY <1>11, <2>1, SupAborts DEF StartProxy
    <2>2. CASE ok
      <3>1. /\ sup.pc = "proxy" /\ UNCHANGED <<users, net, proc, kmsg>>
            /\ sup' = [sup EXCEPT !.pc = "monitor", !.proxy = TRUE]
        BY <1>11, <2>2 DEF StartProxy
      <3>2. /\ sup' \in SupRecs /\ sup'.pc = "monitor" /\ sup'.netns = sup.netns /\ sup'.proxy
            /\ sup'.sshd = sup.sshd
        BY <1>1, <3>1 DEF SupRecs, BootPcs, Bare, Early
      <3>3. SupTrue(sup') /\ ~sup.proxy
        BY <1>1, <3>1, <3>2 DEF SupTrue, Bare, Early
      <3>4. NetTrue(sup', net) /\ ChainTrue(sup', net)
        BY <1>1, <3>1, <3>2 DEF NetTrue, ChainTrue, Bare, Early
      <3> QED BY <3>1, <3>2, <3>3, <3>4, SupStep
    <2> QED BY <2>1, <2>2
  <1>12. ASSUME sup' \in SupRecs, sup'.netns = sup.netns, sup'.proxy = sup.proxy, sup'.user = sup.user,
                sup'.group = sup.group, sup'.compat = sup.compat, UNCHANGED <<users, net, proc, kmsg>>,
                sup'.sshd # sup.sshd => sup.proxy /\ sup.pc # "exited",
                \/ sup'.pc = sup.pc
                \/ /\ sup.pc \in {"monitor", "ssh", "sshwait", "spawn", "spawning", "publish", "wait"}
                   /\ sup'.pc \in {"monitor", "ssh", "sshwait", "spawn", "spawning", "publish", "wait"}
         PROVE  BootInv'
    <2>1. SupTrue(sup')
      BY <1>1, <1>12 DEF SupTrue, Bare, Early
    <2>2. NetTrue(sup', net)
      BY <1>1, <1>12 DEF NetTrue, Bare, Early
    <2>3. ChainTrue(sup', net)
      BY <1>1, <1>12 DEF ChainTrue, Bare, Early
    <2> QED BY <1>12, <2>1, <2>2, <2>3, SupStep
  <1>13. ASSUME NEW ok \in BOOLEAN, StartMonitor(ok)
         PROVE  BootInv'
    <2>1. sup.pc = "monitor" /\ UNCHANGED <<users, net, proc, kmsg>> /\ sup' = [sup EXCEPT !.pc = "ssh", !.monitor = ok]
      BY <1>13 DEF StartMonitor
    <2>2. /\ sup' \in SupRecs /\ sup'.netns = sup.netns /\ sup'.proxy = sup.proxy /\ sup'.user = sup.user
          /\ sup'.group = sup.group /\ sup'.compat = sup.compat
          /\ sup'.pc = "ssh" /\ sup'.sshd = sup.sshd
      BY <1>1, <2>1 DEF SupRecs, BootPcs
    <2> QED BY <1>12, <2>1, <2>2
  <1>14. ASSUME NEW ok \in BOOLEAN, SshdBinds(ok)
         PROVE  BootInv'
    <2>1. sup.pc # "exited" /\ sup.sshd = "starting" /\ UNCHANGED <<users, net, proc, kmsg>> /\ sup' = [sup EXCEPT !.sshd = IF ok THEN "ready" ELSE "failed"]
      BY <1>14 DEF SshdBinds
    <2>2. /\ sup' \in SupRecs /\ sup'.netns = sup.netns /\ sup'.proxy = sup.proxy /\ sup'.user = sup.user
          /\ sup'.group = sup.group /\ sup'.compat = sup.compat
          /\ sup'.pc = sup.pc /\ sup'.sshd \in {"ready", "failed"}
      BY <1>1, <2>1 DEF SupRecs, BootPcs
    <2>3. sup.proxy
      BY <1>1, <2>1 DEF SupTrue
    <2> QED BY <1>12, <2>1, <2>2, <2>3
  <1>15. ASSUME NEW a \in BOOLEAN, NEW b \in BOOLEAN, StartSsh(a, b)
         PROVE  BootInv'
    <2>1. CASE ~a
      BY <1>15, <2>1, SupProceeds DEF StartSsh, Proceed
    <2>2. CASE a /\ ~b
      BY <1>15, <2>2, SupAborts DEF StartSsh
    <2>3. CASE a /\ b
      <3>1. /\ sup.pc = "ssh" /\ UNCHANGED <<users, net, proc, kmsg>>
            /\ sup' = [sup EXCEPT !.pc = "sshwait", !.sshd = "starting"]
        BY <1>15, <2>3 DEF StartSsh
      <3>2. /\ sup' \in SupRecs /\ sup'.netns = sup.netns /\ sup'.proxy = sup.proxy /\ sup'.user = sup.user
            /\ sup'.group = sup.group /\ sup'.compat = sup.compat
            /\ sup'.pc = "sshwait" /\ sup'.sshd = "starting"
        BY <1>1, <3>1 DEF SupRecs, BootPcs
      <3>3. sup.proxy
        BY <1>1, <3>1 DEF SupTrue
      <3> QED BY <1>12, <3>1, <3>2, <3>3
    <2> QED BY <2>1, <2>2, <2>3
  <1>16. CASE EntrySpawned
    <2>1. sup.pc = "spawning" /\ UNCHANGED <<users, net, proc, kmsg>> /\ sup' = [sup EXCEPT !.pc = "publish", !.managed = TRUE]
      BY <1>16 DEF EntrySpawned
    <2>2. /\ sup' \in SupRecs /\ sup'.netns = sup.netns /\ sup'.proxy = sup.proxy /\ sup'.user = sup.user
          /\ sup'.group = sup.group /\ sup'.compat = sup.compat
          /\ sup'.pc = "publish" /\ sup'.sshd = sup.sshd
      BY <1>1, <2>1 DEF SupRecs, BootPcs
    <2> QED BY <1>12, <2>1, <2>2
  <1>17. CASE EntryFailed
    BY <1>17, SupAborts DEF EntryFailed
  <1>18. CASE PublishPid
    <2>1. sup.pc = "publish" /\ UNCHANGED <<users, net, proc, kmsg>> /\ sup' = [sup EXCEPT !.pc = "wait", !.pid = TRUE]
      BY <1>18 DEF PublishPid
    <2>2. /\ sup' \in SupRecs /\ sup'.netns = sup.netns /\ sup'.proxy = sup.proxy /\ sup'.user = sup.user
          /\ sup'.group = sup.group /\ sup'.compat = sup.compat
          /\ sup'.pc = "wait" /\ sup'.sshd = sup.sshd
      BY <1>1, <2>1 DEF SupRecs, BootPcs
    <2> QED BY <1>12, <2>1, <2>2
  <1> QED
    BY <1>2, <1>3, <1>4, <1>5, <1>6, <1>7, <1>8, <1>9, <1>10, <1>11, <1>13, <1>14, <1>15, <1>16, <1>17, <1>18
       DEF SetupActions

\* A step while no process can have been started.
LEMMA BareStep ==
    ASSUME BootInv, ~sup.proxy, NEW s \in SupRecs, NEW n \in NetRecs, sup' = s, net' = n,
           UNCHANGED <<users, proc, kmsg>>, SupTrue(s), NetTrue(s, n), ChainTrue(s, n)
    PROVE  BootInv'
  <1>1. \A p \in Procs : proc[p].pc = "none"
    BY DEF BootInv, ProcTrue
  <1>2. \A p \in Procs : ProcTrue(s, n, proc[p])
    BY <1>1 DEF ProcTrue
  <1>3. BootTypes'
    BY DEF BootInv, BootTypes
  <1>4. SupTrue(sup') /\ NetTrue(sup', net') /\ ChainTrue(sup', net')
    OBVIOUS
  <1>5. \A p \in Procs : ProcTrue(sup', net', proc'[p])
    BY <1>2
  <1> QED BY <1>3, <1>4, <1>5 DEF BootInv

LEMMA CommandsAre ==
    /\ Len(NetCommands) = 9
    /\ \A k \in 1..9 : (NetCommands[k] = "netns add" => k = 1) /\ (NetCommands[k] = "link add" => k = 2)
  BY DEF NetCommands

\* Creating the namespace, command by command; what a failure leaves is deleted.
LEMMA NamespaceKeeps ==
    ASSUME BootInv, IpCommand \/ (\E a, b \in BOOLEAN : IpCommandFails(a, b)) \/ (\E ok \in BOOLEAN : OpenNsFd(ok))
    PROVE  BootInv'
  <1>1. /\ sup \in SupRecs /\ SupTrue(sup) /\ NetTrue(sup, net) /\ ChainTrue(sup, net) /\ net \in NetRecs
        /\ net.done \in 0..9 /\ net.ns \in BOOLEAN /\ net.veth \in BOOLEAN /\ net.stuck \in BOOLEAN
    BY DEF BootInv, BootTypes, NetRecs
  <1>2. sup.pc \in {"netns", "fd"} /\ ~sup.proxy
    BY <1>1 DEF IpCommand, IpCommandFails, OpenNsFd, SupTrue, Bare
  <1>3. CASE IpCommand
    <2> DEFINE k == net.done + 1
               a == net.ns \/ NetCommands[k] = "netns add"
               b == net.veth \/ NetCommands[k] = "link add"
    <2>1. /\ sup.pc = "netns" /\ net.done < 9
          /\ net' = [net EXCEPT !.done = k, !.ns = a, !.veth = b]
          /\ sup' = sup \/ sup' = [sup EXCEPT !.pc = "fd"]
          /\ UNCHANGED <<users, proc, kmsg>>
      BY <1>3, CommandsAre DEF IpCommand, Proceed
    <2>2. k \in 1..9 /\ k \in 0..9 /\ a \in BOOLEAN /\ b \in BOOLEAN
      BY <1>1, <2>1
    <2>3. k < 2 => ~b
      <3> SUFFICES ASSUME k < 2 PROVE ~b
        OBVIOUS
      <3>1. ~net.veth
        BY <1>1, <2>2 DEF NetTrue
      <3> HIDE DEF k
      <3>2. NetCommands[k] # "link add"
        <4>1. NetCommands[k] = "link add" => k = 2
          BY <2>2, CommandsAre
        <4>2. k # 2
          BY <2>2
        <4> QED BY <4>1, <4>2
      <3> QED BY <3>1, <3>2, Zenon
    <2> HIDE DEF k, a, b
    <2>4. /\ net' \in NetRecs /\ net'.done = k /\ net'.ns = a /\ net'.veth = b /\ net'.opened = net.opened
          /\ net'.fd = net.fd /\ net'.v4 = net.v4 /\ net'.v6 = net.v6 /\ net'.at = net.at
          /\ net'.complete = net.complete /\ net'.stuck = net.stuck
      BY <1>1, <2>1, <2>2 DEF NetRecs
    <2>5. /\ sup' \in SupRecs /\ sup'.pc \in {"netns", "fd"} /\ sup'.netns = sup.netns
          /\ sup'.proxy = sup.proxy /\ sup'.sshd = sup.sshd
      BY <1>1, <2>1 DEF SupRecs, BootPcs, Bare, Early
    <2>6. SupTrue(sup')
      BY <1>1, <2>1, <2>5 DEF SupTrue, Bare, Early
    <2>7. NetTrue(sup', net')
      <3>1. k # 0
        BY <2>2
      <3> QED BY <1>1, <2>1, <2>3, <2>4, <2>5, <3>1 DEF NetTrue, Bare, Early
    <2>8. ChainTrue(sup', net')
      BY <1>1, <2>1, <2>4, <2>5 DEF ChainTrue, Bare, Early
    <2> QED BY <1>2, <2>1, <2>4, <2>5, <2>6, <2>7, <2>8, BareStep
  <1>4. ASSUME NEW oklink \in BOOLEAN, NEW okns \in BOOLEAN, IpCommandFails(oklink, okns)
        PROVE  BootInv'
    <2>1. /\ sup.pc = "netns" /\ UNCHANGED <<users, proc, kmsg>>
          /\ sup' = [sup EXCEPT !.pc = "drop", !.code = "error"]
      BY <1>4 DEF IpCommandFails, Abort
    <2>2. /\ sup' \in SupRecs /\ sup'.pc = "drop" /\ sup'.netns = sup.netns
          /\ sup'.proxy = sup.proxy /\ sup'.sshd = sup.sshd
      BY <1>1, <2>1 DEF SupRecs, BootPcs, Bare, Early
    <2>3. SupTrue(sup')
      BY <1>1, <2>1, <2>2 DEF SupTrue, Bare, Early
    <2>4. /\ net' \in NetRecs /\ net'.opened = net.opened /\ net'.done = net.done
          /\ net'.v4 = net.v4 /\ net'.v6 = net.v6 /\ net'.at = net.at
          /\ net'.complete = net.complete
          /\ (net'.ns => net.ns) /\ (net'.veth => net.veth) /\ (~net'.stuck => ~net'.ns /\ ~net'.veth)
      <3>1. CASE net.done = 0
        BY <1>1, <1>4, <3>1 DEF IpCommandFails, NetTrue
      <3>2. CASE net.done # 0
        <4> DEFINE links == net.done >= 2
                   v == net.veth /\ ~(links /\ oklink)
                   a == net.ns /\ ~okns
                   t == net.stuck \/ ~okns \/ (links /\ ~oklink)
        <4>1. net' = [net EXCEPT !.veth = v, !.ns = a, !.fd = FALSE, !.stuck = t]
          BY <1>4, <3>2 DEF IpCommandFails, DeleteNetwork
        <4>2. v \in BOOLEAN /\ a \in BOOLEAN /\ t \in BOOLEAN /\ (a => net.ns) /\ (v => net.veth) /\ (~t => ~a)
          OBVIOUS
        <4>3. ~t => ~v
          <5>1. ~links => ~net.veth
            BY <1>1 DEF NetTrue
          <5> QED BY <5>1
        <4> HIDE DEF v, a, t
        <4>4. /\ net' \in NetRecs /\ net'.ns = a /\ net'.veth = v /\ net'.stuck = t
              /\ net'.opened = net.opened /\ net'.done = net.done /\ net'.v4 = net.v4 /\ net'.v6 = net.v6
              /\ net'.at = net.at /\ net'.complete = net.complete
          BY <1>1, <4>1, <4>2 DEF NetRecs
        <4> QED BY <4>2, <4>3, <4>4
      <3> QED BY <3>1, <3>2
    <2>5. NetTrue(sup', net')
      BY <1>1, <2>1, <2>2, <2>4 DEF NetTrue, Bare, Early
    <2>6. ChainTrue(sup', net')
      BY <1>1, <2>1, <2>2, <2>4 DEF ChainTrue, Bare, Early
    <2> QED BY <1>2, <2>1, <2>2, <2>3, <2>4, <2>5, <2>6, BareStep
  <1>5. ASSUME NEW ok \in BOOLEAN, OpenNsFd(ok)
        PROVE  BootInv'
    <2>1. /\ sup.pc = "fd" /\ UNCHANGED <<users, proc, kmsg>>
          /\ net' = [net EXCEPT !.fd = ok, !.opened = ok]
          /\ sup' = [sup EXCEPT !.pc = "rules", !.netns = TRUE]
      BY <1>5 DEF OpenNsFd
    <2>2. /\ sup' \in SupRecs /\ sup'.pc = "rules" /\ sup'.netns
          /\ sup'.proxy = sup.proxy /\ sup'.sshd = sup.sshd
      BY <1>1, <2>1 DEF SupRecs, BootPcs, Bare, Early
    <2>3. /\ net' \in NetRecs /\ net'.opened = ok /\ net'.fd = ok /\ net'.done = net.done
          /\ net'.v4 = net.v4 /\ net'.v6 = net.v6 /\ net'.at = net.at /\ net'.ns = net.ns /\ net'.veth = net.veth
          /\ net'.complete = net.complete
      BY <1>1, <2>1 DEF NetRecs
    <2>4. SupTrue(sup')
      BY <1>1, <2>1, <2>2 DEF SupTrue, Bare, Early
    <2>5. NetTrue(sup', net')
      BY <1>1, <2>1, <2>2, <2>3 DEF NetTrue, Bare, Early
    <2>6. ChainTrue(sup', net')
      <3>1. net.at = 0 /\ net.v4 = <<>> /\ Placed(<<>>, 0, 3)
        BY <1>1, <2>1 DEF ChainTrue, Bare, Placed
      <3>2. 0 < 7 /\ ~(0 >= 5)
        OBVIOUS
      <3> QED BY <1>1, <2>1, <2>2, <2>3, <3>1, <3>2 DEF ChainTrue, Bare, Early
    <2> QED BY <1>2, <2>1, <2>2, <2>3, <2>4, <2>5, <2>6, BareStep
  <1> QED BY <1>3, <1>4, <1>5

LEMMA RulesFit ==
    /\ \A i \in 1..3 : BypassRules[i].must /\ BypassRules[i].do = "ACCEPT"
    /\ \A i \in 1..7 : 3 < i => BypassRules[i] \in TailRules
    /\ BypassRules[1].match = "proxy" /\ BypassRules[2].match = "lo" /\ BypassRules[3].match = "response"
    /\ \A i \in 1..2 : BypassRulesV6[i].must /\ BypassRulesV6[i].do = "ACCEPT"
    /\ \A i \in 1..6 : 2 < i => BypassRulesV6[i] \in TailRules
    /\ BypassRulesV6[1].match = "lo" /\ BypassRulesV6[2].match = "response"
  <1>1. \A i \in 1..3 : BypassRules[i].must /\ BypassRules[i].do = "ACCEPT"
    <2> SUFFICES ASSUME NEW i \in 1..3 PROVE BypassRules[i].must /\ BypassRules[i].do = "ACCEPT"
      OBVIOUS
    <2>1. i = 1 \/ i = 2 \/ i = 3
      OBVIOUS
    <2> QED BY <2>1, RulesAre DEF Rule
  <1>2. BypassRules[1].match = "proxy" /\ BypassRules[2].match = "lo" /\ BypassRules[3].match = "response"
    BY RulesAre DEF Rule
  <1>3. ASSUME NEW i \in 1..7, 3 < i PROVE BypassRules[i] \in TailRules
    <2>1. i = 4 \/ i = 5 \/ i = 6 \/ i = 7
      BY <1>3
    <2> QED BY <2>1, RulesAre DEF TailRules
  <1>4. \A i \in 1..2 : BypassRulesV6[i].must /\ BypassRulesV6[i].do = "ACCEPT"
    <2> SUFFICES ASSUME NEW i \in 1..2 PROVE BypassRulesV6[i].must /\ BypassRulesV6[i].do = "ACCEPT"
      OBVIOUS
    <2>1. i \in 1..6 /\ i + 1 \in 1..3
      OBVIOUS
    <2> QED BY <1>1, <2>1, RulesV6Are
  <1>5. ASSUME NEW i \in 1..6, 2 < i PROVE BypassRulesV6[i] \in TailRules
    <2>1. i + 1 \in 1..7 /\ 3 < i + 1
      BY <1>5
    <2> QED BY <1>3, <2>1, RulesV6Are
  <1>6. BypassRulesV6[1].match = "lo" /\ BypassRulesV6[2].match = "response"
    <2>1. BypassRulesV6[1] = BypassRules[2] /\ BypassRulesV6[2] = BypassRules[3]
      BY RulesV6Are
    <2> QED BY <1>2, <2>1
  <1> QED BY <1>1, <1>2, <1>3, <1>4, <1>5, <1>6

\* The rules one by one; whatever is refused, the chain keeps its order.
LEMMA RuleKeeps ==
    ASSUME BootInv, NEW ok \in BOOLEAN, NEW six \in BOOLEAN, InstallRule(ok, six)
    PROVE  BootInv'
  <1> DEFINE d == AppendRule(net.v4, BypassRules, ok)
             a == NextRule(BypassRules, ok)
             r == IF ok THEN net.refused ELSE net.refused + 1
             c == net.complete \/ (ok /\ net.at + 1 = Len(BypassRules))
  <1>1. /\ sup \in SupRecs /\ SupTrue(sup) /\ NetTrue(sup, net) /\ ChainTrue(sup, net) /\ net \in NetRecs
        /\ net.at \in 0..7 /\ net.v4 \in Seq(RuleRecs) /\ net.refused \in Nat /\ net.complete \in BOOLEAN
    BY DEF BootInv, BootTypes, NetRecs
  <1>2. /\ sup.pc = "rules" /\ UNCHANGED <<users, proc, kmsg>>
        /\ net' = [net EXCEPT !.v4 = d, !.at = a, !.refused = r, !.complete = c]
        /\ (net'.at # 0 => sup' = sup)
        /\ (net'.at = 0 => sup' = [sup EXCEPT !.pc = IF ok /\ six THEN "rules6" ELSE "proxy"])
    BY DEF InstallRule, Proceed
  <1>3. /\ ~sup.proxy /\ net.at < 7 /\ net.at \in Nat /\ Begins(net.v4, BypassRules, 3)
        /\ Placed(net.v4, net.at, 3) /\ net.v6 = <<>>
    BY <1>1, <1>2 DEF SupTrue, ChainTrue
  <1>4. Len(BypassRules) = 7 /\ BypassRules \in Seq(RuleRecs)
    BY RulesAre
  <1>5. /\ d \in Seq(RuleRecs) /\ Begins(d, BypassRules, 3)
        /\ (ok \/ ~BypassRules[net.at + 1].must => Placed(d, net.at + 1, 3))
        /\ Len(d) >= Len(net.v4) /\ \A i \in 1..Len(net.v4) : d[i] = net.v4[i]
        /\ (ok => Len(d) = Len(net.v4) + 1 /\ d[Len(net.v4) + 1] = BypassRules[net.at + 1])
    <2>1. d = IF ok THEN Append(net.v4, BypassRules[net.at + 1]) ELSE net.v4
      BY DEF AppendRule
    <2>2. 3 \in Nat /\ 3 < Len(BypassRules) /\ net.at < Len(BypassRules)
      BY <1>3, <1>4
    <2> HIDE DEF d
    <2>3. (\A i \in 1..3 : BypassRules[i].must) /\ \A i \in 1..Len(BypassRules) : 3 < i => BypassRules[i] \in TailRules
      BY <1>4, RulesFit
    <2> DEFINE v == net.v4
               k == net.at
               b == BypassRules
               n == 3
    <2>4. /\ v \in Seq(RuleRecs) /\ b \in Seq(RuleRecs) /\ k \in Nat /\ Begins(v, b, n) /\ Placed(v, k, n)
          /\ n \in Nat /\ n < Len(b) /\ k < Len(b)
      BY <1>1, <1>3, <1>4, <2>2
    <2>5. (\A i \in 1..n : b[i].must) /\ \A i \in 1..Len(b) : n < i => b[i] \in TailRules
      BY <2>3
    <2>6. (ok => d = Append(v, b[k + 1])) /\ (~ok => d = v)
      BY <2>1
    <2> HIDE DEF v, k, b, n
    <2>7. /\ d \in Seq(RuleRecs) /\ Begins(d, b, n)
          /\ (ok \/ ~b[k + 1].must => Placed(d, k + 1, n))
          /\ Len(d) >= Len(v) /\ \A i \in 1..Len(v) : d[i] = v[i]
          /\ (ok => Len(d) = Len(v) + 1 /\ d[Len(v) + 1] = b[k + 1])
      BY <2>4, <2>5, <2>6, ChainGrows
    <2> QED BY <2>7 DEF v, k, b, n
  <1> HIDE DEF d
  <1>6. \A t : HasReject(net.v4, t) => HasReject(d, t)
    <2> SUFFICES ASSUME NEW t, NEW i \in 1..Len(net.v4), net.v4[i] = Rule(t, "REJECT", TRUE)
                 PROVE  HasReject(d, t)
      BY DEF HasReject
    <2>1. Len(net.v4) \in Nat /\ Len(d) \in Nat /\ Len(d) >= Len(net.v4)
      BY <1>1, <1>5
    <2>2. i \in 1..Len(d)
      BY <2>1
    <2>3. d[i] = net.v4[i]
      BY <1>5
    <2> QED BY <2>2, <2>3 DEF HasReject
  <1>7. ok => \A t : BypassRules[net.at + 1] = Rule(t, "REJECT", TRUE) => HasReject(d, t)
    <2> SUFFICES ASSUME ok, NEW t, BypassRules[net.at + 1] = Rule(t, "REJECT", TRUE)
                 PROVE  HasReject(d, t)
      OBVIOUS
    <2>1. Len(net.v4) \in Nat /\ Len(d) = Len(net.v4) + 1
      BY <1>1, <1>5
    <2>2. Len(net.v4) + 1 \in 1..Len(d)
      BY <2>1
    <2>3. d[Len(net.v4) + 1] = BypassRules[net.at + 1]
      BY <1>5
    <2> QED BY <2>2, <2>3 DEF HasReject
  <1>8. /\ a \in 0..7 /\ a < 7 /\ r \in Nat /\ c \in BOOLEAN
        /\ (a # 0 => a = net.at + 1 /\ (ok \/ ~BypassRules[net.at + 1].must))
    <2>1. a = IF ok \/ ~BypassRules[net.at + 1].must THEN (net.at + 1) % 7 ELSE 0
      BY <1>4 DEF NextRule
    <2>2. net.at + 1 < 7 \/ net.at + 1 = 7
      BY <1>3
    <2>3. (net.at + 1 < 7 => (net.at + 1) % 7 = net.at + 1) /\ 7 % 7 = 0
      BY <1>3
    <2>4. ((net.at + 1) % 7 = net.at + 1 /\ net.at + 1 < 7) \/ (net.at + 1) % 7 = 0
      BY <2>2, <2>3
    <2>5. r \in Nat /\ c \in BOOLEAN
      BY <1>1
    <2>6. a = 0 \/ (a = net.at + 1 /\ net.at + 1 < 7 /\ (ok \/ ~BypassRules[net.at + 1].must))
      BY <2>1, <2>4
    <2> HIDE DEF a, r, c
    <2> QED BY <1>3, <2>5, <2>6
  <1>9. (c => net.complete \/ (ok /\ net.at = 6)) /\ (~c => ~net.complete)
    BY <1>1, <1>3, <1>4
  <1> HIDE DEF a, r, c
  <1>10. /\ net' \in NetRecs /\ net'.v4 = d /\ net'.at = a /\ net'.complete = c /\ net'.v6 = net.v6
         /\ net'.done = net.done /\ net'.ns = net.ns /\ net'.veth = net.veth /\ net'.fd = net.fd
         /\ net'.opened = net.opened /\ net'.stuck = net.stuck
    BY <1>1, <1>2, <1>5, <1>8 DEF NetRecs
  <1>11. /\ sup' \in SupRecs /\ sup'.netns = sup.netns /\ sup'.proxy = sup.proxy /\ sup'.sshd = sup.sshd
         /\ (a # 0 => sup'.pc = "rules") /\ (a = 0 => sup'.pc \in {"rules6", "proxy"})
    BY <1>1, <1>2, <1>10 DEF SupRecs, BootPcs
  <1>12. SupTrue(sup')
    BY <1>1, <1>2, <1>11 DEF SupTrue, Bare, Early
  <1>13. NetTrue(sup', net')
    BY <1>1, <1>2, <1>10, <1>11 DEF NetTrue, Bare, Early
  <1>14. a >= 5 => HasReject(d, "tcp")
    <2> SUFFICES ASSUME a >= 5 PROVE HasReject(d, "tcp")
      OBVIOUS
    <2>1. a = net.at + 1 /\ (ok \/ ~BypassRules[net.at + 1].must)
      BY <1>8
    <2>2. CASE net.at >= 5
      BY <1>1, <1>2, <1>6, <2>2 DEF ChainTrue
    <2>3. CASE ~(net.at >= 5)
      <3>1. net.at + 1 = 5
        BY <1>3, <2>1, <2>3
      <3>2. BypassRules[net.at + 1] = Rule("tcp", "REJECT", TRUE) /\ Rule("tcp", "REJECT", TRUE).must
        BY <3>1, RulesAre DEF Rule
      <3>3. ok
        BY <2>1, <3>2
      <3> QED BY <1>7, <3>2, <3>3
    <2> QED BY <2>2, <2>3
  <1>15. c => HasReject(d, "tcp") /\ HasReject(d, "udp")
    <2> SUFFICES ASSUME c PROVE HasReject(d, "tcp") /\ HasReject(d, "udp")
      OBVIOUS
    <2>1. CASE net.complete
      BY <1>1, <1>6, <2>1 DEF ChainTrue
    <2>2. CASE ok /\ net.at = 6
      <3>1. net.at >= 5 /\ net.at + 1 = 7
        BY <2>2
      <3>2. HasReject(net.v4, "tcp")
        BY <1>1, <1>2, <3>1 DEF ChainTrue
      <3>3. BypassRules[net.at + 1] = Rule("udp", "REJECT", TRUE)
        BY <3>1, RulesAre
      <3> QED BY <1>6, <1>7, <2>2, <3>2, <3>3
    <2> QED BY <1>9, <2>1, <2>2
  <1>16. ChainTrue(sup', net')
    <2>1. Begins(<<>>, BypassRulesV6, 2) /\ Placed(<<>>, 0, 2) /\ 0 < 6
      BY DEF Begins, Placed
    <2>2. sup'.pc \notin Bare
      BY <1>11 DEF Bare, Early
    <2>3. sup'.pc = "rules" => a < 7 /\ Placed(d, a, 3) /\ net.v6 = <<>>
      BY <1>3, <1>5, <1>8, <1>11
    <2>4. sup'.pc = "rules6" => a < 6 /\ Placed(net.v6, a, 2)
      BY <1>3, <1>11, <2>1
    <2> QED BY <1>3, <1>5, <1>10, <1>14, <1>15, <2>1, <2>2, <2>3, <2>4 DEF ChainTrue
  <1> QED BY <1>2, <1>3, <1>10, <1>11, <1>12, <1>13, <1>16, BareStep

LEMMA RuleV6Keeps ==
    ASSUME BootInv, NEW ok \in BOOLEAN, InstallRuleV6(ok)
    PROVE  BootInv'
  <1> DEFINE d == AppendRule(net.v6, BypassRulesV6, ok)
             a == NextRule(BypassRulesV6, ok)
             r == IF ok THEN net.refused ELSE net.refused + 1
  <1>1. /\ sup \in SupRecs /\ SupTrue(sup) /\ NetTrue(sup, net) /\ ChainTrue(sup, net) /\ net \in NetRecs
        /\ net.at \in 0..7 /\ net.v6 \in Seq(RuleRecs) /\ net.refused \in Nat
    BY DEF BootInv, BootTypes, NetRecs
  <1>2. /\ sup.pc = "rules6" /\ UNCHANGED <<users, proc, kmsg>>
        /\ net' = [net EXCEPT !.v6 = d, !.at = a, !.refused = r]
        /\ (net'.at # 0 => sup' = sup)
        /\ (net'.at = 0 => sup' = [sup EXCEPT !.pc = "proxy"])
    BY DEF InstallRuleV6, Proceed
  <1>3. /\ ~sup.proxy /\ net.at < 6 /\ net.at \in Nat /\ Begins(net.v6, BypassRulesV6, 2)
        /\ Placed(net.v6, net.at, 2)
    BY <1>1, <1>2 DEF SupTrue, ChainTrue
  <1>4. Len(BypassRulesV6) = 6 /\ BypassRulesV6 \in Seq(RuleRecs)
    BY RulesV6Are
  <1>5. /\ d \in Seq(RuleRecs) /\ Begins(d, BypassRulesV6, 2)
        /\ (ok \/ ~BypassRulesV6[net.at + 1].must => Placed(d, net.at + 1, 2))
    <2> DEFINE v == net.v6
               k == net.at
               b == BypassRulesV6
               n == 2
    <2>1. /\ v \in Seq(RuleRecs) /\ b \in Seq(RuleRecs) /\ k \in Nat /\ Begins(v, b, n) /\ Placed(v, k, n)
          /\ n \in Nat /\ n < Len(b) /\ k < Len(b)
      BY <1>1, <1>3, <1>4
    <2>2. (\A i \in 1..n : b[i].must) /\ \A i \in 1..Len(b) : n < i => b[i] \in TailRules
      BY <1>4, RulesFit
    <2>3. (ok => d = Append(v, b[k + 1])) /\ (~ok => d = v)
      BY DEF AppendRule
    <2> HIDE DEF d, v, k, b, n
    <2>4. /\ d \in Seq(RuleRecs) /\ Begins(d, b, n)
          /\ (ok \/ ~b[k + 1].must => Placed(d, k + 1, n))
      BY <2>1, <2>2, <2>3, ChainGrows
    <2> QED BY <2>4 DEF v, k, b, n
  <1> HIDE DEF d
  <1>6. /\ a \in 0..7 /\ a < 6 /\ r \in Nat
        /\ (a # 0 => a = net.at + 1 /\ (ok \/ ~BypassRulesV6[net.at + 1].must))
    <2>1. a = IF ok \/ ~BypassRulesV6[net.at + 1].must THEN (net.at + 1) % 6 ELSE 0
      BY <1>4 DEF NextRule
    <2>2. net.at + 1 < 6 \/ net.at + 1 = 6
      BY <1>3
    <2>3. (net.at + 1 < 6 => (net.at + 1) % 6 = net.at + 1) /\ 6 % 6 = 0
      BY <1>3
    <2>4. ((net.at + 1) % 6 = net.at + 1 /\ net.at + 1 < 6) \/ (net.at + 1) % 6 = 0
      BY <2>2, <2>3
    <2>5. r \in Nat
      BY <1>1
    <2>6. a = 0 \/ (a = net.at + 1 /\ net.at + 1 < 6 /\ (ok \/ ~BypassRulesV6[net.at + 1].must))
      BY <2>1, <2>4
    <2> HIDE DEF a, r
    <2> QED BY <1>3, <2>5, <2>6
  <1> HIDE DEF a, r
  <1>7. /\ net' \in NetRecs /\ net'.v6 = d /\ net'.at = a /\ net'.complete = net.complete /\ net'.v4 = net.v4
        /\ net'.done = net.done /\ net'.ns = net.ns /\ net'.veth = net.veth /\ net'.fd = net.fd
        /\ net'.opened = net.opened /\ net'.stuck = net.stuck
    BY <1>1, <1>2, <1>5, <1>6 DEF NetRecs
  <1>8. /\ sup' \in SupRecs /\ sup'.netns = sup.netns /\ sup'.proxy = sup.proxy /\ sup'.sshd = sup.sshd
        /\ (a # 0 => sup'.pc = "rules6") /\ (a = 0 => sup'.pc = "proxy")
    BY <1>1, <1>2, <1>7 DEF SupRecs, BootPcs
  <1>9. SupTrue(sup')
    BY <1>1, <1>2, <1>8 DEF SupTrue, Bare, Early
  <1>10. NetTrue(sup', net')
    BY <1>1, <1>2, <1>7, <1>8 DEF NetTrue, Bare, Early
  <1>11. ChainTrue(sup', net')
    <2>1. sup'.pc \notin Bare /\ sup'.pc # "rules"
      BY <1>8 DEF Bare, Early
    <2>2. sup'.pc = "rules6" => a < 6 /\ Placed(d, a, 2)
      BY <1>5, <1>6, <1>8
    <2> QED BY <1>1, <1>5, <1>7, <2>1, <2>2 DEF ChainTrue
  <1> QED BY <1>2, <1>3, <1>7, <1>8, <1>9, <1>10, <1>11, BareStep

\* run_sandbox returns.
LEMMA DropKeeps ==
    ASSUME BootInv, NEW oklink \in BOOLEAN, NEW okns \in BOOLEAN, DropHandles(oklink, okns)
    PROVE  BootInv'
  <1>1. /\ sup \in SupRecs /\ NetTrue(sup, net) /\ ChainTrue(sup, net) /\ net \in NetRecs
        /\ net.ns \in BOOLEAN /\ net.veth \in BOOLEAN /\ net.stuck \in BOOLEAN /\ users \subseteq Users
        /\ sup.code \in {"none", "status", "124", "error"}
    BY DEF BootInv, BootTypes, NetRecs, SupRecs
  <1>2. /\ sup.pc = "drop" /\ sup' = [NoSup EXCEPT !.pc = "exited", !.code = sup.code]
        /\ proc' = [p \in Procs |-> NoProc] /\ kmsg' = <<>> /\ users' = users
        /\ IF sup.netns THEN DeleteNetwork(TRUE, oklink, okns) ELSE UNCHANGED net
    BY DEF DropHandles
  <1>3. /\ sup' \in SupRecs /\ sup'.pc = "exited" /\ ~sup'.netns /\ ~sup'.proxy /\ sup'.sshd = "off"
    BY <1>1, <1>2 DEF NoSup, SupRecs, BootPcs
  <1>4. /\ net' \in NetRecs /\ net'.done = net.done /\ net'.v4 = net.v4 /\ net'.v6 = net.v6
        /\ net'.complete = net.complete
        /\ (net'.ns => net.ns) /\ (net'.veth => net.veth) /\ (~net'.stuck => ~net'.ns /\ ~net'.veth)
    <2>1. CASE ~sup.netns
      BY <1>1, <1>2, <2>1 DEF NetTrue
    <2>2. CASE sup.netns
      <3> DEFINE v == net.veth /\ ~(TRUE /\ oklink)
                 a == net.ns /\ ~okns
                 t == net.stuck \/ ~okns \/ (TRUE /\ ~oklink)
      <3>1. net' = [net EXCEPT !.veth = v, !.ns = a, !.fd = FALSE, !.stuck = t]
        BY <1>2, <2>2 DEF DeleteNetwork
      <3>2. /\ v \in BOOLEAN /\ a \in BOOLEAN /\ t \in BOOLEAN /\ (a => net.ns) /\ (v => net.veth)
            /\ (~t => ~a /\ ~v)
        OBVIOUS
      <3> HIDE DEF v, a, t
      <3>3. /\ net' \in NetRecs /\ net'.ns = a /\ net'.veth = v /\ net'.stuck = t /\ net'.done = net.done
            /\ net'.v4 = net.v4 /\ net'.v6 = net.v6 /\ net'.complete = net.complete
        BY <1>1, <3>1, <3>2 DEF NetRecs
      <3> QED BY <3>2, <3>3
    <2> QED BY <2>1, <2>2
  <1>5. SupTrue(sup')
    BY <1>3 DEF SupTrue, Bare, Early
  <1>6. NetTrue(sup', net')
    BY <1>1, <1>3, <1>4 DEF NetTrue, Bare, Early
  <1>7. ChainTrue(sup', net')
    BY <1>1, <1>3, <1>4 DEF ChainTrue, Bare, Early
  <1>8. NoProc \in ProcRecs /\ NoProc.pc = "none"
    BY DEF NoProc, ProcRecs
  <1>9. \A p \in Procs : ProcTrue(sup', net', proc'[p])
    BY <1>2, <1>8 DEF ProcTrue
  <1>10. BootTypes'
    <2>1. proc' \in [Procs -> ProcRecs]
      BY <1>2, <1>8
    <2>2. kmsg' \in Seq({"tcp", "udp"}) /\ Len(kmsg') <= MaxPending
      BY <1>2, BootAssumption
    <2> QED BY <1>1, <1>2, <1>3, <1>4, <2>1, <2>2 DEF BootTypes
  <1> QED BY <1>5, <1>6, <1>7, <1>9, <1>10 DEF BootInv

\* What the steps between fork and exec make of a process, when none fails.
LEMMA ChildConfined ==
    ASSUME BootInv, NEW q \in ProcRecs, q.pc = "forked", sup.pc # "exited", NEW c \in PreExec(q), c # Failed
    PROVE  /\ c \in ProcRecs /\ c.calls /\ (net.opened => c.ns)
           /\ (sup.user = "" => ~sup.group) => c.uid # "root"
           /\ sup.compat = "hard_requirement" => c.files = "all"
  <1>1. /\ sup.user \in Users \cup {""} /\ users \subseteq Users /\ (net.opened => net.fd)
        /\ "root" \notin Users /\ "sandbox" \in Users
    BY DEF BootInv, BootTypes, SupRecs, NetTrue, Users
  <1> DEFINE A == EnterNetns(q)
             B == UNION {IF d = Failed THEN {d} ELSE DropPrivileges(d) : d \in A}
             C == UNION {IF d = Failed THEN {d} ELSE ApplyLandlock(d) : d \in B}
  <1>2. c \in UNION {IF d = Failed THEN {d} ELSE ApplySeccomp(d) : d \in C}
    BY DEF PreExec
  <1> HIDE DEF C
  <1>3. PICK x \in C : x # Failed /\ c \in ApplySeccomp(x)
    BY <1>2
  <1> HIDE DEF B
  <1>4. PICK y \in B : y # Failed /\ x \in ApplyLandlock(y)
    BY <1>3 DEF C
  <1> HIDE DEF A
  <1>5. PICK z \in A : z # Failed /\ y \in DropPrivileges(z)
    BY <1>4 DEF B
  <1>6. z \in ProcRecs /\ (net.opened => z.ns)
    <2>1. z = q \/ z = [q EXCEPT !.ns = TRUE]
      BY <1>5 DEF A, EnterNetns
    <2>2. net.fd => z = [q EXCEPT !.ns = TRUE]
      BY <1>5 DEF A, EnterNetns
    <2>3. z \in ProcRecs
      BY <2>1 DEF ProcRecs
    <2> QED BY <1>1, <2>2, <2>3 DEF ProcRecs
  <1>7. y \in ProcRecs /\ (net.opened => y.ns) /\ ((sup.user = "" => ~sup.group) => y.uid # "root")
    <2>1. CASE sup.user = "" /\ sup.group
      <3>1. y = z
        BY <1>4, <1>5, <2>1 DEF DropPrivileges
      <3> QED BY <1>6, <2>1, <3>1
    <2>2. CASE ~(sup.user = "" /\ sup.group)
      <3>1. PICK u \in users : y = [z EXCEPT !.uid = u]
        BY <1>4, <1>5, <2>2 DEF DropPrivileges
      <3>2. u \in Users /\ u # "root"
        BY <1>1
      <3>3. y \in ProcRecs /\ y.uid = u /\ y.ns = z.ns
        BY <1>6, <3>1, <3>2 DEF ProcRecs
      <3> QED BY <1>6, <3>2, <3>3
    <2> QED BY <2>1, <2>2
  <1>8. x \in ProcRecs /\ x.ns = y.ns /\ x.uid = y.uid /\ (sup.compat = "hard_requirement" => x.files = "all")
    <2>1. PICK o \in TryOpenPaths : x = IF o # "error" THEN [y EXCEPT !.files = o]
                                        ELSE IF sup.compat = "hard_requirement" THEN Failed ELSE y
      BY <1>4 DEF ApplyLandlock
    <2>2. o \in {"all", "error", "some"} /\ (sup.compat = "hard_requirement" => o \in {"all", "error"})
      BY DEF TryOpenPaths
    <2>3. CASE o = "error"
      BY <1>3, <1>7, <2>1, <2>3
    <2>4. CASE o # "error"
      <3>1. x = [y EXCEPT !.files = o]
        BY <2>1, <2>4
      <3> QED BY <1>7, <2>2, <2>4, <3>1 DEF ProcRecs
    <2> QED BY <2>3, <2>4
  <1>9. c = [x EXCEPT !.calls = TRUE]
    BY <1>3 DEF ApplySeccomp
  <1>10. c \in ProcRecs /\ c.calls /\ c.ns = x.ns /\ c.uid = x.uid /\ c.files = x.files
    BY <1>8, <1>9 DEF ProcRecs
  <1> QED BY <1>7, <1>8, <1>10

\* A step of one process.
LEMMA ProcStep ==
    ASSUME BootInv, NEW p \in Procs, NEW b \in ProcRecs, proc' = [proc EXCEPT ![p] = b],
           UNCHANGED <<sup, users, net, kmsg>>, ProcTrue(sup, net, b)
    PROVE  BootInv'
  <1>1. proc \in [Procs -> ProcRecs]
    BY DEF BootInv, BootTypes
  <1>2. proc' \in [Procs -> ProcRecs] /\ proc'[p] = b /\ \A o \in Procs : o # p => proc'[o] = proc[o]
    BY <1>1
  <1>3. BootTypes'
    BY <1>2 DEF BootInv, BootTypes
  <1>4. \A o \in Procs : ProcTrue(sup, net, proc'[o])
    BY <1>2 DEF BootInv
  <1>5. SupTrue(sup') /\ NetTrue(sup', net') /\ ChainTrue(sup', net')
    BY DEF BootInv
  <1>6. \A o \in Procs : ProcTrue(sup', net', proc'[o])
    BY <1>4
  <1> QED BY <1>3, <1>5, <1>6 DEF BootInv

\* A step of run_sandbox that changes the entrypoint too.
LEMMA EntryStep ==
    ASSUME BootInv, NEW s \in SupRecs, NEW b \in ProcRecs, sup' = s, proc' = [proc EXCEPT !["entry"] = b],
           UNCHANGED <<users, net, kmsg>>, b.pc # "running",
           sup.pc \in {"spawn", "wait"}, s.pc \in {"spawning", "drop"},
           s.proxy = sup.proxy, s.netns = sup.netns, s.sshd = sup.sshd, s.user = sup.user, s.group = sup.group,
           s.compat = sup.compat
    PROVE  BootInv'
  <1>1. /\ proc \in [Procs -> ProcRecs] /\ SupTrue(sup) /\ NetTrue(sup, net) /\ ChainTrue(sup, net)
        /\ "entry" \in Procs
    BY DEF BootInv, BootTypes, Procs
  <1>2. proc' \in [Procs -> ProcRecs] /\ proc'["entry"] = b /\ \A o \in Procs : o # "entry" => proc'[o] = proc[o]
    BY <1>1
  <1>3. BootTypes'
    BY <1>2 DEF BootInv, BootTypes
  <1>4. sup.proxy /\ sup.netns
    BY <1>1 DEF SupTrue
  <1>5. SupTrue(s) /\ NetTrue(s, net) /\ ChainTrue(s, net)
    BY <1>1, <1>4 DEF SupTrue, NetTrue, ChainTrue, Bare, Early
  <1>6. \A o \in Procs : ProcTrue(s, net, proc'[o])
    <2> SUFFICES ASSUME NEW o \in Procs PROVE ProcTrue(s, net, proc'[o])
      OBVIOUS
    <2>1. CASE o = "entry"
      BY <1>2, <1>4, <2>1 DEF ProcTrue
    <2>2. CASE o # "entry"
      <3>1. ProcTrue(sup, net, proc[o])
        BY DEF BootInv
      <3> QED BY <1>2, <1>4, <2>2, <3>1 DEF ProcTrue
    <2> QED BY <2>1, <2>2
  <1>7. SupTrue(sup') /\ NetTrue(sup', net') /\ ChainTrue(sup', net')
    BY <1>5
  <1>8. \A o \in Procs : ProcTrue(sup', net', proc'[o])
    BY <1>6
  <1> QED BY <1>3, <1>7, <1>8 DEF BootInv

LEMMA KmsgStep ==
    ASSUME BootInv, UNCHANGED <<sup, users, net, proc>>, kmsg' \in Seq({"tcp", "udp"}), Len(kmsg') <= MaxPending
    PROVE  BootInv'
  <1>1. BootTypes'
    BY DEF BootInv, BootTypes
  <1>2. SupTrue(sup') /\ NetTrue(sup', net') /\ ChainTrue(sup', net')
    BY DEF BootInv
  <1>3. \A o \in Procs : ProcTrue(sup', net', proc'[o])
    BY DEF BootInv
  <1> QED BY <1>1, <1>2, <1>3 DEF BootInv

\* The steps of the processes, of their supervision and of the monitor.
LEMMA ProcessKeeps ==
    ASSUME BootInv, ProcessNext
    PROVE  BootInv'
  <1>1. /\ sup \in SupRecs /\ SupTrue(sup) /\ proc \in [Procs -> ProcRecs] /\ "entry" \in Procs /\ "session" \in Procs
        /\ kmsg \in Seq({"tcp", "udp"}) /\ Len(kmsg) <= MaxPending
        /\ \A p \in Procs : ProcTrue(sup, net, proc[p]) /\ proc[p] \in ProcRecs
    BY DEF BootInv, BootTypes, Procs
  <1>2. CASE SpawnEntry
    <2> DEFINE s == [sup EXCEPT !.pc = "spawning"]
               b == [proc["entry"] EXCEPT !.pc = "forked"]
    <2>1. sup.pc = "spawn" /\ sup' = s /\ proc' = [proc EXCEPT !["entry"] = b] /\ UNCHANGED <<users, net, kmsg>>
      BY <1>2 DEF SpawnEntry, Proceed
    <2>2. b \in ProcRecs /\ b.pc # "running"
      BY <1>1 DEF ProcRecs
    <2>3. /\ s \in SupRecs /\ s.pc = "spawning" /\ s.proxy = sup.proxy /\ s.netns = sup.netns /\ s.sshd = sup.sshd
          /\ s.user = sup.user /\ s.group = sup.group /\ s.compat = sup.compat
      BY <1>1 DEF SupRecs, BootPcs
    <2> HIDE DEF s, b
    <2> QED BY <2>1, <2>2, <2>3, EntryStep
  <1>3. CASE SpawnSession
    <2> DEFINE b == [proc["session"] EXCEPT !.pc = "forked"]
    <2>1. sup.sshd = "ready" /\ proc' = [proc EXCEPT !["session"] = b] /\ UNCHANGED <<sup, users, net, kmsg>>
      BY <1>3 DEF SpawnSession
    <2>2. b \in ProcRecs /\ b.pc = "forked"
      BY <1>1 DEF ProcRecs
    <2> HIDE DEF b
    <2>3. ProcTrue(sup, net, b)
      BY <1>1, <2>1, <2>2 DEF ProcTrue, SupTrue
    <2> QED BY <1>1, <2>1, <2>2, <2>3, ProcStep
  <1>4. CASE EntrySpawned \/ EntryFailed \/ PublishPid
    BY <1>4, SetupKeeps DEF SetupActions
  <1>5. CASE ReapZombie
    <2> DEFINE b == [proc["entry"] EXCEPT !.pc = "reaped"]
    <2>1. proc["entry"].pc = "zombie" /\ proc' = [proc EXCEPT !["entry"] = b] /\ UNCHANGED <<sup, users, net, kmsg>>
      BY <1>5 DEF ReapZombie
    <2>2. b \in ProcRecs /\ b.pc = "reaped"
      BY <1>1 DEF ProcRecs
    <2> HIDE DEF b
    <2>3. ProcTrue(sup, net, b)
      BY <1>1, <2>1, <2>2 DEF ProcTrue
    <2> QED BY <1>1, <2>1, <2>2, <2>3, ProcStep
  <1>6. CASE WaitEntry
    <2> DEFINE k == IF proc["entry"].pc = "zombie" THEN "status" ELSE "error"
               s == [sup EXCEPT !.pc = "drop", !.managed = FALSE, !.code = k]
               b == [proc["entry"] EXCEPT !.pc = "reaped"]
    <2>1. sup.pc = "wait" /\ sup' = s /\ proc' = [proc EXCEPT !["entry"] = b] /\ UNCHANGED <<users, net, kmsg>>
      BY <1>6 DEF WaitEntry
    <2>2. b \in ProcRecs /\ b.pc # "running"
      BY <1>1 DEF ProcRecs
    <2>3. k \in {"status", "error"}
      OBVIOUS
    <2> HIDE DEF k
    <2>4. /\ s \in SupRecs /\ s.pc = "drop" /\ s.proxy = sup.proxy /\ s.netns = sup.netns /\ s.sshd = sup.sshd
          /\ s.user = sup.user /\ s.group = sup.group /\ s.compat = sup.compat
      BY <1>1, <2>3 DEF SupRecs, BootPcs
    <2> HIDE DEF s, b
    <2> QED BY <2>1, <2>2, <2>4, EntryStep
  <1>7. CASE EntryTimeout
    <2> DEFINE s == [sup EXCEPT !.pc = "drop", !.code = "124"]
               b == [NoProc EXCEPT !.pc = "zombie"]
    <2>1. sup.pc = "wait" /\ sup' = s /\ proc' = [proc EXCEPT !["entry"] = b] /\ UNCHANGED <<users, net, kmsg>>
      BY <1>7 DEF EntryTimeout
    <2>2. b \in ProcRecs /\ b.pc # "running"
      BY DEF ProcRecs, NoProc
    <2>3. /\ s \in SupRecs /\ s.pc = "drop" /\ s.proxy = sup.proxy /\ s.netns = sup.netns /\ s.sshd = sup.sshd
          /\ s.user = sup.user /\ s.group = sup.group /\ s.compat = sup.compat
      BY <1>1 DEF SupRecs, BootPcs
    <2> HIDE DEF s, b
    <2> QED BY <2>1, <2>2, <2>3, EntryStep
  <1>8. CASE MonitorLine
    <2>1. kmsg # <<>> /\ kmsg' = Tail(kmsg) /\ UNCHANGED <<sup, users, net, proc>>
      BY <1>8 DEF MonitorLine
    <2>2. kmsg' \in Seq({"tcp", "udp"}) /\ Len(kmsg') = Len(kmsg) - 1 /\ Len(kmsg) \in Nat
      BY <1>1, <2>1
    <2>3. Len(kmsg') <= MaxPending
      BY <1>1, <2>2, BootAssumption
    <2> QED BY <2>1, <2>2, <2>3, KmsgStep
  <1>9. ASSUME NEW p \in Procs, RunChild(p)
        PROVE  BootInv'
    <2>1. /\ proc[p].pc = "forked" /\ UNCHANGED <<sup, users, net, kmsg>> /\ sup.proxy /\ sup.pc # "exited"
      BY <1>1, <1>9 DEF RunChild, ProcTrue, SupTrue
    <2>2. PICK c \in PreExec(proc[p]) \cup {Failed} :
             proc' = [proc EXCEPT ![p] = IF c = Failed THEN c ELSE [c EXCEPT !.pc = "running"]]
      BY <1>9 DEF RunChild
    <2>3. CASE c = Failed
      <3>1. Failed \in ProcRecs /\ Failed.pc = "failed"
        BY DEF Failed, NoProc, ProcRecs
      <3>2. ProcTrue(sup, net, Failed)
        BY <2>1, <3>1 DEF ProcTrue
      <3> QED BY <2>1, <2>2, <2>3, <3>1, <3>2, ProcStep
    <2>4. CASE c # Failed
      <3> DEFINE b == [c EXCEPT !.pc = "running"]
                 q == proc[p]
      <3>1. q \in ProcRecs /\ c \in PreExec(q) /\ q.pc = "forked"
        BY <1>1, <2>1, <2>2, <2>4
      <3> HIDE DEF q
      <3>2. /\ c \in ProcRecs /\ c.calls /\ (net.opened => c.ns)
            /\ (sup.user = "" => ~sup.group) => c.uid # "root"
            /\ sup.compat = "hard_requirement" => c.files = "all"
        BY <2>1, <2>4, <3>1, ChildConfined
      <3>3. b \in ProcRecs /\ b.calls = c.calls /\ b.ns = c.ns /\ b.uid = c.uid /\ b.files = c.files
        BY <3>2 DEF ProcRecs
      <3>4. proc' = [proc EXCEPT ![p] = b]
        BY <2>2, <2>4
      <3> HIDE DEF b
      <3>5. ProcTrue(sup, net, b)
        BY <2>1, <3>2, <3>3 DEF ProcTrue
      <3> QED BY <2>1, <3>3, <3>4, <3>5, ProcStep
    <2> QED BY <2>3, <2>4
  <1>10. ASSUME NEW p \in Procs, ProcessExits(p)
         PROVE  BootInv'
    <2> DEFINE k == IF p = "entry" THEN "zombie" ELSE "reaped"
               b == [NoProc EXCEPT !.pc = k]
    <2>1. proc[p].pc = "running" /\ proc' = [proc EXCEPT ![p] = b] /\ UNCHANGED <<sup, users, net, kmsg>>
      BY <1>10 DEF ProcessExits
    <2>2. k \in {"zombie", "reaped"}
      OBVIOUS
    <2> HIDE DEF k
    <2>3. b \in ProcRecs /\ b.pc = k
      BY <2>2 DEF ProcRecs, NoProc
    <2> HIDE DEF b
    <2>4. ProcTrue(sup, net, b)
      BY <1>1, <2>1, <2>2, <2>3 DEF ProcTrue
    <2> QED BY <2>1, <2>3, <2>4, ProcStep
  <1>11. ASSUME NEW p \in Procs, NEW packet \in {"tcp", "udp"}, DirectAttempt(p, packet)
         PROVE  BootInv'
    <2>1. Len(kmsg) < MaxPending /\ kmsg' = Append(kmsg, packet) /\ UNCHANGED <<sup, users, net, proc>>
      BY <1>11 DEF DirectAttempt
    <2>2. kmsg' \in Seq({"tcp", "udp"}) /\ Len(kmsg') = Len(kmsg) + 1 /\ Len(kmsg) \in Nat
      BY <1>1, <2>1
    <2>3. Len(kmsg') <= MaxPending
      BY <2>1, <2>2, BootAssumption
    <2> QED BY <2>1, <2>2, <2>3, KmsgStep
  <1> QED BY <1>2, <1>3, <1>4, <1>5, <1>6, <1>7, <1>8, <1>9, <1>10, <1>11 DEF ProcessNext

LEMMA BootInit == SboxInit => BootInv
  <1> SUFFICES ASSUME SboxInit PROVE BootInv
    OBVIOUS
  <1>1. /\ sup = NoSup /\ users \subseteq Users /\ kmsg = <<>> /\ proc = [p \in Procs |-> NoProc]
        /\ net = [done |-> 0, ns |-> FALSE, veth |-> FALSE, fd |-> FALSE, opened |-> FALSE, v4 |-> <<>>, v6 |-> <<>>,
                  at |-> 0, complete |-> FALSE, refused |-> 0, stuck |-> FALSE]
    BY DEF SboxInit, Users
  <1>2. /\ sup \in SupRecs /\ sup.pc = "load" /\ ~sup.netns /\ ~sup.proxy /\ sup.sshd = "off"
    BY <1>1 DEF NoSup, SupRecs, BootPcs, Bare, Early
  <1>3. NoProc \in ProcRecs /\ NoProc.pc = "none"
    BY DEF NoProc, ProcRecs
  <1>4. /\ net \in NetRecs /\ net.done = 0 /\ ~net.ns /\ ~net.veth /\ ~net.opened /\ net.v4 = <<>> /\ net.v6 = <<>>
        /\ net.at = 0 /\ ~net.complete
    BY <1>1 DEF NetRecs
  <1>5. BootTypes
    <2>1. proc \in [Procs -> ProcRecs]
      BY <1>1, <1>3
    <2>2. kmsg \in Seq({"tcp", "udp"}) /\ Len(kmsg) <= MaxPending
      BY <1>1, BootAssumption
    <2> QED BY <1>1, <1>2, <1>4, <2>1, <2>2 DEF BootTypes
  <1>6. SupTrue(sup) /\ NetTrue(sup, net)
    BY <1>2, <1>4 DEF SupTrue, NetTrue, Bare, Early
  <1>7. ChainTrue(sup, net)
    <2>1. Begins(<<>>, BypassRules, 3) /\ Begins(<<>>, BypassRulesV6, 2)
      BY DEF Begins
    <2> QED BY <1>2, <1>4, <2>1 DEF ChainTrue
  <1>8. \A p \in Procs : ProcTrue(sup, net, proc[p])
    BY <1>1, <1>3 DEF ProcTrue
  <1> QED BY <1>5, <1>6, <1>7, <1>8 DEF BootInv

LEMMA BootNext == BootInv /\ [SboxNext]_sboxVars => BootInv'
  <1> SUFFICES ASSUME BootInv, [SboxNext]_sboxVars PROVE BootInv'
    OBVIOUS
  <1>1. CASE UNCHANGED sboxVars
    <2>1. UNCHANGED <<sup, users, net, proc, kmsg>>
      BY <1>1 DEF sboxVars
    <2>2. kmsg' \in Seq({"tcp", "udp"}) /\ Len(kmsg') <= MaxPending
      BY <2>1 DEF BootInv, BootTypes
    <2> QED BY <2>1, <2>2, KmsgStep
  <1>2. CASE ProcessNext
    BY <1>2, ProcessKeeps
  <1>3. CASE StartNext
    <2>1. \/ SetupActions
          \/ IpCommand \/ (\E a, b \in BOOLEAN : IpCommandFails(a, b)) \/ (\E ok \in BOOLEAN : OpenNsFd(ok))
          \/ (\E ok \in BOOLEAN : InstallRuleV6(ok))
          \/ (\E a, b \in BOOLEAN : InstallRule(a, b) \/ DropHandles(a, b))
      BY <1>3 DEF StartNext, SetupActions
    <2> QED BY <2>1, SetupKeeps, NamespaceKeeps, RuleKeeps, RuleV6Keeps, DropKeeps
  <1> QED BY <1>1, <1>2, <1>3 DEF SboxNext

LEMMA BootInvSound == BootInv => BootSound
  <1> SUFFICES ASSUME BootInv PROVE BootSound
    OBVIOUS
  <1>1. /\ sup \in SupRecs /\ SupTrue(sup) /\ NetTrue(sup, net) /\ ChainTrue(sup, net) /\ net \in NetRecs
        /\ users \subseteq Users /\ Len(kmsg) <= MaxPending /\ net.v4 \in Seq(RuleRecs) /\ net.v6 \in Seq(RuleRecs)
        /\ \A p \in Procs : ProcTrue(sup, net, proc[p]) /\ proc[p] \in ProcRecs
    BY DEF BootInv, BootTypes, NetRecs
  <1>2. SboxTypeOK
    <2>1. net.done \in 0..Len(NetCommands) /\ net.at \in 0..Len(BypassRules)
      BY <1>1, CommandsAre, RulesAre DEF NetRecs
    <2>2. \A p \in Procs : proc[p].uid \in Users \cup {"root"}
      BY <1>1 DEF ProcRecs
    <2>3. /\ sup.pc \in BootPcs /\ sup.user \in Users \cup {""} /\ sup.sshd \in {"off", "starting", "ready", "failed"}
          /\ sup.code \in {"none", "status", "124", "error"}
      BY <1>1 DEF SupRecs
    <2> QED BY <1>1, <2>1, <2>2, <2>3 DEF SboxTypeOK, BootPcs, Bare, Early
  <1>3. Confined
    BY <1>1 DEF Confined, ProcTrue
  <1>4. NothingLeft
    BY <1>1 DEF NothingLeft, SupTrue, NetTrue
  <1>5. ChainSound
    <2> DEFINE v == net.v4
               w == net.v6
               r == BypassRules
               t == BypassRulesV6
    <2>1. v \in Seq(RuleRecs) /\ w \in Seq(RuleRecs) /\ Begins(v, r, 3) /\ Begins(w, t, 2)
      BY <1>1 DEF ChainTrue
    <2>2. /\ \A i \in 1..3 : r[i].do = "ACCEPT"
          /\ \A i \in 1..2 : t[i].do = "ACCEPT"
          /\ r[1].match = "proxy" /\ r[2].match = "lo" /\ r[3].match = "response"
          /\ t[1].match = "lo" /\ t[2].match = "response"
          /\ 1 \in 1..3 /\ 2 \in 1..3 /\ 3 \in 1..3 /\ 1 \in 1..2 /\ 2 \in 1..2 /\ 3 \in Nat /\ 2 \in Nat
      BY RulesFit
    <2>3. \A packet \in {"tcp", "udp"} : HasReject(v, packet) => Verdict(v, packet) = "REJECT"
      BY <2>1, RejectsOthers
    <2> HIDE DEF v, w, r, t
    <2>4. Verdict(v, "proxy") = "ACCEPT"
      BY <2>1, <2>2, AcceptsEarly
    <2>5. Verdict(v, "lo") = "ACCEPT"
      BY <2>1, <2>2, AcceptsEarly
    <2>6. Verdict(v, "response") = "ACCEPT"
      BY <2>1, <2>2, AcceptsEarly
    <2>7. Verdict(w, "lo") = "ACCEPT"
      BY <2>1, <2>2, AcceptsEarly
    <2>8. Verdict(w, "response") = "ACCEPT"
      BY <2>1, <2>2, AcceptsEarly
    <2>9. net.complete => \A packet \in {"tcp", "udp"} : Verdict(v, packet) = "REJECT"
      BY <1>1, <2>3 DEF ChainTrue, v
    <2> QED BY <2>4, <2>5, <2>6, <2>7, <2>8, <2>9 DEF ChainSound, v, w
  <1> QED BY <1>2, <1>3, <1>4, <1>5 DEF BootSound

\* Whichever steps of run_sandbox fail and however many packet rules are
\* refused, no process of the sandbox runs half confined, the chain never cuts
\* off the proxy and rejects everything else once it is complete, and nothing
\* is left on the host unless a deletion was refused.
THEOREM NeverHalfConfined == SboxSpec => []BootSound
  <1>1. SboxInit => BootInv
    BY BootInit
  <1>2. BootInv /\ [SboxNext]_sboxVars => BootInv'
    BY BootNext
  <1>3. BootInv => BootSound
    BY BootInvSound
  <1> QED BY <1>1, <1>2, <1>3, PTL DEF SboxSpec


-----------------------------------------------------------------------------
(* LogStream: a line on its way from a supervisor to the watchers.          *)

CallRecs ==
    [open : BOOLEAN, q : Seq(Seq(Lines)), served : {"unchecked", "checked", "ended"}, todo : Seq(Lines)]

\* What is left of a call: the line its handler is publishing, the rest of the
\* batch and the batches queued.  No line is there twice.
Distinct(s) == \A i, j \in DOMAIN s : s[i] = s[j] => i = j
Queued(q) == UNION {Range(q[i]) : i \in DOMAIN q}
Content(r, h) == ({h} \ {NoLine}) \cup Range(r.todo) \cup Queued(r.q)
CallDistinct(r, h) ==
    /\ Distinct(r.todo) /\ \A i \in DOMAIN r.q : Distinct(r.q[i])
    /\ \A i, j \in DOMAIN r.q : i # j => Range(r.q[i]) \cap Range(r.q[j]) = {}
    /\ Range(r.todo) \cap Queued(r.q) = {}
    /\ h \notin Range(r.todo) /\ h \notin Queued(r.q)

RxRecs == [gen : 0..3, q : Seq(Lines \cup {NoLine}), lagged : BOOLEAN]
WatchRecs ==
    [pc : {"idle", "subscribe", "snapshot", "tail", "events", "loop", "done"}, stop : BOOLEAN,
     seen : 0..MaxRecVer, out : SUBSET (Lines \cup {NoLine}), excused : SUBSET Lines, rx : [Buses -> RxRecs]]

\* What a watcher may count on of a bus, and what it has or need not have.
Fits(r, b, bs) == r.rx[b].gen = bs[b].gen /\ ~r.rx[b].lagged
Has(r, b) == r.out \cup Range(r.rx[b].q) \cup r.excused

StreamTypes ==
    /\ wrec \in [ver : 0..MaxRecVer, ready : BOOLEAN] /\ owed \in 0..MaxRecVer
    /\ sweep \in {"none", "dropped", "due", "done"}
    /\ bus \in [Buses -> [gen : 1..3, tail : Seq(Lines)]]
    /\ source \in [Sources -> 0..MaxLines] /\ half \in [Publishers -> Lines \cup {NoLine}]
    /\ layer \in [q : Seq(Lines), closed : BOOLEAN]
    /\ pusher \in [pc : {"connect", "stream", "done"}, call : 0..MaxPushes, batch : Seq(Lines)]
    /\ calls \in [Calls -> CallRecs]
    /\ watch \in [Watchers -> WatchRecs]

\* The bounds of the buffers, and of what is owed and replaced.
Bounded ==
    /\ Len(layer.q) <= ChannelCap
    /\ Len(pusher.batch) <= MaxBuffered \/ Len(pusher.batch) < BatchSize
    /\ \A c \in Calls : Len(calls[c].q) <= StreamCap
    /\ \A b \in Buses : Len(bus[b].tail) <= TailCap
    /\ wrec.ver > 0 => owed < wrec.ver
    /\ \A b \in Buses : /\ sweep = "none" => bus[b].gen = 1
                        /\ sweep = "dropped" => bus[b].gen <= 2
                        /\ sweep = "due" => bus[b].gen <= 2
    /\ pusher.pc # "connect" => pusher.call > 0

\* Where a line of the supervisor can be: in the channel ly, in the batch ba,
\* with one of the calls cs or in the tail tl.  It is in one place only and was
\* emitted, n being the number of lines emitted so far, and g the gateway's.
Emitted(n) == {"sandbox"} \X (1..n)
Supply(ly, ba, tl, n) ==
    /\ Distinct(ly) /\ Distinct(ba) /\ Range(ly) \cap Range(ba) = {}
    /\ Range(ly) \subseteq Emitted(n) /\ Range(ba) \subseteq Emitted(n)
    /\ Range(tl) \cap Range(ly) = {} /\ Range(tl) \cap Range(ba) = {}
CallsApart(ly, ba, cs, hf, tl, n) ==
    /\ \A c \in Calls : CallDistinct(cs[c], hf[c]) /\ Content(cs[c], hf[c]) \subseteq Emitted(n)
    /\ \A c \in Calls : /\ Content(cs[c], hf[c]) \cap Range(ly) = {}
                        /\ Content(cs[c], hf[c]) \cap Range(ba) = {}
                        /\ Content(cs[c], hf[c]) \cap Range(tl) = {}
    /\ \A c, d \in Calls : c # d => Content(cs[c], hf[c]) \cap Content(cs[d], hf[d]) = {}
TailTrue(hf, tl, n, g) ==
    /\ Distinct(tl) /\ Range(tl) \subseteq Emitted(n) \cup ({"gateway"} \X (1..g))
    /\ hf[OwnLayer] # NoLine => hf[OwnLayer] \in ({"gateway"} \X (1..g)) \ Range(tl)
    /\ hf[EventTailer] # NoLine => hf[EventTailer][1] = "kube"
PushTrue(ly, ba, cs, hf, tl, n, g) ==
    Supply(ly, ba, tl, n) /\ CallsApart(ly, ba, cs, hf, tl, n) /\ TailTrue(hf, tl, n, g)

\* A receiver is of a generation there was.  A watcher that has subscribed holds,
\* or is excused from, what is being published, then what a tail it has read holds.
Subscribers == {"snapshot", "tail", "events", "loop"}
SeenTrue(r, bs, ow, sw, rec) ==
    Fits(r, "status", bs) /\ r.rx["status"].q = <<>> /\ ow = 0 /\ sw # "due" => r.seen = rec.ver
HalfTrue(r, bs, h) == h # NoLine /\ Fits(r, BusOf(h), bs) => h \in Has(r, BusOf(h))
TailsTrue(r, bs) ==
    /\ r.pc \in {"events", "loop"} => (Fits(r, "log", bs) => Range(bs["log"].tail) \subseteq Has(r, "log"))
    /\ r.pc = "loop" => (Fits(r, "platform", bs) => Range(bs["platform"].tail) \subseteq Has(r, "platform"))
WatchTrue(r, bs, hf, ow, sw, rec) ==
    /\ \A b \in Buses : r.rx[b].gen <= bs[b].gen
    /\ r.pc \in {"tail", "events", "loop"} => SeenTrue(r, bs, ow, sw, rec)
    /\ r.pc \in Subscribers => \A p \in Publishers : HalfTrue(r, bs, hf[p])
    /\ TailsTrue(r, bs)

PushSide ==
    PushTrue(layer.q, pusher.batch, calls, half, bus["log"].tail, source["sandbox"], source["gateway"])
WatchersTrue == \A w \in Watchers : WatchTrue(watch[w], bus, half, owed, sweep, wrec)

StreamInv == StreamTypes /\ Bounded /\ PushSide /\ WatchersTrue

LEMMA LastOfIs ==
    ASSUME NEW S, NEW s \in Seq(S), NEW n \in Nat
    PROVE  /\ LastOf(s, n) \in Seq(S) /\ Len(LastOf(s, n)) <= n /\ Range(LastOf(s, n)) \subseteq Range(s)
           /\ Len(s) <= n => LastOf(s, n) = s
           /\ \E k \in Nat : \A j \in DOMAIN LastOf(s, n) : j + k \in DOMAIN s /\ LastOf(s, n)[j] = s[j + k]
  <1> DEFINE m == IF Len(s) < n THEN 1 ELSE Len(s) - n + 1
             t == SubSeq(s, m, Len(s))
  <1>1. m \in 1..(Len(s) + 1) /\ Len(s) \in Nat /\ (Len(s) >= n => Len(s) - m + 1 = n) /\ (Len(s) < n => m = 1)
    OBVIOUS
  <1> HIDE DEF m
  <1>2. t \in Seq(S) /\ Len(t) = Len(s) - m + 1 /\ \A j \in 1..Len(t) : t[j] = s[j + (m - 1)] /\ j + (m - 1) \in 1..Len(s)
    BY <1>1
  <1>3. LastOf(s, n) = t
    BY DEF LastOf, m
  <1>4. Range(t) \subseteq Range(s)
    BY <1>2 DEF Range
  <1>5. ASSUME Len(s) <= n PROVE t = s
    <2>1. m = 1
      BY <1>1, <1>5
    <2> QED BY <1>2, <2>1
  <1>6. \E k \in Nat : \A j \in DOMAIN t : j + k \in DOMAIN s /\ t[j] = s[j + k]
    <2>1. m - 1 \in Nat /\ DOMAIN t = 1..Len(t) /\ DOMAIN s = 1..Len(s)
      BY <1>1, <1>2
    <2> QED BY <1>2, <2>1
  <1>7. Len(t) <= n
    BY <1>1, <1>2
  <1> HIDE DEF t
  <1> QED BY <1>2, <1>3, <1>4, <1>5, <1>6, <1>7

LEMMA TakeIs ==
    ASSUME NEW S, NEW s \in Seq(S), NEW n \in Nat
    PROVE  /\ Take(s, n) \in Seq(S) /\ Len(Take(s, n)) <= Len(s)
           /\ \A i \in DOMAIN Take(s, n) : i \in DOMAIN s /\ Take(s, n)[i] = s[i]
  BY DEF Take

Events == Lines \cup {NoLine}

\* What a receiver gets, and what else of a watcher stays as it is.
LEMMA Delivered ==
    ASSUME NEW ws \in [Watchers -> WatchRecs], NEW b \in Buses, NEW e \in Events, NEW w \in Watchers,
           StreamAssumption, bus \in [Buses -> [gen : 1..3, tail : Seq(Lines)]]
    PROVE  LET r == ws[w]  u == Deliver(ws, b, e)[w]
           IN  /\ u \in WatchRecs
               /\ u.pc = r.pc /\ u.seen = r.seen /\ u.out = r.out /\ u.excused = r.excused
               /\ \A x \in Buses : u.rx[x].gen = r.rx[x].gen /\ (u.rx[x].q # r.rx[x].q => x = b)
                                   /\ (~u.rx[x].lagged => ~r.rx[x].lagged)
               /\ Fits(u, b, bus) => u.rx[b].q = Append(r.rx[b].q, e)
  <1> DEFINE r == ws[w]
             q == Append(r.rx[b].q, e)
             l == LastOf(q, ReceiverCap)
             g == r.rx[b].lagged \/ Len(q) > ReceiverCap
             u == [r EXCEPT !.rx[b].q = l, !.rx[b].lagged = g]
  <1>1. r \in WatchRecs /\ r.rx \in [Buses -> RxRecs] /\ r.rx[b] \in RxRecs
    BY DEF WatchRecs
  <1>2. q \in Seq(Events) /\ Len(q) \in Nat
    BY <1>1 DEF RxRecs, Events
  <1>3. l \in Seq(Events) /\ (Len(q) <= ReceiverCap => l = q) /\ g \in BOOLEAN
    BY <1>1, <1>2, LastOfIs, StreamAssumption DEF RxRecs
  <1>4. Deliver(ws, b, e)[w] = IF r.rx[b].gen # bus[b].gen THEN r ELSE u
    BY DEF Deliver
  <1>5. ~g => ~r.rx[b].lagged /\ l = q
    BY <1>1, <1>2, <1>3, StreamAssumption DEF RxRecs
  <1> HIDE DEF l, g, q
  <1>6. u.rx = [r.rx EXCEPT ![b] = [@ EXCEPT !.q = l, !.lagged = g]]
    BY <1>1 DEF WatchRecs, RxRecs
  <1> DEFINE v == [r.rx[b] EXCEPT !.q = l, !.lagged = g]
  <1>7. v \in RxRecs /\ v.q = l /\ v.lagged = g /\ v.gen = r.rx[b].gen
    BY <1>1, <1>3 DEF RxRecs, Events
  <1>8. u = [r EXCEPT !.rx = [r.rx EXCEPT ![b] = v]]
    BY <1>1, <1>6 DEF WatchRecs
  <1> HIDE DEF v, u, r
  <1>m. [r.rx EXCEPT ![b] = v] \in [Buses -> RxRecs]
    BY <1>1, <1>7
  <1>9. u \in WatchRecs /\ u.pc = r.pc /\ u.seen = r.seen /\ u.out = r.out /\ u.excused = r.excused
        /\ u.rx = [r.rx EXCEPT ![b] = v]
    BY <1>1, <1>m, <1>8 DEF WatchRecs
  <1>10. CASE r.rx[b].gen # bus[b].gen
    BY <1>1, <1>4, <1>10 DEF Fits, r
  <1>11. CASE r.rx[b].gen = bus[b].gen
    <2>1. Deliver(ws, b, e)[w] = u
      BY <1>4, <1>11
    <2>2. \A x \in Buses : x # b => u.rx[x] = r.rx[x]
      BY <1>1, <1>9
    <2>3. u.rx[b] = v
      BY <1>1, <1>9
    <2> QED BY <1>5, <1>7, <1>9, <2>1, <2>2, <2>3 DEF Fits, q, r
  <1> QED BY <1>10, <1>11 DEF r


\* A watcher that has lost nothing has what it had, and the event delivered.
LEMMA Keeps ==
    ASSUME NEW ws \in [Watchers -> WatchRecs], NEW b \in Buses, NEW e \in Events, NEW w \in Watchers,
           StreamAssumption, bus \in [Buses -> [gen : 1..3, tail : Seq(Lines)]]
    PROVE  LET r == ws[w]  u == Deliver(ws, b, e)[w]
           IN  /\ \A x \in Buses : Fits(u, x, bus) => Fits(r, x, bus)
               /\ \A x \in {"log", "platform"} :
                     Fits(u, x, bus) => Range(r.rx[x].q) \subseteq Range(u.rx[x].q)
               /\ Fits(u, b, bus) => e \in Range(u.rx[b].q) /\ u.rx[b].q # <<>>
  <1> DEFINE r == ws[w]
             u == Deliver(ws, b, e)[w]
  <1>1. /\ u \in WatchRecs
        /\ \A x \in Buses : u.rx[x].gen = r.rx[x].gen /\ (u.rx[x].q # r.rx[x].q => x = b)
                            /\ (~u.rx[x].lagged => ~r.rx[x].lagged)
        /\ Fits(u, b, bus) => u.rx[b].q = Append(r.rx[b].q, e)
    BY Delivered
  <1>2. r.rx[b].q \in Seq(Events)
    BY DEF WatchRecs, RxRecs, Events
  <1> HIDE DEF r, u
  <1>3. ASSUME NEW q \in Seq(Events) PROVE Range(q) \subseteq Range(Append(q, e)) /\ e \in Range(Append(q, e)) /\ Append(q, e) # <<>>
    <2>1. Len(Append(q, e)) = Len(q) + 1 /\ Append(q, e)[Len(q) + 1] = e /\ \A i \in 1..Len(q) : Append(q, e)[i] = q[i]
      OBVIOUS
    <2>2. DOMAIN q = 1..Len(q) /\ DOMAIN Append(q, e) = 1..(Len(q) + 1) /\ Len(q) \in Nat
      OBVIOUS
    <2>3. Range(q) \subseteq Range(Append(q, e))
      BY <2>1, <2>2 DEF Range
    <2>4. Len(q) + 1 \in DOMAIN Append(q, e) /\ Append(q, e)[Len(q) + 1] = e
      BY <2>1, <2>2
    <2>5. \A t : \A i \in DOMAIN t : t[i] \in Range(t)
      BY DEF Range
    <2>6. Append(q, e) # <<>>
      BY <2>1, <2>2
    <2> QED BY <2>3, <2>4, <2>5, <2>6
  <1>4. \A x \in Buses : Fits(u, x, bus) => Fits(r, x, bus)
    BY <1>1 DEF Fits
  <1>5. ASSUME NEW x \in {"log", "platform"}, Fits(u, x, bus) PROVE Range(r.rx[x].q) \subseteq Range(u.rx[x].q)
    <2>1. x \in Buses
      BY DEF Buses
    <2>2. CASE x # b
      BY <1>1, <2>1, <2>2
    <2>3. CASE x = b
      BY <1>1, <1>2, <1>3, <1>5, <2>3
    <2> QED BY <2>2, <2>3
  <1>6. Fits(u, b, bus) => e \in Range(u.rx[b].q) /\ u.rx[b].q # <<>>
    BY <1>1, <1>2, <1>3
  <1> QED BY <1>4, <1>5, <1>6 DEF r, u

LEMMA Publishes ==
    ASSUME StreamTypes, WatchersTrue, NEW p \in Publishers, NEW e \in Lines, Publish(p, e)
    PROVE  /\ watch' \in [Watchers -> WatchRecs]
           /\ \A w \in Watchers : WatchTrue(watch'[w], bus, half', owed, sweep, wrec)
  <1> USE StreamAssumption
  <1>1. watch \in [Watchers -> WatchRecs] /\ bus \in [Buses -> [gen : 1..3, tail : Seq(Lines)]] /\ e \in Events
        /\ half \in [Publishers -> Lines \cup {NoLine}]
    BY DEF StreamTypes, Events
  <1>2. BusOf(e) \in {"log", "platform"} /\ BusOf(e) \in Buses /\ BusOf(e) # "status"
    BY DEF BusOf, Buses
  <1>3. watch' = Deliver(watch, BusOf(e), e) /\ half' = [half EXCEPT ![p] = e] /\ half[p] = NoLine
    BY DEF Publish
  <1>4. ASSUME NEW w \in Watchers
        PROVE  watch'[w] \in WatchRecs /\ WatchTrue(watch'[w], bus, half', owed, sweep, wrec)
    <2> DEFINE r == watch[w]
               u == Deliver(watch, BusOf(e), e)[w]
    <2>1. /\ u \in WatchRecs
          /\ u.pc = r.pc /\ u.seen = r.seen /\ u.out = r.out /\ u.excused = r.excused
          /\ \A x \in Buses : u.rx[x].gen = r.rx[x].gen /\ (u.rx[x].q # r.rx[x].q => x = BusOf(e))
                              /\ (~u.rx[x].lagged => ~r.rx[x].lagged)
      BY <1>1, <1>2, Delivered
    <2>2. /\ \A x \in Buses : Fits(u, x, bus) => Fits(r, x, bus)
          /\ \A x \in {"log", "platform"} :
                     Fits(u, x, bus) => Range(r.rx[x].q) \subseteq Range(u.rx[x].q)
          /\ Fits(u, BusOf(e), bus) => e \in Range(u.rx[BusOf(e)].q)
      BY <1>1, <1>2, Keeps
    <2>3. WatchTrue(r, bus, half, owed, sweep, wrec)
      BY DEF WatchersTrue
    <2>4. u = watch'[w]
      BY <1>3
    <2> HIDE DEF r, u
    <2>5. ASSUME NEW x \in {"log", "platform"}, Fits(u, x, bus) PROVE Has(r, x) \subseteq Has(u, x)
      BY <2>1, <2>2, <2>5 DEF Has
    <2>6. Fits(u, BusOf(e), bus) => e \in Has(u, BusOf(e))
      BY <2>2 DEF Has
    <2>7. TailsTrue(u, bus)
      BY <2>1, <2>2, <2>3, <2>5 DEF TailsTrue, WatchTrue, Buses
    <2>8. u.pc \in Subscribers => \A x \in Publishers : HalfTrue(u, bus, half'[x])
      <3> SUFFICES ASSUME u.pc \in Subscribers, NEW x \in Publishers, half'[x] # NoLine, Fits(u, BusOf(half'[x]), bus)
                   PROVE  half'[x] \in Has(u, BusOf(half'[x]))
        BY DEF HalfTrue
      <3>1. CASE x = p
        BY <1>1, <1>3, <2>6, <3>1
      <3>2. CASE x # p
        <4>1. half'[x] = half[x]
          BY <1>1, <1>3, <3>2
        <4>2. BusOf(half[x]) \in {"log", "platform"} /\ BusOf(half[x]) \in Buses
          BY DEF BusOf, Buses
        <4> QED BY <2>1, <2>2, <2>3, <2>5, <4>1, <4>2 DEF WatchTrue, HalfTrue
      <3> QED BY <3>1, <3>2
    <2>9. u.pc \in {"tail", "events", "loop"} => SeenTrue(u, bus, owed, sweep, wrec)
      BY <1>2, <2>1, <2>2, <2>3 DEF WatchTrue, SeenTrue, Buses
    <2>10. \A b \in Buses : u.rx[b].gen <= bus[b].gen
      BY <2>1, <2>3 DEF WatchTrue
    <2> QED BY <2>1, <2>4, <2>7, <2>8, <2>9, <2>10 DEF WatchTrue
  <1>5. watch' \in [Watchers -> WatchRecs]
    BY <1>1, <1>3, <1>4 DEF Deliver
  <1> QED BY <1>4, <1>5

LEMMA RangeOfAppend ==
    ASSUME NEW S, NEW s \in Seq(S), NEW e \in S
    PROVE  Range(Append(s, e)) = Range(s) \cup {e}
  <1>1. DOMAIN s = 1..Len(s) /\ DOMAIN Append(s, e) = 1..(Len(s) + 1) /\ Len(s) \in Nat
    OBVIOUS
  <1>2. Append(s, e)[Len(s) + 1] = e /\ \A i \in 1..Len(s) : Append(s, e)[i] = s[i]
    OBVIOUS
  <1> DEFINE t == Append(s, e)
  <1>3. DOMAIN t = 1..(Len(s) + 1) /\ t[Len(s) + 1] = e /\ \A i \in 1..Len(s) : t[i] = s[i]
    BY <1>1, <1>2
  <1> HIDE DEF t
  <1>4. \A i \in DOMAIN t : t[i] \in Range(t)
    BY DEF Range
  <1>5. e \in Range(t)
    BY <1>1, <1>3, <1>4
  <1>6. Range(s) \subseteq Range(t)
    BY <1>1, <1>3 DEF Range
  <1>7. \A i \in DOMAIN t : i \in DOMAIN s \/ i = Len(s) + 1
    BY <1>1, <1>3
  <1>8. Range(t) \subseteq Range(s) \cup {e}
    BY <1>1, <1>3, <1>7 DEF Range
  <1> QED BY <1>5, <1>6, <1>8 DEF t

\* A line that is being published goes to the tail, and the oldest may leave it.
LEMMA Appends ==
    ASSUME StreamTypes, WatchersTrue, NEW p \in Publishers, AppendTail(p)
    PROVE  /\ bus' \in [Buses -> [gen : 1..3, tail : Seq(Lines)]]
           /\ \A b \in Buses : bus'[b].gen = bus[b].gen
           /\ \A b \in Buses : Len(bus'[b].tail) <= TailCap \/ bus'[b] = bus[b]
           /\ half[p] \in Lines
           /\ \A b \in Buses : b # BusOf(half[p]) => bus'[b] = bus[b]
           /\ bus'[BusOf(half[p])].tail = LastOf(Append(bus[BusOf(half[p])].tail, half[p]), TailCap)
           /\ \A b \in Buses : \A l \in Range(bus'[b].tail) : l \in Range(bus[b].tail) \/ (l = half[p] /\ b = BusOf(half[p]))
           /\ half' = [half EXCEPT ![p] = NoLine]
           /\ \A w \in Watchers : WatchTrue(watch[w], bus', half', owed, sweep, wrec)
  <1> USE StreamAssumption
  <1>1. bus \in [Buses -> [gen : 1..3, tail : Seq(Lines)]] /\ half \in [Publishers -> Lines \cup {NoLine}]
    BY DEF StreamTypes
  <1> DEFINE h == half[p]
             b == BusOf(h)
             t == Append(bus[b].tail, h)
             k == LastOf(t, TailCap)
  <1>2. h \in Lines /\ h # NoLine /\ b \in {"log", "platform"} /\ b \in Buses /\ b # "status"
    BY <1>1 DEF AppendTail, BusOf, Buses
  <1>3. t \in Seq(Lines)
    BY <1>1, <1>2
  <1>4. k \in Seq(Lines) /\ Len(k) <= TailCap /\ Range(k) \subseteq Range(t)
    BY <1>3, LastOfIs
  <1>5. Range(t) = Range(bus[b].tail) \cup {h}
    <2> HIDE DEF h, b
    <2>1. bus[b].tail \in Seq(Lines)
      BY <1>1, <1>2
    <2> QED BY <1>2, <2>1, RangeOfAppend
  <1>6. bus' = [bus EXCEPT ![b].tail = k] /\ half' = [half EXCEPT ![p] = NoLine] /\ watch' = watch
    BY DEF AppendTail
  <1> HIDE DEF k, t, b, h
  <1>7. bus'[b] = [bus[b] EXCEPT !.tail = k] /\ \A x \in Buses : x # b => bus'[x] = bus[x]
    BY <1>1, <1>2, <1>6
  <1>8. bus'[b] \in [gen : 1..3, tail : Seq(Lines)] /\ bus'[b].gen = bus[b].gen /\ bus'[b].tail = k
    BY <1>1, <1>2, <1>4, <1>7
  <1>9. bus' \in [Buses -> [gen : 1..3, tail : Seq(Lines)]]
    BY <1>1, <1>2, <1>6, <1>8
  <1>10. \A x \in Buses : \A l \in Range(bus'[x].tail) : l \in Range(bus[x].tail) \/ (l = h /\ x = b)
    BY <1>4, <1>5, <1>7, <1>8
  <1>11. \A x \in Buses : bus'[x].gen = bus[x].gen
    BY <1>7, <1>8
  <1>12. ASSUME NEW w \in Watchers PROVE WatchTrue(watch[w], bus', half', owed, sweep, wrec)
    <2> DEFINE r == watch[w]
    <2>1. WatchTrue(r, bus, half, owed, sweep, wrec)
      BY DEF WatchersTrue
    <2> HIDE DEF r
    <2>2. \A x \in Buses : Fits(r, x, bus') = Fits(r, x, bus)
      BY <1>11 DEF Fits
    <2>3. \A x \in Publishers : half'[x] = NoLine \/ half'[x] = half[x]
      BY <1>1, <1>6
    <2>4. \A x \in Publishers : BusOf(half[x]) \in Buses
      BY DEF BusOf, Buses
    <2>5. \A x \in Buses : r.rx[x].gen <= bus'[x].gen
      BY <1>11, <2>1 DEF WatchTrue
    <2>6. SeenTrue(r, bus, owed, sweep, wrec) => SeenTrue(r, bus', owed, sweep, wrec)
      BY <2>2 DEF SeenTrue, Buses
    <2>7. r.pc \in Subscribers => \A x \in Publishers : HalfTrue(r, bus', half'[x])
      BY <2>1, <2>2, <2>3, <2>4 DEF WatchTrue, HalfTrue
    <2>8. r.pc \in Subscribers /\ Fits(r, b, bus) => h \in Has(r, b)
      BY <1>2, <2>1 DEF WatchTrue, HalfTrue, h, b
    <2>9. ASSUME NEW x \in {"log", "platform"}, r.pc \in Subscribers, Fits(r, x, bus'),
                 Fits(r, x, bus) => Range(bus[x].tail) \subseteq Has(r, x)
          PROVE  Range(bus'[x].tail) \subseteq Has(r, x)
      BY <1>10, <2>2, <2>8, <2>9 DEF Buses
    <2>10. TailsTrue(r, bus')
      BY <2>1, <2>9 DEF TailsTrue, WatchTrue, Subscribers
    <2> QED BY <2>1, <2>5, <2>6, <2>7, <2>10 DEF WatchTrue, r
  <1>13. \A x \in Buses : Len(bus'[x].tail) <= TailCap \/ bus'[x] = bus[x]
    BY <1>4, <1>7, <1>8
  <1> QED BY <1>2, <1>4, <1>6, <1>7, <1>8, <1>9, <1>10, <1>11, <1>12, <1>13 DEF h, b, k, t

\* The sandbox record.
LEMMA RecordSteps ==
    ASSUME StreamTypes, WatchersTrue, DeleteRecord \/ \E ready \in BOOLEAN : WriteRecord(ready)
    PROVE  \A w \in Watchers : WatchTrue(watch[w], bus, half, owed', sweep', wrec')
  <1>1. owed \in Nat
    BY StreamAssumption DEF StreamTypes
  <1>2. owed' # 0 \/ sweep' = "due"
    BY <1>1 DEF DeleteRecord, WriteRecord
  <1> QED BY <1>2 DEF WatchersTrue, WatchTrue, SeenTrue

LEMMA Notified ==
    ASSUME StreamTypes, WatchersTrue, NEW ow, NEW sw, watch' = Deliver(watch, "status", NoLine)
    PROVE  /\ watch' \in [Watchers -> WatchRecs]
           /\ \A w \in Watchers : WatchTrue(watch'[w], bus, half, ow, sw, wrec)
  <1> USE StreamAssumption
  <1>1. watch \in [Watchers -> WatchRecs] /\ bus \in [Buses -> [gen : 1..3, tail : Seq(Lines)]] /\ NoLine \in Events
        /\ "status" \in Buses
    BY DEF StreamTypes, Events, Buses
  <1>2. ASSUME NEW w \in Watchers
        PROVE  watch'[w] \in WatchRecs /\ WatchTrue(watch'[w], bus, half, ow, sw, wrec)
    <2> DEFINE r == watch[w]
               u == Deliver(watch, "status", NoLine)[w]
    <2>1. /\ u \in WatchRecs
          /\ u.pc = r.pc /\ u.seen = r.seen /\ u.out = r.out /\ u.excused = r.excused
          /\ \A x \in Buses : u.rx[x].gen = r.rx[x].gen /\ (u.rx[x].q # r.rx[x].q => x = "status")
                              /\ (~u.rx[x].lagged => ~r.rx[x].lagged)
      BY <1>1, Delivered
    <2>2. /\ \A x \in Buses : Fits(u, x, bus) => Fits(r, x, bus)
          /\ Fits(u, "status", bus) => u.rx["status"].q # <<>>
      BY <1>1, Keeps
    <2>3. WatchTrue(r, bus, half, owed, sweep, wrec)
      BY DEF WatchersTrue
    <2>4. u = watch'[w]
      OBVIOUS
    <2> HIDE DEF r, u
    <2>5. \A x \in {"log", "platform"} : Has(r, x) = Has(u, x)
      BY <2>1 DEF Has, Buses
    <2>6. SeenTrue(u, bus, ow, sw, wrec)
      BY <2>2 DEF SeenTrue
    <2>7. \A x \in Publishers : BusOf(half[x]) \in Buses /\ BusOf(half[x]) \in {"log", "platform"}
      BY DEF BusOf, Buses
    <2>8. u.pc \in Subscribers => \A x \in Publishers : HalfTrue(u, bus, half[x])
      BY <2>1, <2>2, <2>3, <2>5, <2>7 DEF WatchTrue, HalfTrue
    <2>9. TailsTrue(u, bus)
      BY <2>1, <2>2, <2>3, <2>5 DEF WatchTrue, TailsTrue, Buses
    <2>10. \A b \in Buses : u.rx[b].gen <= bus[b].gen
      BY <2>1, <2>3 DEF WatchTrue
    <2> QED BY <2>1, <2>4, <2>6, <2>8, <2>9, <2>10 DEF WatchTrue
  <1>3. watch' \in [Watchers -> WatchRecs]
    BY <1>1, <1>2 DEF Deliver
  <1> QED BY <1>2, <1>3

\* Buses of a new generation promise the receivers of the old one nothing.
LEMMA Renewed ==
    ASSUME NEW r \in WatchRecs, NEW hf, NEW ow, NEW sw, NEW rec, NEW bs \in [Buses -> [gen : 1..3, tail : Seq(Lines)]],
           NEW new, \A b \in Buses : new[b].gen = bs[b].gen + 1,
           \A b \in Buses : r.rx[b].gen <= bs[b].gen
    PROVE  WatchTrue(r, new, hf, ow, sw, rec)
  <1>1. \A b \in Buses : r.rx[b].gen \in 0..3
    BY DEF WatchRecs, RxRecs
  <1>m. \A b \in Buses : bs[b].gen \in 1..3
    OBVIOUS
  <1>2. ASSUME NEW b \in Buses PROVE r.rx[b].gen # new[b].gen /\ r.rx[b].gen <= new[b].gen
    <2>1. r.rx[b].gen \in 0..3 /\ bs[b].gen \in 1..3 /\ new[b].gen = bs[b].gen + 1 /\ r.rx[b].gen <= bs[b].gen
      BY <1>1, <1>m
    <2> DEFINE x == r.rx[b].gen
               y == bs[b].gen
               z == new[b].gen
    <2>2. x \in 0..3 /\ y \in 1..3 /\ z = y + 1 /\ x <= y
      BY <2>1
    <2> HIDE DEF x, y, z
    <2>3. x # z /\ x <= z
      BY <2>2
    <2> QED BY <2>3 DEF x, z
  <1>3. \A b \in Buses : ~Fits(r, b, new)
    BY <1>2 DEF Fits
  <1>4. \A x : BusOf(x) \in Buses
    BY DEF BusOf, Buses
  <1> QED BY <1>2, <1>3, <1>4 DEF WatchTrue, SeenTrue, HalfTrue, TailsTrue, Buses

\* A step of one watcher: its record is another one, of the same kind.
LEMMA OneWatcher ==
    ASSUME StreamTypes, WatchersTrue, NEW w \in Watchers, NEW u \in WatchRecs,
           WatchTrue(u, bus, half, owed, sweep, wrec), watch' = [watch EXCEPT ![w] = u]
    PROVE  /\ watch' \in [Watchers -> WatchRecs]
           /\ \A v \in Watchers : WatchTrue(watch'[v], bus, half, owed, sweep, wrec)
  <1>1. watch \in [Watchers -> WatchRecs]
    BY DEF StreamTypes
  <1>2. \A v \in Watchers : watch'[v] = u \/ watch'[v] = watch[v]
    BY <1>1
  <1> QED BY <1>1, <1>2 DEF WatchersTrue

LEMMA Ended ==
    ASSUME StreamTypes, WatchersTrue, NEW w \in Watchers, WatchEnds(w)
    PROVE  /\ watch' \in [Watchers -> WatchRecs]
           /\ \A v \in Watchers : WatchTrue(watch'[v], bus, half, owed, sweep, wrec)
  <1> DEFINE u == [NoWatch EXCEPT !.pc = "done"]
  <1>1. NoReceiver \in RxRecs /\ NoReceiver.gen = 0
    <2>1. <<>> \in Seq(Lines \cup {NoLine})
      OBVIOUS
    <2> QED BY <2>1 DEF NoReceiver, RxRecs
  <1> DEFINE x == [b \in Buses |-> NoReceiver]
  <1>m. x \in [Buses -> RxRecs] /\ \A b \in Buses : x[b].gen = 0
    BY <1>1
  <1>n. NoWatch = [pc |-> "idle", stop |-> FALSE, seen |-> 0, out |-> {}, excused |-> {}, rx |-> x]
    BY DEF NoWatch
  <1> HIDE DEF x
  <1>2. NoWatch \in WatchRecs /\ NoWatch.rx = x
    BY <1>m, <1>n, StreamAssumption DEF WatchRecs
  <1>3. u \in WatchRecs /\ u.pc = "done" /\ \A b \in Buses : u.rx[b].gen = 0
    BY <1>m, <1>2 DEF WatchRecs
  <1>4. watch' = [watch EXCEPT ![w] = u]
    BY DEF WatchEnds
  <1>5. \A b \in Buses : bus[b].gen \in 1..3
    BY DEF StreamTypes
  <1> HIDE DEF u
  <1>6. WatchTrue(u, bus, half, owed, sweep, wrec)
    BY <1>3, <1>5 DEF WatchTrue, TailsTrue, Subscribers
  <1> QED BY <1>3, <1>4, <1>6, OneWatcher

\* The steps of a watcher that do not end it, one by one.
LEMMA Validated ==
    ASSUME StreamTypes, WatchersTrue, NEW w \in Watchers, NEW stop \in BOOLEAN, WatchValidate(w, stop)
    PROVE  /\ watch' \in [Watchers -> WatchRecs]
           /\ \A v \in Watchers : WatchTrue(watch'[v], bus, half, owed, sweep, wrec)
  <1> DEFINE r == watch[w]
             u == [r EXCEPT !.pc = "subscribe", !.stop = stop]
  <1>1. r \in WatchRecs /\ WatchTrue(r, bus, half, owed, sweep, wrec)
    BY DEF StreamTypes, WatchersTrue
  <1>2. WatchEnds(w) \/ watch' = [watch EXCEPT ![w] = u]
    BY DEF WatchValidate, StreamTypes
  <1> HIDE DEF r
  <1>3. u \in WatchRecs /\ u.pc = "subscribe" /\ u.rx = r.rx
    BY <1>1 DEF WatchRecs
  <1> HIDE DEF u
  <1>4. WatchTrue(u, bus, half, owed, sweep, wrec)
    BY <1>1, <1>3 DEF WatchTrue, TailsTrue, Subscribers
  <1> QED BY <1>2, <1>3, <1>4, OneWatcher, Ended

LEMMA SubscribedTo ==
    ASSUME StreamTypes, WatchersTrue, NEW w \in Watchers, WatchSubscribe(w)
    PROVE  /\ watch' \in [Watchers -> WatchRecs]
           /\ \A v \in Watchers : WatchTrue(watch'[v], bus, half, owed, sweep, wrec)
  <1> DEFINE r == watch[w]
             x == [b \in Buses |-> Subscribed(b)]
             u == [r EXCEPT !.pc = "snapshot", !.rx = x, !.excused = HalfDone]
  <1>1. r \in WatchRecs /\ bus \in [Buses -> [gen : 1..3, tail : Seq(Lines)]] /\ half \in [Publishers -> Lines \cup {NoLine}]
    BY DEF StreamTypes
  <1>2. watch' = [watch EXCEPT ![w] = u]
    BY DEF WatchSubscribe, StreamTypes
  <1>3. ASSUME NEW b \in Buses PROVE Subscribed(b) \in RxRecs /\ Subscribed(b).gen = bus[b].gen
    <2>1. <<>> \in Seq(Lines \cup {NoLine}) /\ bus[b].gen \in 0..3
      BY <1>1
    <2> QED BY <2>1 DEF Subscribed, RxRecs
  <1>4. x \in [Buses -> RxRecs] /\ \A b \in Buses : x[b].gen = bus[b].gen
    BY <1>3
  <1>5. HalfDone \subseteq Lines /\ \A p \in Publishers : half[p] # NoLine => half[p] \in HalfDone
    BY <1>1 DEF HalfDone
  <1> HIDE DEF r, x
  <1>6. u \in WatchRecs /\ u.pc = "snapshot" /\ u.rx = x /\ u.excused = HalfDone
    BY <1>1, <1>4, <1>5 DEF WatchRecs
  <1> HIDE DEF u
  <1>7. \A p \in Publishers : HalfTrue(u, bus, half[p])
    BY <1>5, <1>6 DEF HalfTrue, Has
  <1>8. \A b \in Buses : u.rx[b].gen <= bus[b].gen
    <2>1. \A b \in Buses : bus[b].gen \in 1..3
      BY <1>1
    <2> QED BY <1>4, <1>6, <2>1
  <1>9. WatchTrue(u, bus, half, owed, sweep, wrec)
    BY <1>6, <1>7, <1>8 DEF WatchTrue, TailsTrue, Subscribers
  <1> QED BY <1>2, <1>6, <1>9, OneWatcher

LEMMA SnapshotRead ==
    ASSUME StreamTypes, WatchersTrue, NEW w \in Watchers, WatchSnapshot(w)
    PROVE  /\ watch' \in [Watchers -> WatchRecs]
           /\ \A v \in Watchers : WatchTrue(watch'[v], bus, half, owed, sweep, wrec)
  <1> DEFINE r == watch[w]
             u == [r EXCEPT !.pc = "tail", !.seen = wrec.ver]
  <1>1. r \in WatchRecs /\ WatchTrue(r, bus, half, owed, sweep, wrec) /\ wrec.ver \in 0..MaxRecVer /\ r.pc = "snapshot"
    BY DEF StreamTypes, WatchersTrue, WatchSnapshot
  <1>2. WatchEnds(w) \/ watch' = [watch EXCEPT ![w] = u]
    BY DEF WatchSnapshot, StreamTypes
  <1> HIDE DEF r
  <1>3. u \in WatchRecs /\ u.pc = "tail" /\ u.rx = r.rx /\ u.seen = wrec.ver /\ u.out = r.out /\ u.excused = r.excused
    BY <1>1 DEF WatchRecs
  <1> HIDE DEF u
  <1>4. WatchTrue(u, bus, half, owed, sweep, wrec)
    BY <1>1, <1>3 DEF WatchTrue, TailsTrue, SeenTrue, Subscribers, HalfTrue, Fits, Has
  <1> QED BY <1>2, <1>3, <1>4, OneWatcher, Ended

LEMMA TailRead ==
    ASSUME StreamTypes, WatchersTrue, NEW w \in Watchers, WatchTail(w)
    PROVE  /\ watch' \in [Watchers -> WatchRecs]
           /\ \A v \in Watchers : WatchTrue(watch'[v], bus, half, owed, sweep, wrec)
  <1> DEFINE r == watch[w]
             t == bus["log"].tail
             k == LastOf(t, TailWanted)
             o == r.out \cup Range(k)
             x == r.excused \cup (Range(t) \ Range(k))
             u == [r EXCEPT !.pc = "events", !.out = o, !.excused = x]
  <1>1. r \in WatchRecs /\ WatchTrue(r, bus, half, owed, sweep, wrec) /\ r.pc = "tail" /\ t \in Seq(Lines)
    BY DEF StreamTypes, WatchersTrue, WatchTail, Buses
  <1>2. watch' = [watch EXCEPT ![w] = u]
    BY DEF WatchTail, StreamTypes
  <1>3. Range(t) \subseteq Lines
    BY <1>1 DEF Range
  <1>4. Range(k) \subseteq Lines
    BY <1>1, <1>3, LastOfIs, StreamAssumption
  <1> HIDE DEF r, t, k
  <1>5. o \subseteq Lines \cup {NoLine} /\ x \subseteq Lines /\ Range(t) \subseteq o \cup x /\ r.out \subseteq o /\ r.excused \subseteq x
    BY <1>1, <1>3, <1>4 DEF WatchRecs
  <1> HIDE DEF o, x
  <1>6. u \in WatchRecs /\ u.pc = "events" /\ u.rx = r.rx /\ u.seen = r.seen /\ u.out = o /\ u.excused = x
    BY <1>1, <1>5 DEF WatchRecs
  <1> HIDE DEF u
  <1>7. \A b \in Buses : Fits(u, b, bus) = Fits(r, b, bus) /\ Has(r, b) \subseteq Has(u, b)
    BY <1>5, <1>6 DEF Fits, Has
  <1>8. TailsTrue(u, bus)
    BY <1>5, <1>6 DEF TailsTrue, Has, t
  <1>9. \A p \in Publishers : HalfTrue(u, bus, half[p])
    <2>1. \A p : BusOf(p) \in Buses
      BY DEF BusOf, Buses
    <2> QED BY <1>1, <1>7, <2>1 DEF WatchTrue, HalfTrue, Subscribers
  <1>10. SeenTrue(u, bus, owed, sweep, wrec) /\ \A b \in Buses : u.rx[b].gen <= bus[b].gen
    BY <1>1, <1>6 DEF WatchTrue, SeenTrue, Fits
  <1>11. WatchTrue(u, bus, half, owed, sweep, wrec)
    BY <1>8, <1>9, <1>10 DEF WatchTrue
  <1> QED BY <1>2, <1>6, <1>11, OneWatcher

LEMMA EventsRead ==
    ASSUME StreamTypes, WatchersTrue, Bounded, NEW w \in Watchers, WatchEvents(w)
    PROVE  /\ watch' \in [Watchers -> WatchRecs]
           /\ \A v \in Watchers : WatchTrue(watch'[v], bus, half, owed, sweep, wrec)
  <1> DEFINE r == watch[w]
             t == bus["platform"].tail
             o == r.out \cup Range(LastOf(t, TailCap))
             u == [r EXCEPT !.pc = "loop", !.out = o]
  <1>1. r \in WatchRecs /\ WatchTrue(r, bus, half, owed, sweep, wrec) /\ r.pc = "events" /\ t \in Seq(Lines)
        /\ Len(t) <= TailCap
    BY DEF StreamTypes, WatchersTrue, WatchEvents, Buses, Bounded
  <1>2. watch' = [watch EXCEPT ![w] = u]
    BY DEF WatchEvents, StreamTypes
  <1>3. Range(t) \subseteq Lines
    BY <1>1 DEF Range
  <1>4. LastOf(t, TailCap) = t
    BY <1>1, LastOfIs, StreamAssumption
  <1> HIDE DEF r, t
  <1>5. o \subseteq Lines \cup {NoLine} /\ Range(t) \subseteq o /\ r.out \subseteq o
    BY <1>1, <1>3, <1>4 DEF WatchRecs
  <1> HIDE DEF o
  <1>6. u \in WatchRecs /\ u.pc = "loop" /\ u.rx = r.rx /\ u.seen = r.seen /\ u.out = o /\ u.excused = r.excused
    BY <1>1, <1>5 DEF WatchRecs
  <1> HIDE DEF u
  <1>7. \A b \in Buses : Fits(u, b, bus) = Fits(r, b, bus) /\ Has(r, b) \subseteq Has(u, b)
    BY <1>5, <1>6 DEF Fits, Has
  <1>8. TailsTrue(u, bus)
    BY <1>1, <1>5, <1>6, <1>7 DEF WatchTrue, TailsTrue, Has, t, Buses
  <1>9. \A p \in Publishers : HalfTrue(u, bus, half[p])
    <2>1. \A p : BusOf(p) \in Buses
      BY DEF BusOf, Buses
    <2> QED BY <1>1, <1>7, <2>1 DEF WatchTrue, HalfTrue, Subscribers
  <1>10. SeenTrue(u, bus, owed, sweep, wrec) /\ \A b \in Buses : u.rx[b].gen <= bus[b].gen
    BY <1>1, <1>6 DEF WatchTrue, SeenTrue, Fits
  <1>11. WatchTrue(u, bus, half, owed, sweep, wrec)
    BY <1>8, <1>9, <1>10 DEF WatchTrue
  <1> QED BY <1>2, <1>6, <1>11, OneWatcher

LEMMA RangeOfTail ==
    ASSUME NEW S, NEW s \in Seq(S), s # <<>>
    PROVE  /\ Head(s) \in S /\ Tail(s) \in Seq(S) /\ Len(Tail(s)) = Len(s) - 1 /\ Head(s) = s[1] /\ 1 \in DOMAIN s
           /\ \A i \in DOMAIN Tail(s) : i + 1 \in DOMAIN s /\ Tail(s)[i] = s[i + 1]
           /\ Range(s) = {Head(s)} \cup Range(Tail(s))
  <1>1. DOMAIN s = 1..Len(s) /\ Len(s) \in Nat /\ Len(s) # 0
    OBVIOUS
  <1>2. Head(s) \in S /\ Tail(s) \in Seq(S) /\ Len(Tail(s)) = Len(s) - 1 /\ Head(s) = s[1]
    OBVIOUS
  <1>3. DOMAIN Tail(s) = 1..(Len(s) - 1) /\ \A i \in 1..(Len(s) - 1) : Tail(s)[i] = s[i + 1]
    OBVIOUS
  <1> DEFINE t == Tail(s)
  <1>4. DOMAIN t = 1..(Len(s) - 1) /\ \A i \in 1..(Len(s) - 1) : t[i] = s[i + 1]
    BY <1>3
  <1> HIDE DEF t
  <1>5. 1 \in DOMAIN s /\ \A i \in DOMAIN t : i + 1 \in DOMAIN s /\ t[i] = s[i + 1]
    BY <1>1, <1>4
  <1>6. \A i \in DOMAIN s : i = 1 \/ (i - 1 \in DOMAIN t /\ t[i - 1] = s[i])
    BY <1>1, <1>4
  <1>7. Range(t) \subseteq Range(s) /\ s[1] \in Range(s)
    BY <1>5 DEF Range
  <1>8. \A i \in DOMAIN s : s[i] = s[1] \/ s[i] \in Range(t)
    BY <1>6 DEF Range
  <1>9. Range(s) \subseteq {s[1]} \cup Range(t)
    BY <1>8 DEF Range
  <1> QED BY <1>2, <1>5, <1>7, <1>9 DEF t

LEMMA StatusRead ==
    ASSUME StreamTypes, WatchersTrue, NEW w \in Watchers, WatchStatus(w)
    PROVE  /\ watch' \in [Watchers -> WatchRecs]
           /\ \A v \in Watchers : WatchTrue(watch'[v], bus, half, owed, sweep, wrec)
  <1> DEFINE r == watch[w]
             u == [r EXCEPT !.seen = wrec.ver, !.rx["status"].q = Tail(@)]
  <1>1. r \in WatchRecs /\ WatchTrue(r, bus, half, owed, sweep, wrec) /\ wrec.ver \in 0..MaxRecVer /\ r.pc = "loop"
        /\ r.rx["status"].q # <<>>
    BY DEF StreamTypes, WatchersTrue, WatchStatus, Receivable
  <1>2. WatchEnds(w) \/ watch' = [watch EXCEPT ![w] = u]
    BY DEF WatchStatus, StreamTypes
  <1> HIDE DEF r
  <1> DEFINE v == [r.rx["status"] EXCEPT !.q = Tail(@)]
  <1>3. r.rx \in [Buses -> RxRecs] /\ "status" \in Buses /\ r.rx["status"] \in RxRecs
    BY <1>1 DEF WatchRecs, Buses
  <1>m. Tail(r.rx["status"].q) \in Seq(Lines \cup {NoLine})
    BY <1>1, <1>3 DEF RxRecs
  <1>4. v \in RxRecs /\ v.gen = r.rx["status"].gen /\ v.lagged = r.rx["status"].lagged
    BY <1>3, <1>m DEF RxRecs
  <1>5. u = [r EXCEPT !.seen = wrec.ver, !.rx = [r.rx EXCEPT !["status"] = v]]
    BY <1>1, <1>3 DEF WatchRecs
  <1> HIDE DEF v
  <1>n. [r.rx EXCEPT !["status"] = v] \in [Buses -> RxRecs]
    BY <1>3, <1>4
  <1>6. u \in WatchRecs /\ u.pc = "loop" /\ u.rx = [r.rx EXCEPT !["status"] = v] /\ u.seen = wrec.ver
        /\ u.out = r.out /\ u.excused = r.excused
    BY <1>1, <1>5, <1>n DEF WatchRecs
  <1> HIDE DEF u
  <1>7. /\ \A b \in Buses : u.rx[b].gen = r.rx[b].gen /\ u.rx[b].lagged = r.rx[b].lagged
        /\ \A b \in {"log", "platform"} : u.rx[b] = r.rx[b]
    BY <1>3, <1>4, <1>6 DEF Buses
  <1>8. /\ \A b \in Buses : Fits(u, b, bus) = Fits(r, b, bus)
        /\ \A b \in {"log", "platform"} : Has(u, b) = Has(r, b)
    BY <1>6, <1>7 DEF Fits, Has
  <1>9. \A p : BusOf(p) \in Buses /\ BusOf(p) \in {"log", "platform"}
    BY DEF BusOf, Buses
  <1>10. (\A p \in Publishers : HalfTrue(u, bus, half[p])) /\ TailsTrue(u, bus)
    BY <1>1, <1>8, <1>9 DEF WatchTrue, HalfTrue, TailsTrue, Subscribers, Buses
  <1>11. SeenTrue(u, bus, owed, sweep, wrec) /\ \A b \in Buses : u.rx[b].gen <= bus[b].gen
    BY <1>1, <1>6, <1>7 DEF WatchTrue, SeenTrue
  <1>12. WatchTrue(u, bus, half, owed, sweep, wrec)
    BY <1>10, <1>11 DEF WatchTrue
  <1> QED BY <1>2, <1>6, <1>12, OneWatcher, Ended

LEMMA LinePassed ==
    ASSUME StreamTypes, WatchersTrue, NEW w \in Watchers, NEW b \in {"log", "platform"}, WatchLine(w, b)
    PROVE  /\ watch' \in [Watchers -> WatchRecs]
           /\ \A v \in Watchers : WatchTrue(watch'[v], bus, half, owed, sweep, wrec)
  <1> DEFINE r == watch[w]
             o == r.out \cup {Head(r.rx[b].q)}
             u == [r EXCEPT !.rx[b].q = Tail(@), !.out = o]
  <1>1. r \in WatchRecs /\ WatchTrue(r, bus, half, owed, sweep, wrec) /\ r.pc = "loop" /\ r.rx[b].q # <<>>
    BY DEF StreamTypes, WatchersTrue, WatchLine, Receivable
  <1>2. watch' = [watch EXCEPT ![w] = u]
    BY DEF WatchLine, StreamTypes
  <1> HIDE DEF r
  <1> DEFINE v == [r.rx[b] EXCEPT !.q = Tail(@)]
  <1>3. r.rx \in [Buses -> RxRecs] /\ b \in Buses /\ r.rx[b] \in RxRecs
    BY <1>1 DEF WatchRecs, Buses
  <1>m. r.rx[b].q \in Seq(Lines \cup {NoLine})
    BY <1>3 DEF RxRecs
  <1>k. /\ Tail(r.rx[b].q) \in Seq(Lines \cup {NoLine}) /\ Head(r.rx[b].q) \in Lines \cup {NoLine}
        /\ Range(r.rx[b].q) = {Head(r.rx[b].q)} \cup Range(Tail(r.rx[b].q))
    BY <1>1, <1>m, RangeOfTail
  <1>4. v \in RxRecs /\ v.gen = r.rx[b].gen /\ v.lagged = r.rx[b].lagged /\ v.q = Tail(r.rx[b].q)
    BY <1>3, <1>k DEF RxRecs
  <1>l. o \subseteq Lines \cup {NoLine} /\ r.out \subseteq o /\ Range(r.rx[b].q) \subseteq o \cup Range(v.q)
    BY <1>1, <1>k, <1>4 DEF WatchRecs
  <1> HIDE DEF o
  <1>5. u = [r EXCEPT !.out = o, !.rx = [r.rx EXCEPT ![b] = v]]
    BY <1>1, <1>3 DEF WatchRecs
  <1> HIDE DEF v
  <1>n. [r.rx EXCEPT ![b] = v] \in [Buses -> RxRecs]
    BY <1>3, <1>4
  <1>6. u \in WatchRecs /\ u.pc = "loop" /\ u.rx = [r.rx EXCEPT ![b] = v] /\ u.seen = r.seen
        /\ u.out = o /\ u.excused = r.excused
    BY <1>1, <1>l, <1>5, <1>n DEF WatchRecs
  <1> HIDE DEF u
  <1>7. /\ \A x \in Buses : u.rx[x].gen = r.rx[x].gen /\ u.rx[x].lagged = r.rx[x].lagged
        /\ \A x \in Buses : x # b => u.rx[x] = r.rx[x]
        /\ u.rx[b] = v
    BY <1>3, <1>4, <1>6
  <1>8. /\ \A x \in Buses : Fits(u, x, bus) = Fits(r, x, bus)
        /\ \A x \in Buses : Has(r, x) \subseteq Has(u, x)
    BY <1>l, <1>6, <1>7 DEF Fits, Has
  <1>b. "log" \in Buses /\ "platform" \in Buses
    BY DEF Buses
  <1>9. \A p : BusOf(p) \in Buses
    BY DEF BusOf, Buses
  <1>10. (\A p \in Publishers : HalfTrue(u, bus, half[p])) /\ TailsTrue(u, bus)
    BY <1>1, <1>8, <1>9, <1>b DEF WatchTrue, HalfTrue, TailsTrue, Subscribers
  <1>11. SeenTrue(u, bus, owed, sweep, wrec) /\ \A x \in Buses : u.rx[x].gen <= bus[x].gen
    <2>1. u.rx["status"] = r.rx["status"] /\ "status" \in Buses
      BY <1>7 DEF Buses
    <2> QED BY <1>1, <1>6, <1>7, <1>8, <2>1 DEF WatchTrue, SeenTrue
  <1>12. WatchTrue(u, bus, half, owed, sweep, wrec)
    BY <1>10, <1>11 DEF WatchTrue
  <1> QED BY <1>2, <1>6, <1>12, OneWatcher

\* A watcher's step, whichever it is.
LEMMA WatcherStep ==
    ASSUME StreamTypes, WatchersTrue, Bounded, NEW w \in Watchers, WatchNext(w)
    PROVE  /\ UNCHANGED <<wrec, owed, sweep, bus, source, half, layer, pusher, calls>>
           /\ watch' \in [Watchers -> WatchRecs]
           /\ \A v \in Watchers : WatchTrue(watch'[v], bus, half, owed, sweep, wrec)
  <1>1. CASE \E stop \in BOOLEAN : WatchValidate(w, stop)
    BY <1>1, Validated DEF WatchValidate, Frame
  <1>2. CASE WatchSubscribe(w)
    BY <1>2, SubscribedTo DEF WatchSubscribe, Frame
  <1>3. CASE WatchSnapshot(w)
    BY <1>3, SnapshotRead DEF WatchSnapshot, Frame
  <1>4. CASE WatchTail(w)
    BY <1>4, TailRead DEF WatchTail, Frame
  <1>5. CASE WatchEvents(w)
    BY <1>5, EventsRead DEF WatchEvents, Frame
  <1>6. CASE WatchStatus(w)
    BY <1>6, StatusRead DEF WatchStatus, Frame
  <1>7. CASE WatchLeaves(w)
    BY <1>7, Ended DEF WatchLeaves, Frame
  <1>8. CASE \E b \in {"log", "platform"} : WatchLine(w, b)
    BY <1>8, LinePassed DEF WatchLine, Frame
  <1>9. CASE \E b \in Buses : WatchError(w, b)
    BY <1>9, Ended DEF WatchError, Frame
  <1> QED BY <1>1, <1>2, <1>3, <1>4, <1>5, <1>6, <1>7, <1>8, <1>9 DEF WatchNext

LEMMA DistinctParts ==
    ASSUME NEW S, NEW s \in Seq(S), NEW t \in Seq(S), NEW k \in Nat, Distinct(s),
           \A j \in DOMAIN t : j + k \in DOMAIN s /\ t[j] = s[j + k]
    PROVE  Range(t) \subseteq Range(s) /\ Distinct(t)
  <1>1. Range(t) \subseteq Range(s)
    BY DEF Range
  <1>2. ASSUME NEW i \in DOMAIN t, NEW j \in DOMAIN t, t[i] = t[j] PROVE i = j
    <2>1. i + k = j + k
      BY <1>2 DEF Distinct
    <2>2. i \in Int /\ j \in Int
      OBVIOUS
    <2> QED BY <2>1, <2>2
  <1> QED BY <1>1, <1>2 DEF Distinct

LEMMA DistinctAppend ==
    ASSUME NEW S, NEW s \in Seq(S), NEW e \in S, e \notin Range(s), Distinct(s)
    PROVE  Distinct(Append(s, e))
  <1> DEFINE t == Append(s, e)
  <1>1. DOMAIN s = 1..Len(s) /\ DOMAIN t = 1..(Len(s) + 1) /\ Len(s) \in Nat
    OBVIOUS
  <1>2. t[Len(s) + 1] = e /\ \A i \in 1..Len(s) : t[i] = s[i]
    OBVIOUS
  <1> HIDE DEF t
  <1>3. \A i \in DOMAIN s : s[i] \in Range(s)
    BY DEF Range
  <1>4. \A i \in DOMAIN t : (i \in DOMAIN s /\ t[i] = s[i]) \/ (i = Len(s) + 1 /\ t[i] = e)
    BY <1>1, <1>2
  <1>5. Distinct(t)
    BY <1>3, <1>4 DEF Distinct
  <1> QED BY <1>5 DEF t

LEMMA DistinctTail ==
    ASSUME NEW S, NEW s \in Seq(S), s # <<>>, Distinct(s)
    PROVE  Distinct(Tail(s)) /\ Head(s) \notin Range(Tail(s))
  <1> DEFINE t == Tail(s)
  <1>1. Head(s) = s[1] /\ 1 \in DOMAIN s /\ t \in Seq(S) /\ \A i \in DOMAIN t : i + 1 \in DOMAIN s /\ t[i] = s[i + 1]
    BY RangeOfTail
  <1> HIDE DEF t
  <1>2. Distinct(t)
    BY <1>1, DistinctParts
  <1>3. \A i \in DOMAIN t : i + 1 # 1
    BY <1>1
  <1>4. \A i \in DOMAIN t : t[i] # s[1]
    BY <1>1, <1>3 DEF Distinct
  <1>5. s[1] \notin Range(t)
    BY <1>4 DEF Range
  <1> QED BY <1>1, <1>2, <1>5 DEF t

LEMMA QueuedAppend ==
    ASSUME NEW S, NEW q \in Seq(S), NEW e \in S
    PROVE  Queued(Append(q, e)) = Queued(q) \cup Range(e)
  <1> DEFINE t == Append(q, e)
  <1>1. DOMAIN q = 1..Len(q) /\ DOMAIN t = 1..(Len(q) + 1) /\ Len(q) \in Nat
    OBVIOUS
  <1>2. t[Len(q) + 1] = e /\ \A i \in 1..Len(q) : t[i] = q[i]
    OBVIOUS
  <1> HIDE DEF t
  <1>3. \A i \in DOMAIN t : (i \in DOMAIN q /\ t[i] = q[i]) \/ (i = Len(q) + 1 /\ t[i] = e)
    BY <1>1, <1>2
  <1>4. (\A i \in DOMAIN q : i \in DOMAIN t /\ t[i] = q[i]) /\ Len(q) + 1 \in DOMAIN t
    BY <1>1, <1>2
  <1>5. \A l : l \in Queued(q) \cup Range(e) => l \in Queued(t)
    BY <1>2, <1>4 DEF Queued
  <1>6. \A l : l \in Queued(t) => l \in Queued(q) \cup Range(e)
    BY <1>3 DEF Queued
  <1> QED BY <1>5, <1>6 DEF t

LEMMA QueuedHas ==
    ASSUME NEW q
    PROVE  /\ \A i \in DOMAIN q : Range(q[i]) \subseteq Queued(q)
           /\ \A A : (\A i \in DOMAIN q : Range(q[i]) \cap A = {}) <=> Queued(q) \cap A = {}
  BY DEF Queued

\* A call's record changes, a batch going from the supervisor to it or nothing.
LEMMA CallReplaced ==
    ASSUME NEW ly, NEW ba, NEW cs, NEW hf, NEW tl, NEW n, NEW g, PushTrue(ly, ba, cs, hf, tl, n, g),
           NEW c \in Calls, NEW ba2, Range(ba2) \subseteq Range(ba), Distinct(ba2), NEW cs2, NEW hf2,
           \A d \in Calls : d # c => cs2[d] = cs[d] /\ hf2[d] = hf[d],
           hf2[OwnLayer] = hf[OwnLayer], hf2[EventTailer] = hf[EventTailer],
           CallDistinct(cs2[c], hf2[c]),
           Content(cs2[c], hf2[c]) \subseteq Content(cs[c], hf[c]) \cup Range(ba),
           Content(cs2[c], hf2[c]) \cap Range(ba2) = {}
    PROVE  PushTrue(ly, ba2, cs2, hf2, tl, n, g)
  <1>1. Supply(ly, ba2, tl, n)
    BY DEF PushTrue, Supply
  <1>2. TailTrue(hf2, tl, n, g)
    BY DEF PushTrue, TailTrue
  <1> DEFINE K(d) == Content(cs[d], hf[d])
             M(d) == Content(cs2[d], hf2[d])
  <1>3. \A d \in Calls : d # c => M(d) = K(d) /\ CallDistinct(cs2[d], hf2[d])
    BY DEF PushTrue, CallsApart
  <1>4. M(c) \subseteq K(c) \cup Range(ba) /\ M(c) \cap Range(ba2) = {}
    OBVIOUS
  <1>5. /\ \A d \in Calls : K(d) \subseteq Emitted(n) /\ K(d) \cap Range(ly) = {} /\ K(d) \cap Range(ba) = {} /\ K(d) \cap Range(tl) = {}
        /\ \A x, y \in Calls : x # y => K(x) \cap K(y) = {}
        /\ Range(ly) \cap Range(ba) = {} /\ Range(tl) \cap Range(ba) = {} /\ Range(ba) \subseteq Emitted(n)
    BY DEF PushTrue, CallsApart, Supply
  <1> HIDE DEF K, M
  <1>6. \A d \in Calls : M(d) \subseteq Emitted(n) /\ M(d) \cap Range(ly) = {} /\ M(d) \cap Range(ba2) = {} /\ M(d) \cap Range(tl) = {}
    BY <1>3, <1>4, <1>5
  <1>7. \A x, y \in Calls : x # y => M(x) \cap M(y) = {}
    BY <1>3, <1>4, <1>5
  <1>8. CallsApart(ly, ba2, cs2, hf2, tl, n)
    BY <1>3, <1>6, <1>7 DEF CallsApart, M
  <1> QED BY <1>1, <1>2, <1>8 DEF PushTrue

\* The supervisor's steps, on the places a line can be in.
LEMMA PushEmits ==
    ASSUME NEW ly \in Seq(Lines), NEW ba, NEW cs, NEW hf, NEW tl, NEW n \in Nat, NEW g,
           PushTrue(ly, ba, cs, hf, tl, n, g), <<"sandbox", n + 1>> \in Lines,
           NEW ly2, ly2 = ly \/ ly2 = Append(ly, <<"sandbox", n + 1>>)
    PROVE  PushTrue(ly2, ba, cs, hf, tl, n + 1, g)
  <1> DEFINE e == <<"sandbox", n + 1>>
  <1>1. Emitted(n) \subseteq Emitted(n + 1) /\ e \in Emitted(n + 1) /\ e \notin Emitted(n) /\ e \notin {"gateway"} \X (1..g)
    BY DEF Emitted
  <1>2. Range(ly2) \subseteq Range(ly) \cup {e}
    BY RangeOfAppend
  <1>3. Range(ly) \subseteq Emitted(n) /\ Range(ba) \subseteq Emitted(n) /\ Distinct(ly)
    BY DEF PushTrue, Supply
  <1>4. Distinct(ly2)
    BY <1>1, <1>3, DistinctAppend
  <1> HIDE DEF e
  <1>5. Supply(ly2, ba, tl, n + 1)
    BY <1>1, <1>2, <1>3, <1>4 DEF PushTrue, Supply, TailTrue
  <1>6. TailTrue(hf, tl, n + 1, g)
    BY <1>1 DEF PushTrue, TailTrue
  <1>7. CallsApart(ly2, ba, cs, hf, tl, n + 1)
    BY <1>1, <1>2 DEF PushTrue, CallsApart
  <1> QED BY <1>5, <1>6, <1>7 DEF PushTrue

LEMMA PushTakes ==
    ASSUME NEW ly \in Seq(Lines), ly # <<>>, NEW ba \in Seq(Lines), NEW cs, NEW hf, NEW tl, NEW n, NEW g,
           PushTrue(ly, ba, cs, hf, tl, n, g), NEW ba2, ba2 = ba \/ ba2 = Append(ba, Head(ly))
    PROVE  PushTrue(Tail(ly), ba2, cs, hf, tl, n, g)
  <1> DEFINE e == Head(ly)
             t == Tail(ly)
  <1>1. e \in Lines /\ Range(ly) = {e} \cup Range(t) /\ Distinct(t) /\ e \notin Range(t)
    BY RangeOfTail, DistinctTail DEF PushTrue, Supply
  <1>2. Range(ba2) \subseteq Range(ba) \cup {e}
    <2>1. Range(Append(ba, e)) = Range(ba) \cup {e}
      BY <1>1, RangeOfAppend
    <2> QED BY <2>1
  <1>3. Distinct(ba2)
    <2>1. e \notin Range(ba) /\ Distinct(ba)
      BY <1>1 DEF PushTrue, Supply
    <2> QED BY <1>1, <2>1, DistinctAppend
  <1> HIDE DEF e, t
  <1>4. Supply(t, ba2, tl, n)
    BY <1>1, <1>2, <1>3 DEF PushTrue, Supply
  <1>5. CallsApart(t, ba2, cs, hf, tl, n)
    BY <1>1, <1>2 DEF PushTrue, CallsApart
  <1> QED BY <1>4, <1>5 DEF PushTrue, t

LEMMA EmptyRange == Range(<<>>) = {} /\ Queued(<<>>) = {} /\ Distinct(<<>>)
  BY DEF Range, Queued, Distinct

LEMMA PushSends ==
    ASSUME NEW ly, NEW ba \in Seq(Lines), NEW cs, NEW hf, NEW tl, NEW n, NEW g,
           PushTrue(ly, ba, cs, hf, tl, n, g), NEW c \in Calls, NEW cs2,
           \A d \in Calls : d # c => cs2[d] = cs[d], cs[c].q \in Seq(Seq(Lines)),
           cs2[c].todo = cs[c].todo, cs2[c].q = cs[c].q \/ cs2[c].q = Append(cs[c].q, ba)
    PROVE  PushTrue(ly, <<>>, cs2, hf, tl, n, g)
  <1> DEFINE q == cs[c].q
             p == Append(q, ba)
             r == cs[c]
             u == cs2[c]
             h == hf[c]
  <1>1. /\ CallDistinct(r, h) /\ Content(r, h) \cap Range(ba) = {} /\ Distinct(ba)
    BY DEF PushTrue, CallsApart, Supply
  <1>2. u.todo = r.todo /\ (u.q = q \/ u.q = p) /\ r.q = q
    OBVIOUS
  <1>3. Queued(p) = Queued(q) \cup Range(ba)
    BY QueuedAppend
  <1>m. h # NoLine => h \notin Range(ba)
    BY <1>1 DEF Content
  <1>n. NoLine \notin Range(ba)
    BY DEF NoLine, Lines, Sources, Range
  <1>4. DOMAIN q = 1..Len(q) /\ Len(q) \in Nat /\ DOMAIN p = 1..(Len(q) + 1) /\ p[Len(q) + 1] = ba /\ \A i \in 1..Len(q) : p[i] = q[i]
    OBVIOUS
  <1> HIDE DEF q, p, r, u, h
  <1>5. \A i \in DOMAIN p : (i \in DOMAIN q /\ p[i] = q[i]) \/ (i = Len(q) + 1 /\ p[i] = ba)
    BY <1>4
  <1>6. Queued(q) \cap Range(ba) = {} /\ Range(r.todo) \cap Range(ba) = {} /\ \A i \in DOMAIN q : Range(q[i]) \cap Range(ba) = {}
    BY <1>1, <1>2, QueuedHas DEF Content
  <1>7. Content(u, h) \subseteq Content(r, h) \cup Range(ba)
    BY <1>2, <1>3 DEF Content
  <1>8. CASE u.q = q
    <2>1. CallDistinct(u, h)
      BY <1>1, <1>2, <1>8 DEF CallDistinct
    <2> QED BY <1>7, <2>1, EmptyRange, CallReplaced DEF u, r, h
  <1>9. CASE u.q = p
    <2>1. \A i \in DOMAIN p : Distinct(p[i])
      BY <1>1, <1>2, <1>5 DEF CallDistinct
    <2>2. \A i, j \in DOMAIN p : i # j => Range(p[i]) \cap Range(p[j]) = {}
      BY <1>1, <1>2, <1>5, <1>6 DEF CallDistinct
    <2>3. Range(r.todo) \cap Queued(p) = {} /\ h \notin Range(r.todo) /\ h \notin Queued(p)
      BY <1>1, <1>2, <1>3, <1>6, <1>m, <1>n DEF CallDistinct
    <2>4. CallDistinct(u, h)
      BY <1>1, <1>2, <1>9, <2>1, <2>2, <2>3 DEF CallDistinct
    <2> QED BY <1>7, <2>4, EmptyRange, CallReplaced DEF u, r, h
  <1> QED BY <1>2, <1>8, <1>9

LEMMA PushOpens ==
    ASSUME NEW ly, NEW ba \in Seq(Lines), NEW cs, NEW hf, NEW tl, NEW n, NEW g,
           PushTrue(ly, ba, cs, hf, tl, n, g), NEW c \in Calls, NEW cs2,
           \A d \in Calls : d # c => cs2[d] = cs[d],
           cs2[c].todo = <<>>, cs2[c].q = <<>> \/ cs2[c].q = <<ba>>
    PROVE  PushTrue(ly, <<>>, cs2, hf, tl, n, g)
  <1> DEFINE r == cs[c]
             u == cs2[c]
             h == hf[c]
             p == <<ba>>
  <1>1. /\ CallDistinct(r, h) /\ Content(r, h) \cap Range(ba) = {} /\ Distinct(ba)
    BY DEF PushTrue, CallsApart, Supply
  <1>2. u.todo = <<>> /\ (u.q = <<>> \/ u.q = p)
    OBVIOUS
  <1>3. DOMAIN p = {1} /\ p[1] = ba
    OBVIOUS
  <1>m. h # NoLine => h \notin Range(ba)
    BY <1>1 DEF Content
  <1>n. NoLine \notin Range(ba)
    BY DEF NoLine, Lines, Sources, Range
  <1> HIDE DEF r, u, h, p
  <1>4. Queued(p) = Range(ba)
    BY <1>3 DEF Queued
  <1>5. Content(u, h) \subseteq Content(r, h) \cup Range(ba)
    BY <1>2, <1>4, EmptyRange DEF Content
  <1>6. CallDistinct(u, h)
    <2>1. CASE u.q = <<>>
      BY <1>2, <2>1, EmptyRange DEF CallDistinct
    <2>2. CASE u.q = p
      BY <1>1, <1>2, <1>3, <1>4, <1>m, <1>n, <2>2, EmptyRange DEF CallDistinct
    <2> QED BY <1>2, <2>1, <2>2
  <1> QED BY <1>5, <1>6, EmptyRange, CallReplaced DEF u, r, h

\* The gateway's steps on a call.
LEMMA PushBreaks ==
    ASSUME NEW ly, NEW ba, NEW cs, NEW hf, NEW tl, NEW n, NEW g,
           PushTrue(ly, ba, cs, hf, tl, n, g), NEW c \in Calls, NEW cs2,
           \A d \in Calls : d # c => cs2[d] = cs[d], cs2[c].todo = cs[c].todo,
           \A i \in DOMAIN cs2[c].q : i \in DOMAIN cs[c].q /\ cs2[c].q[i] = cs[c].q[i]
    PROVE  PushTrue(ly, ba, cs2, hf, tl, n, g)
  <1> DEFINE r == cs[c]
             u == cs2[c]
             h == hf[c]
  <1>1. CallDistinct(r, h) /\ Content(r, h) \cap Range(ba) = {} /\ Distinct(ba)
    BY DEF PushTrue, CallsApart, Supply
  <1>2. u.todo = r.todo /\ \A i \in DOMAIN u.q : i \in DOMAIN r.q /\ u.q[i] = r.q[i]
    OBVIOUS
  <1> HIDE DEF r, u, h
  <1>3. Queued(u.q) \subseteq Queued(r.q)
    BY <1>2 DEF Queued
  <1>4. Content(u, h) \subseteq Content(r, h)
    BY <1>2, <1>3 DEF Content
  <1>5. CallDistinct(u, h)
    BY <1>1, <1>2, <1>3 DEF CallDistinct
  <1>6. Content(u, h) \cap Range(ba) = {}
    BY <1>1, <1>4
  <1> QED BY <1>1, <1>4, <1>5, <1>6, CallReplaced DEF u, r, h

LEMMA PushReceives ==
    ASSUME NEW ly, NEW ba, NEW cs, NEW hf, NEW tl, NEW n, NEW g,
           PushTrue(ly, ba, cs, hf, tl, n, g), NEW c \in Calls, NEW cs2,
           \A d \in Calls : d # c => cs2[d] = cs[d], cs[c].q \in Seq(Seq(Lines)), cs[c].q # <<>>,
           cs[c].todo = <<>>, hf[c] = NoLine,
           \/ cs2[c].q = <<>> /\ cs2[c].todo = <<>>
           \/ cs2[c].q = Tail(cs[c].q) /\ cs2[c].todo = Take(Head(cs[c].q), TakeMax)
    PROVE  PushTrue(ly, ba, cs2, hf, tl, n, g)
  <1> DEFINE r == cs[c]
             u == cs2[c]
             h == hf[c]
             q == r.q
             t == Tail(q)
             k == Take(Head(q), TakeMax)
  <1>1. CallDistinct(r, h) /\ Content(r, h) \cap Range(ba) = {} /\ Distinct(ba)
    BY DEF PushTrue, CallsApart, Supply
  <1>2. \/ u.q = <<>> /\ u.todo = <<>>
        \/ u.q = t /\ u.todo = k
    OBVIOUS
  <1>3. q \in Seq(Seq(Lines)) /\ q # <<>> /\ r.todo = <<>> /\ h = NoLine
    OBVIOUS
  <1>4. Head(q) \in Seq(Lines) /\ Head(q) = q[1] /\ 1 \in DOMAIN q /\ \A i \in DOMAIN t : i + 1 \in DOMAIN q /\ t[i] = q[i + 1]
    BY <1>3, RangeOfTail
  <1>m. t \in Seq(Seq(Lines))
    BY <1>3
  <1>5. k \in Seq(Lines) /\ \A i \in DOMAIN k : i \in DOMAIN Head(q) /\ k[i] = Head(q)[i]
    BY <1>4, TakeIs, StreamAssumption
  <1> HIDE DEF r, u, h, q, t, k
  <1>6. Distinct(q[1]) /\ q[1] \in Seq(Lines)
    BY <1>1, <1>4 DEF CallDistinct, q
  <1>7. Distinct(k) /\ Range(k) \subseteq Range(q[1])
    <2>1. 0 \in Nat /\ \A i \in DOMAIN k : i + 0 \in DOMAIN q[1] /\ k[i] = q[1][i + 0]
      BY <1>4, <1>5
    <2> QED BY <1>5, <1>6, <2>1, DistinctParts
  <1>8. \A i \in DOMAIN t : i + 1 # 1 /\ i \in Int
    BY <1>m
  <1>9. \A i \in DOMAIN t : Range(t[i]) \cap Range(q[1]) = {}
    BY <1>1, <1>4, <1>8 DEF CallDistinct, q
  <1>10. Range(k) \cap Queued(t) = {}
    BY <1>7, <1>9, QueuedHas
  <1>11. Queued(t) \subseteq Queued(q) /\ Range(q[1]) \subseteq Queued(q)
    BY <1>4 DEF Queued
  <1>12. \A i, j \in DOMAIN t : i # j => Range(t[i]) \cap Range(t[j]) = {}
    <2>1. \A i, j \in DOMAIN t : i # j => i + 1 # j + 1
      BY <1>8
    <2> QED BY <1>1, <1>4, <2>1 DEF CallDistinct, q
  <1>13. h \notin Range(k) /\ h \notin Queued(t)
    BY <1>1, <1>7, <1>11 DEF CallDistinct, q
  <1>14. CallDistinct(u, h)
    <2>1. CASE u.q = <<>> /\ u.todo = <<>>
      BY <2>1, EmptyRange DEF CallDistinct
    <2>2. CASE u.q = t /\ u.todo = k
      <3>1. \A i \in DOMAIN t : Distinct(t[i])
        BY <1>1, <1>4 DEF CallDistinct, q
      <3> QED BY <1>7, <1>10, <1>12, <1>13, <2>2, <3>1 DEF CallDistinct
    <2> QED BY <1>2, <2>1, <2>2
  <1>15. Content(u, h) \subseteq Content(r, h)
    BY <1>2, <1>7, <1>11, EmptyRange DEF Content, q
  <1>16. Content(u, h) \cap Range(ba) = {}
    BY <1>1, <1>15
  <1> QED BY <1>1, <1>14, <1>15, <1>16, CallReplaced DEF u, r, h

LEMMA PushPublishes ==
    ASSUME NEW ly, NEW ba, NEW cs, NEW hf, NEW tl, NEW n, NEW g,
           PushTrue(ly, ba, cs, hf, tl, n, g), NEW c \in Calls, NEW cs2, NEW hf2,
           \A d \in Calls : d # c => cs2[d] = cs[d] /\ hf2[d] = hf[d],
           hf2[OwnLayer] = hf[OwnLayer], hf2[EventTailer] = hf[EventTailer],
           cs[c].todo \in Seq(Lines), cs[c].todo # <<>>, hf[c] = NoLine,
           cs2[c].q = cs[c].q, cs2[c].todo = Tail(cs[c].todo), hf2[c] = Head(cs[c].todo)
    PROVE  PushTrue(ly, ba, cs2, hf2, tl, n, g)
  <1> DEFINE r == cs[c]
             u == cs2[c]
             h == hf[c]
             x == hf2[c]
             k == Tail(r.todo)
  <1>1. CallDistinct(r, h) /\ Content(r, h) \cap Range(ba) = {} /\ Distinct(ba)
    BY DEF PushTrue, CallsApart, Supply
  <1>2. u.q = r.q /\ u.todo = k
    OBVIOUS
  <1>3. Range(r.todo) = {x} \cup Range(k) /\ Distinct(k) /\ x \notin Range(k)
    BY <1>1, RangeOfTail, DistinctTail DEF CallDistinct
  <1> HIDE DEF r, u, h, x, k
  <1>4. Content(u, x) \subseteq Content(r, h)
    BY <1>2, <1>3 DEF Content
  <1>5. CallDistinct(u, x)
    BY <1>1, <1>2, <1>3 DEF CallDistinct
  <1>6. Content(u, x) \cap Range(ba) = {}
    BY <1>1, <1>4
  <1> QED BY <1>1, <1>4, <1>5, <1>6, CallReplaced DEF u, r, h, x

\* What the publishers do to the tail of the log bus.
LEMMA TailGrows ==
    ASSUME NEW ly, NEW ba, NEW cs \in [Calls -> CallRecs], NEW hf, NEW tl \in Seq(Lines), NEW n, NEW g,
           PushTrue(ly, ba, cs, hf, tl, n, g), NEW p \in Publishers, hf[p] \in Lines, NEW hf2, hf2[p] = NoLine,
           \A d \in Publishers : d # p => hf2[d] = hf[d], NEW tl2,
           tl2 = IF BusOf(hf[p]) = "log" THEN LastOf(Append(tl, hf[p]), TailCap) ELSE tl
    PROVE  PushTrue(ly, ba, cs, hf2, tl2, n, g)
  <1> DEFINE h == hf[p]
             K(d) == Content(cs[d], hf[d])
             M(d) == Content(cs[d], hf2[d])
  <1>1. h \in Lines /\ NoLine \notin Lines /\ h # NoLine
    BY DEF NoLine, Lines, Sources
  <1>2. /\ \A d \in Calls : CallDistinct(cs[d], hf[d]) /\ K(d) \subseteq Emitted(n)
        /\ \A d \in Calls : K(d) \cap Range(ly) = {} /\ K(d) \cap Range(ba) = {} /\ K(d) \cap Range(tl) = {}
        /\ \A c, d \in Calls : c # d => K(c) \cap K(d) = {}
    BY DEF PushTrue, CallsApart
  <1>3. /\ Distinct(ly) /\ Distinct(ba) /\ Range(ly) \cap Range(ba) = {}
        /\ Range(ly) \subseteq Emitted(n) /\ Range(ba) \subseteq Emitted(n)
        /\ Range(tl) \cap Range(ly) = {} /\ Range(tl) \cap Range(ba) = {}
    BY DEF PushTrue, Supply
  <1>4. /\ Distinct(tl) /\ Range(tl) \subseteq Emitted(n) \cup ({"gateway"} \X (1..g))
        /\ hf[OwnLayer] # NoLine => hf[OwnLayer] \in ({"gateway"} \X (1..g)) \ Range(tl)
        /\ hf[EventTailer] # NoLine => hf[EventTailer][1] = "kube"
    BY DEF PushTrue, TailTrue
  <1>5. OwnLayer \in Publishers /\ EventTailer \in Publishers /\ OwnLayer \notin Calls /\ EventTailer \notin Calls
        /\ (p \in Calls \/ p = OwnLayer \/ p = EventTailer) /\ Calls \subseteq Publishers /\ OwnLayer # EventTailer
    BY StreamAssumption DEF OwnLayer, EventTailer, Publishers, Calls
  <1>6. \A d \in Calls : NoLine \notin Range(cs[d].todo) /\ NoLine \notin Queued(cs[d].q)
    <2> TAKE d \in Calls
    <2>1. cs[d].todo \in Seq(Lines) /\ cs[d].q \in Seq(Seq(Lines))
      BY DEF CallRecs
    <2>2. Range(cs[d].todo) \subseteq Lines
      BY <2>1 DEF Range
    <2>3. \A i \in DOMAIN cs[d].q : cs[d].q[i] \in Seq(Lines)
      BY <2>1
    <2>4. \A i \in DOMAIN cs[d].q : Range(cs[d].q[i]) \subseteq Lines
      BY <2>3 DEF Range
    <2> QED BY <1>1, <2>2, <2>4 DEF Queued
  <1>7. \A d \in Calls : M(d) \subseteq K(d) /\ CallDistinct(cs[d], hf2[d])
    <2> TAKE d \in Calls
    <2>1. CASE d = p
      BY <1>2, <1>6, <2>1 DEF Content, CallDistinct
    <2>2. CASE d # p
      BY <1>2, <1>5, <2>2
    <2> QED BY <2>1, <2>2
  <1>8. p \in Calls => h \in K(p)
    BY <1>1 DEF Content
  <1>9. \A d \in Calls : h \notin M(d)
    <2>1. CASE p \in Calls
      <3>1. h \notin M(p)
        BY <1>1, <1>2, <2>1 DEF Content, CallDistinct
      <3>2. \A d \in Calls : d # p => h \notin K(d)
        BY <1>2, <1>8, <2>1
      <3> QED BY <1>7, <3>1, <3>2
    <2>2. CASE p \notin Calls
      <3>1. h \notin Emitted(n)
        BY <1>1, <1>4, <1>5, <2>2 DEF Emitted
      <3> QED BY <1>2, <1>7, <3>1
    <2> QED BY <2>1, <2>2
  <1>10. BusOf(h) = "log" => /\ h \notin Range(tl) /\ h \notin Range(ly) /\ h \notin Range(ba)
                             /\ h \in Emitted(n) \cup ({"gateway"} \X (1..g))
                             /\ (hf2[OwnLayer] # NoLine => hf2[OwnLayer] # h)
    <2>1. CASE p \in Calls
      <3>1. h \in Emitted(n)
        BY <1>2, <1>8, <2>1
      <3>2. hf2[OwnLayer] = hf[OwnLayer]
        BY <1>5, <2>1
      <3>3. hf2[OwnLayer] # NoLine => hf2[OwnLayer] # h
        BY <1>4, <3>1, <3>2 DEF Emitted
      <3> QED BY <1>2, <1>8, <2>1, <3>1, <3>3
    <2>2. CASE p = OwnLayer
      <3>1. h \in {"gateway"} \X (1..g) /\ h \notin Range(tl)
        BY <1>1, <1>4, <2>2
      <3>2. h \notin Emitted(n)
        BY <3>1 DEF Emitted
      <3> QED BY <1>3, <2>2, <3>1, <3>2
    <2>3. CASE p = EventTailer
      BY <1>1, <1>4, <2>3 DEF BusOf
    <2> QED BY <1>5, <2>1, <2>2, <2>3
  <1>11. Distinct(tl2) /\ Range(tl2) \subseteq Range(tl) \cup {h} /\ (BusOf(h) # "log" => tl2 = tl)
    <2>1. CASE BusOf(h) = "log"
      <3> DEFINE t == Append(tl, h)
                 k == LastOf(t, TailCap)
      <3>1. t \in Seq(Lines) /\ Range(t) = Range(tl) \cup {h} /\ Distinct(t)
        BY <1>1, <1>4, <1>10, <2>1, RangeOfAppend, DistinctAppend
      <3> HIDE DEF t
      <3>2. k \in Seq(Lines) /\ \E x \in Nat : \A j \in DOMAIN k : j + x \in DOMAIN t /\ k[j] = t[j + x]
        BY <3>1, LastOfIs, StreamAssumption
      <3>3. Distinct(k) /\ Range(k) \subseteq Range(t)
        <4> HIDE DEF k
        <4> QED BY <3>1, <3>2, DistinctParts
      <3>4. tl2 = k
        BY <2>1 DEF t
      <3> HIDE DEF k
      <3> QED BY <2>1, <3>1, <3>3, <3>4
    <2>2. CASE BusOf(h) # "log"
      BY <1>4, <2>2
    <2> QED BY <2>1, <2>2
  <1> HIDE DEF h, K, M
  <1>12. Supply(ly, ba, tl2, n)
    BY <1>3, <1>10, <1>11 DEF Supply
  <1>13. CallsApart(ly, ba, cs, hf2, tl2, n)
    <2>1. \A d \in Calls : M(d) \subseteq Emitted(n) /\ M(d) \cap Range(ly) = {} /\ M(d) \cap Range(ba) = {} /\ M(d) \cap Range(tl2) = {}
      BY <1>2, <1>7, <1>9, <1>11
    <2>2. \A c, d \in Calls : c # d => M(c) \cap M(d) = {}
      BY <1>2, <1>7
    <2> QED BY <1>7, <2>1, <2>2 DEF CallsApart, M
  <1>14. TailTrue(hf2, tl2, n, g)
    <2>1. Range(tl2) \subseteq Emitted(n) \cup ({"gateway"} \X (1..g))
      BY <1>4, <1>10, <1>11
    <2>2. hf2[OwnLayer] # NoLine => hf2[OwnLayer] \in ({"gateway"} \X (1..g)) \ Range(tl2)
      BY <1>4, <1>5, <1>10, <1>11
    <2>3. hf2[EventTailer] # NoLine => hf2[EventTailer][1] = "kube"
      BY <1>4, <1>5
    <2> QED BY <1>11, <2>1, <2>2, <2>3 DEF TailTrue
  <1> QED BY <1>12, <1>13, <1>14 DEF PushTrue

LEMMA GatewayPublishes ==
    ASSUME NEW ly, NEW ba, NEW cs, NEW hf, NEW tl, NEW n, NEW g \in Nat,
           PushTrue(ly, ba, cs, hf, tl, n, g), NEW hf2, \A d \in Calls : hf2[d] = hf[d], NEW g2,
           \/ hf2[OwnLayer] = <<"gateway", g + 1>> /\ hf2[EventTailer] = hf[EventTailer] /\ g2 = g + 1
           \/ hf2[EventTailer][1] = "kube" /\ hf2[OwnLayer] = hf[OwnLayer] /\ g2 = g
    PROVE  PushTrue(ly, ba, cs, hf2, tl, n, g2)
  <1> DEFINE G == {"gateway"} \X (1..g)
             H == {"gateway"} \X (1..g2)
             e == <<"gateway", g + 1>>
  <1>1. G \subseteq H /\ e \notin Emitted(n) \cup G /\ (g2 = g + 1 => e \in H)
    BY DEF Emitted
  <1>2. CallsApart(ly, ba, cs, hf2, tl, n)
    BY DEF PushTrue, CallsApart
  <1>3. Range(tl) \subseteq Emitted(n) \cup G /\ (hf[OwnLayer] # NoLine => hf[OwnLayer] \in G \ Range(tl)) /\ Distinct(tl)
        /\ (hf[EventTailer] # NoLine => hf[EventTailer][1] = "kube")
    BY DEF PushTrue, TailTrue
  <1>m. \/ hf2[OwnLayer] = e /\ hf2[EventTailer] = hf[EventTailer] /\ g2 = g + 1
        \/ hf2[EventTailer][1] = "kube" /\ hf2[OwnLayer] = hf[OwnLayer] /\ g2 = g
    OBVIOUS
  <1> HIDE DEF G, H, e
  <1>4. Range(tl) \subseteq Emitted(n) \cup H /\ (hf2[OwnLayer] # NoLine => hf2[OwnLayer] \in H \ Range(tl))
    BY <1>1, <1>3, <1>m
  <1>5. TailTrue(hf2, tl, n, g2)
    BY <1>3, <1>4, <1>m DEF TailTrue, H
  <1> QED BY <1>2, <1>5 DEF PushTrue

LEMMA TailDropped ==
    ASSUME NEW ly, NEW ba, NEW cs, NEW hf, NEW tl, NEW n, NEW g, PushTrue(ly, ba, cs, hf, tl, n, g)
    PROVE  PushTrue(ly, ba, cs, hf, <<>>, n, g)
  BY EmptyRange DEF PushTrue, Supply, CallsApart, TailTrue

\* The steps, one action at a time.
LEMMA SourceCounts ==
    ASSUME StreamTypes, ~Quiet, NEW s \in Sources
    PROVE  source[s] \in Nat /\ source[s] + 1 \in 1..MaxLines /\ <<s, source[s] + 1>> \in Lines
           /\ [source EXCEPT ![s] = @ + 1] \in [Sources -> 0..MaxLines]
  <1>1. source \in [Sources -> 0..MaxLines] /\ source["sandbox"] \in 0..MaxLines /\ source["gateway"] \in 0..MaxLines /\ source["kube"] \in 0..MaxLines
    BY DEF StreamTypes, Sources
  <1>2. source[s] + 1 \in 1..MaxLines
    BY <1>1, StreamAssumption DEF Quiet, Sources
  <1> QED BY <1>1, <1>2, StreamAssumption DEF Lines

LEMMA StepAppendTail ==
    ASSUME StreamInv, NEW p \in Publishers, AppendTail(p)
    PROVE  StreamInv'
  <1> USE StreamAssumption
  <1>1. StreamTypes /\ Bounded /\ PushSide /\ WatchersTrue
    BY DEF StreamInv
  <1>2. UNCHANGED <<wrec, owed, sweep, source, layer, pusher, calls, watch>>
    BY DEF AppendTail
  <1>3. /\ bus' \in [Buses -> [gen : 1..3, tail : Seq(Lines)]]
        /\ \A b \in Buses : bus'[b].gen = bus[b].gen
        /\ \A b \in Buses : Len(bus'[b].tail) <= TailCap \/ bus'[b] = bus[b]
        /\ half[p] \in Lines
        /\ \A b \in Buses : b # BusOf(half[p]) => bus'[b] = bus[b]
        /\ bus'[BusOf(half[p])].tail = LastOf(Append(bus[BusOf(half[p])].tail, half[p]), TailCap)
        /\ half' = [half EXCEPT ![p] = NoLine]
        /\ \A w \in Watchers : WatchTrue(watch[w], bus', half', owed, sweep, wrec)
    BY <1>1, Appends
  <1>4. half' \in [Publishers -> Lines \cup {NoLine}] /\ half'[p] = NoLine /\ \A d \in Publishers : d # p => half'[d] = half[d]
    BY <1>1, <1>3 DEF StreamTypes
  <1>5. bus'["log"].tail = IF BusOf(half[p]) = "log" THEN LastOf(Append(bus["log"].tail, half[p]), TailCap) ELSE bus["log"].tail
    BY <1>3 DEF Buses
  <1>6. bus["log"].tail \in Seq(Lines) /\ calls \in [Calls -> CallRecs]
    BY <1>1 DEF StreamTypes, Buses
  <1>7. PushSide'
    <2> DEFINE hf2 == half'
               tl2 == bus'["log"].tail
               ly == layer.q
               ba == pusher.batch
               tl == bus["log"].tail
               n == source["sandbox"]
               g == source["gateway"]
    <2>1. PushTrue(ly, ba, calls, half, tl, n, g) /\ tl \in Seq(Lines) /\ hf2[p] = NoLine
          /\ (\A d \in Publishers : d # p => hf2[d] = half[d])
          /\ tl2 = IF BusOf(half[p]) = "log" THEN LastOf(Append(tl, half[p]), TailCap) ELSE tl
      BY <1>1, <1>4, <1>5, <1>6 DEF PushSide
    <2> HIDE DEF hf2, tl2, ly, ba, tl, n, g
    <2>2. PushTrue(ly, ba, calls, hf2, tl2, n, g)
      BY <1>3, <1>6, <2>1, TailGrows
    <2> QED BY <1>2, <2>2 DEF PushSide, hf2, tl2, ly, ba, tl, n, g
  <1>8. StreamTypes'
    BY <1>1, <1>2, <1>3, <1>4 DEF StreamTypes
  <1>9. Bounded'
    BY <1>1, <1>2, <1>3 DEF Bounded
  <1>10. WatchersTrue'
    BY <1>2, <1>3 DEF WatchersTrue
  <1> QED BY <1>7, <1>8, <1>9, <1>10 DEF StreamInv

LEMMA StepGatewayLine ==
    ASSUME StreamInv, GatewayLine \/ KubeEvent
    PROVE  StreamInv'
  <1> USE StreamAssumption
  <1>1. StreamTypes /\ Bounded /\ PushSide /\ WatchersTrue /\ ~Quiet
    BY DEF StreamInv, GatewayLine, KubeEvent
  <1>2. UNCHANGED <<wrec, owed, sweep, bus, layer, pusher, calls>>
    BY DEF GatewayLine, KubeEvent
  <1>3. PICK s \in {"gateway", "kube"}, p \in {OwnLayer, EventTailer} :
           /\ source' = [source EXCEPT ![s] = @ + 1] /\ Publish(p, <<s, source[s] + 1>>)
           /\ (s = "gateway" <=> p = OwnLayer) /\ (s = "kube" <=> p = EventTailer)
    <2>1. OwnLayer # EventTailer
      BY DEF OwnLayer, EventTailer
    <2> QED BY <2>1 DEF GatewayLine, KubeEvent
  <1> DEFINE e == <<s, source[s] + 1>>
  <1>4. s \in Sources /\ p \in Publishers /\ "sandbox" \in Sources /\ "gateway" \in Sources
    BY DEF Sources, Publishers
  <1>5. e \in Lines /\ source' \in [Sources -> 0..MaxLines] /\ source \in [Sources -> 0..MaxLines]
    BY <1>1, <1>3, <1>4, SourceCounts DEF StreamTypes
  <1>6. source'["sandbox"] = source["sandbox"] /\ source["gateway"] \in Nat
        /\ (s = "gateway" => source'["gateway"] = source["gateway"] + 1)
        /\ (s = "kube" => source'["gateway"] = source["gateway"])
    BY <1>3, <1>4, <1>5
  <1>7. /\ watch' \in [Watchers -> WatchRecs]
        /\ \A w \in Watchers : WatchTrue(watch'[w], bus, half', owed, sweep, wrec)
    BY <1>1, <1>3, <1>4, <1>5, Publishes
  <1>8. half' = [half EXCEPT ![p] = e] /\ half \in [Publishers -> Lines \cup {NoLine}]
    BY <1>1, <1>3 DEF Publish, StreamTypes
  <1>9. half' \in [Publishers -> Lines \cup {NoLine}]
    BY <1>4, <1>5, <1>8
  <1>10. /\ \A d \in Calls : half'[d] = half[d]
         /\ \/ half'[OwnLayer] = <<"gateway", source["gateway"] + 1>> /\ half'[EventTailer] = half[EventTailer]
               /\ source'["gateway"] = source["gateway"] + 1
            \/ half'[EventTailer][1] = "kube" /\ half'[OwnLayer] = half[OwnLayer] /\ source'["gateway"] = source["gateway"]
    <2>1. OwnLayer # EventTailer /\ OwnLayer \notin Calls /\ EventTailer \notin Calls /\ Calls \subseteq Publishers
          /\ OwnLayer \in Publishers /\ EventTailer \in Publishers
      BY DEF OwnLayer, EventTailer, Calls, Publishers
    <2>2. \A d \in Calls : half'[d] = half[d]
      BY <1>3, <1>8, <2>1
    <2>3. CASE s = "gateway"
      BY <1>3, <1>6, <1>8, <2>1, <2>2, <2>3
    <2>4. CASE s = "kube"
      BY <1>3, <1>6, <1>8, <2>1, <2>2, <2>4
    <2> QED BY <2>3, <2>4
  <1>11. PushSide'
    <2>1. PushTrue(layer.q, pusher.batch, calls, half', bus["log"].tail, source["sandbox"], source'["gateway"])
      BY <1>1, <1>6, <1>10, GatewayPublishes DEF PushSide
    <2> QED BY <1>2, <1>6, <2>1 DEF PushSide
  <1>12. StreamTypes'
    BY <1>1, <1>2, <1>5, <1>7, <1>9 DEF StreamTypes
  <1>13. Bounded'
    BY <1>1, <1>2 DEF Bounded
  <1>14. WatchersTrue'
    BY <1>2, <1>7 DEF WatchersTrue
  <1> QED BY <1>11, <1>12, <1>13, <1>14 DEF StreamInv

LEMMA StepRecord ==
    ASSUME StreamInv, DeleteRecord \/ \E ready \in BOOLEAN : WriteRecord(ready)
    PROVE  StreamInv'
  <1> USE StreamAssumption
  <1>1. StreamTypes /\ Bounded /\ PushSide /\ WatchersTrue
    BY DEF StreamInv
  <1>2. UNCHANGED <<bus, source, half, layer, pusher, calls, watch>>
    BY DEF DeleteRecord, WriteRecord
  <1>3. \A w \in Watchers : WatchTrue(watch[w], bus, half, owed', sweep', wrec')
    BY <1>1, RecordSteps
  <1>4. wrec.ver \in 0..MaxRecVer /\ owed \in 0..MaxRecVer /\ (wrec.ver > 0 => owed < wrec.ver) /\ sweep \in {"none", "dropped", "due", "done"}
    BY <1>1 DEF StreamTypes, Bounded
  <1>5. CASE DeleteRecord
    <2>1. wrec' = [ver |-> 0, ready |-> FALSE] /\ sweep' = "due" /\ owed' = owed /\ sweep \in {"none", "dropped"}
      BY <1>5 DEF DeleteRecord
    <2>2. wrec' \in [ver : 0..MaxRecVer, ready : BOOLEAN] /\ wrec'.ver = 0
      BY <2>1
    <2>3. \A b \in Buses : bus[b].gen \in 1..3 /\ bus[b].gen <= 2
      BY <1>1, <2>1 DEF Bounded, StreamTypes
    <2>4. StreamTypes'
      BY <1>1, <1>2, <2>1, <2>2 DEF StreamTypes
    <2>5. Bounded'
      BY <1>1, <1>2, <2>1, <2>2, <2>3 DEF Bounded
    <2> QED BY <1>1, <1>2, <1>3, <2>4, <2>5 DEF StreamInv, PushSide, WatchersTrue
  <1>6. ASSUME NEW ready \in BOOLEAN, WriteRecord(ready) PROVE StreamInv'
    <2>1. wrec' = [ver |-> wrec.ver + 1, ready |-> ready] /\ sweep' = sweep /\ owed' = owed + 1 /\ wrec.ver \in 1..(MaxRecVer - 1)
      BY <1>6 DEF WriteRecord
    <2>2. wrec' \in [ver : 0..MaxRecVer, ready : BOOLEAN] /\ wrec'.ver = wrec.ver + 1 /\ owed' \in 0..MaxRecVer
          /\ owed' < wrec'.ver
      BY <1>4, <2>1
    <2>4. StreamTypes'
      BY <1>1, <1>2, <2>1, <2>2 DEF StreamTypes
    <2>5. Bounded'
      BY <1>1, <1>2, <2>1, <2>2 DEF Bounded
    <2> QED BY <1>1, <1>2, <1>3, <2>4, <2>5 DEF StreamInv, PushSide, WatchersTrue
  <1> QED BY <1>5, <1>6

LEMMA StepNotify ==
    ASSUME StreamInv, Notify
    PROVE  StreamInv'
  <1> USE StreamAssumption
  <1>1. StreamTypes /\ Bounded /\ PushSide /\ WatchersTrue
    BY DEF StreamInv
  <1>2. UNCHANGED <<wrec, sweep, bus, source, half, layer, pusher, calls>> /\ owed' = owed - 1 /\ owed > 0
        /\ watch' = Deliver(watch, "status", NoLine)
    BY DEF Notify
  <1>3. watch' \in [Watchers -> WatchRecs] /\ \A w \in Watchers : WatchTrue(watch'[w], bus, half, owed', sweep, wrec)
    BY <1>1, <1>2, Notified
  <1>4. owed \in 0..MaxRecVer /\ wrec.ver \in 0..MaxRecVer
    BY <1>1 DEF StreamTypes
  <1>5. owed' \in 0..MaxRecVer /\ (wrec.ver > 0 => owed' < wrec.ver)
    BY <1>1, <1>2, <1>4 DEF Bounded
  <1>6. StreamTypes'
    BY <1>1, <1>2, <1>3, <1>5 DEF StreamTypes
  <1>7. Bounded'
    BY <1>1, <1>2, <1>5 DEF Bounded
  <1> QED BY <1>1, <1>2, <1>3, <1>6, <1>7 DEF StreamInv, PushSide, WatchersTrue

LEMMA StepBuses ==
    ASSUME StreamInv, DropBuses \/ SweepBuses
    PROVE  StreamInv'
  <1> USE StreamAssumption
  <1>1. StreamTypes /\ Bounded /\ PushSide /\ WatchersTrue
    BY DEF StreamInv
  <1>2. UNCHANGED <<wrec, owed, source, half, layer, pusher, calls>>
        /\ bus' = [b \in Buses |-> [gen |-> bus[b].gen + 1, tail |-> <<>>]]
        /\ sweep' \in {"dropped", "done"} /\ (sweep' = "dropped" => sweep = "none") /\ (sweep' = "done" => sweep = "due")
    BY DEF DropBuses, SweepBuses
  <1>3. /\ watch' \in [Watchers -> WatchRecs]
        /\ \A w \in Watchers : \A b \in Buses : watch'[w].rx[b].gen <= bus[b].gen
    <2>1. CASE watch' = watch
      BY <1>1, <2>1 DEF StreamTypes, WatchersTrue, WatchTrue
    <2>2. CASE watch' = Deliver(watch, "status", NoLine)
      <3>1. watch' \in [Watchers -> WatchRecs] /\ \A w \in Watchers : WatchTrue(watch'[w], bus, half, owed, sweep, wrec)
        BY <1>1, <2>2, Notified
      <3> QED BY <3>1 DEF WatchTrue
    <2> QED BY <2>1, <2>2 DEF DropBuses, SweepBuses
  <1>4. bus \in [Buses -> [gen : 1..3, tail : Seq(Lines)]] /\ \A b \in Buses : bus[b].gen \in 1..2
    BY <1>1, <1>2 DEF StreamTypes, Bounded
  <1>5. ASSUME NEW b \in Buses
        PROVE  bus'[b].gen = bus[b].gen + 1 /\ bus'[b].tail = <<>> /\ bus'[b] \in [gen : 1..3, tail : Seq(Lines)]
               /\ (sweep' = "dropped" => bus'[b].gen <= 2)
    <2>1. bus'[b] = [gen |-> bus[b].gen + 1, tail |-> <<>>] /\ <<>> \in Seq(Lines)
      BY <1>2
    <2>2. bus[b].gen \in 1..2 /\ (sweep' = "dropped" => bus[b].gen = 1)
      BY <1>1, <1>2, <1>4 DEF Bounded
    <2> QED BY <2>1, <2>2
  <1>6. bus' \in [Buses -> [gen : 1..3, tail : Seq(Lines)]]
    BY <1>2, <1>5
  <1>7. WatchersTrue'
    <2>1. \A w \in Watchers : WatchTrue(watch'[w], bus', half', owed', sweep', wrec')
      BY <1>3, <1>4, <1>5, Renewed
    <2> QED BY <2>1 DEF WatchersTrue
  <1>8. StreamTypes'
    BY <1>1, <1>2, <1>3, <1>6 DEF StreamTypes
  <1>9. Bounded'
    <2>1. Len(<<>>) = 0
      OBVIOUS
    <2>2. \A b \in Buses : Len(bus'[b].tail) <= TailCap
      BY <1>5, <2>1
    <2>3. sweep' # "none" /\ sweep' # "due"
      BY <1>2
    <2> QED BY <1>1, <1>2, <1>5, <2>2, <2>3 DEF Bounded
  <1>10. PushSide'
    <2>1. bus'["log"].tail = <<>>
      BY <1>5 DEF Buses
    <2>2. PushTrue(layer.q, pusher.batch, calls, half, <<>>, source["sandbox"], source["gateway"])
      BY <1>1, TailDropped DEF PushSide
    <2> QED BY <1>2, <2>1, <2>2 DEF PushSide
  <1> QED BY <1>7, <1>8, <1>9, <1>10 DEF StreamInv

\* A call's record, replaced.
LEMMA QueueReplaced ==
    ASSUME calls \in [Calls -> CallRecs], NEW c \in Calls, NEW q \in Seq(Seq(Lines)), NEW cs,
           cs = [calls EXCEPT ![c].q = q]
    PROVE  /\ cs \in [Calls -> CallRecs] /\ \A d \in Calls : d # c => cs[d] = calls[d]
           /\ cs[c].q = q /\ cs[c].todo = calls[c].todo
  <1> DEFINE u == [calls[c] EXCEPT !.q = q]
  <1>1. u \in CallRecs /\ u.q = q /\ u.todo = calls[c].todo
    BY DEF CallRecs
  <1>2. cs = [calls EXCEPT ![c] = u]
    OBVIOUS
  <1> HIDE DEF u
  <1> QED BY <1>1, <1>2

LEMMA StepLayer ==
    ASSUME StreamInv, EmitLine \/ CloseLayer
    PROVE  StreamInv'
  <1> USE StreamAssumption
  <1>1. StreamTypes /\ Bounded /\ PushSide /\ WatchersTrue
    BY DEF StreamInv
  <1>2. UNCHANGED <<wrec, owed, sweep, bus, half, pusher, calls, watch>>
    BY DEF EmitLine, CloseLayer
  <1>3. layer \in [q : Seq(Lines), closed : BOOLEAN] /\ source \in [Sources -> 0..MaxLines]
    BY <1>1 DEF StreamTypes
  <1>4. CASE CloseLayer
    <2>1. layer' \in [q : Seq(Lines), closed : BOOLEAN] /\ layer'.q = layer.q /\ source' = source
      BY <1>3, <1>4 DEF CloseLayer
    <2>2. StreamTypes' /\ Bounded' /\ WatchersTrue' /\ PushSide'
      BY <1>1, <1>2, <2>1 DEF StreamTypes, Bounded, WatchersTrue, PushSide
    <2> QED BY <2>2 DEF StreamInv
  <1>5. CASE EmitLine
    <2> DEFINE e == <<"sandbox", source["sandbox"] + 1>>
               t == IF Len(layer.q) < ChannelCap THEN Append(layer.q, e) ELSE layer.q
    <2>1. "sandbox" \in Sources /\ "gateway" \in Sources /\ ~Quiet
      BY <1>5 DEF Sources, EmitLine
    <2>2. e \in Lines /\ source' \in [Sources -> 0..MaxLines] /\ source["sandbox"] \in Nat
      BY <1>1, <1>5, <2>1, SourceCounts DEF EmitLine
    <2>3. source'["sandbox"] = source["sandbox"] + 1 /\ source'["gateway"] = source["gateway"]
      BY <1>3, <1>5, <2>1 DEF EmitLine
    <2>4. layer' = [layer EXCEPT !.q = t]
      BY <1>5 DEF EmitLine
    <2>5. t \in Seq(Lines) /\ Len(t) <= ChannelCap /\ (t = layer.q \/ t = Append(layer.q, e)) /\ layer.q \in Seq(Lines)
      BY <1>1, <1>3, <2>2 DEF Bounded
    <2> HIDE DEF t
    <2>6. layer' \in [q : Seq(Lines), closed : BOOLEAN] /\ layer'.q = t
      BY <1>3, <2>4, <2>5
    <2>7. PushTrue(t, pusher.batch, calls, half, bus["log"].tail, source["sandbox"] + 1, source["gateway"])
      BY <1>1, <2>2, <2>5, PushEmits DEF PushSide
    <2>8. PushSide'
      BY <1>2, <2>3, <2>6, <2>7 DEF PushSide
    <2>9. StreamTypes' /\ Bounded' /\ WatchersTrue'
      BY <1>1, <1>2, <2>2, <2>5, <2>6 DEF StreamTypes, Bounded, WatchersTrue
    <2> QED BY <2>8, <2>9 DEF StreamInv
  <1> QED BY <1>4, <1>5

LEMMA StepDrainLine ==
    ASSUME StreamInv, DrainLine
    PROVE  StreamInv'
  <1> USE StreamAssumption
  <1>1. StreamTypes /\ Bounded /\ PushSide /\ WatchersTrue
    BY DEF StreamInv
  <1>2. UNCHANGED <<wrec, owed, sweep, bus, source, half, calls, watch>> /\ layer.q # <<>>
    BY DEF DrainLine
  <1> DEFINE t == IF Len(pusher.batch) < MaxBuffered THEN Append(pusher.batch, Head(layer.q)) ELSE pusher.batch
  <1>3. layer \in [q : Seq(Lines), closed : BOOLEAN] /\ layer.q \in Seq(Lines) /\ pusher.batch \in Seq(Lines)
        /\ pusher \in [pc : {"connect", "stream", "done"}, call : 0..MaxPushes, batch : Seq(Lines)]
    BY <1>1 DEF StreamTypes
  <1>4. layer' = [layer EXCEPT !.q = Tail(layer.q)] /\ pusher' = [pusher EXCEPT !.batch = t]
    BY DEF DrainLine
  <1>5. Head(layer.q) \in Lines /\ Tail(layer.q) \in Seq(Lines) /\ Len(Tail(layer.q)) = Len(layer.q) - 1 /\ Len(layer.q) \in Nat
    BY <1>2, <1>3, RangeOfTail
  <1>6. t \in Seq(Lines) /\ (t = pusher.batch \/ t = Append(pusher.batch, Head(layer.q)))
        /\ (Len(t) <= MaxBuffered \/ Len(t) < BatchSize)
    BY <1>1, <1>3, <1>5 DEF Bounded
  <1> HIDE DEF t
  <1>7. layer' \in [q : Seq(Lines), closed : BOOLEAN] /\ layer'.q = Tail(layer.q) /\ Len(layer'.q) <= ChannelCap
    <2> DEFINE x == Tail(layer.q)
    <2>1. x \in Seq(Lines) /\ Len(x) = Len(layer.q) - 1 /\ layer' = [layer EXCEPT !.q = x]
      BY <1>4, <1>5
    <2>2. Len(x) <= ChannelCap
      BY <1>1, <1>5, <2>1 DEF Bounded
    <2> HIDE DEF x
    <2>3. layer' \in [q : Seq(Lines), closed : BOOLEAN] /\ layer'.q = x
      BY <1>3, <2>1
    <2> QED BY <2>2, <2>3 DEF x
  <1>8. pusher' \in [pc : {"connect", "stream", "done"}, call : 0..MaxPushes, batch : Seq(Lines)] /\ pusher'.batch = t
        /\ pusher'.pc = pusher.pc /\ pusher'.call = pusher.call
    BY <1>3, <1>4, <1>6
  <1>9. PushTrue(Tail(layer.q), t, calls, half, bus["log"].tail, source["sandbox"], source["gateway"])
    BY <1>1, <1>2, <1>3, <1>6, PushTakes DEF PushSide
  <1>10. PushSide'
    BY <1>2, <1>7, <1>8, <1>9 DEF PushSide
  <1>11. StreamTypes' /\ Bounded' /\ WatchersTrue'
    BY <1>1, <1>2, <1>6, <1>7, <1>8 DEF StreamTypes, Bounded, WatchersTrue
  <1> QED BY <1>10, <1>11 DEF StreamInv

LEMMA StepOpenCall ==
    ASSUME StreamInv, OpenCall
    PROVE  StreamInv'
  <1> USE StreamAssumption
  <1>1. StreamTypes /\ Bounded /\ PushSide /\ WatchersTrue
    BY DEF StreamInv
  <1>2. UNCHANGED <<wrec, owed, sweep, bus, source, half, layer, watch>>
        /\ pusher' = [pc |-> "stream", call |-> pusher.call + 1, batch |-> <<>>] /\ pusher.call < MaxPushes
    BY DEF OpenCall
  <1> DEFINE c == pusher.call + 1
             t == IF pusher.batch = <<>> THEN <<>> ELSE <<pusher.batch>>
             u == [NewCall EXCEPT !.q = t]
  <1>3. calls' = [calls EXCEPT ![c] = u]
    <2> DEFINE x == IF pusher.batch = <<>> THEN NewCall.q ELSE <<pusher.batch>>
    <2>1. x = t
      BY DEF NewCall
    <2>2. calls' = [calls EXCEPT ![c] = [NewCall EXCEPT !.q = x]]
      BY DEF OpenCall
    <2> HIDE DEF x, t
    <2> QED BY <2>1, <2>2
  <1>4. pusher.call \in 0..MaxPushes /\ pusher.batch \in Seq(Lines) /\ calls \in [Calls -> CallRecs]
    BY <1>1 DEF StreamTypes
  <1>5. c \in Calls /\ c > 0 /\ c \in 0..MaxPushes
    BY <1>2, <1>4 DEF Calls
  <1>6. t \in Seq(Seq(Lines)) /\ Len(t) <= 1 /\ (t = <<>> \/ t = <<pusher.batch>>) /\ <<>> \in Seq(Lines) /\ Len(<<>>) = 0
    BY <1>4
  <1> HIDE DEF t
  <1>m. NewCall \in CallRecs /\ NewCall.todo = <<>>
    <2>1. <<>> \in Seq(Lines) /\ <<>> \in Seq(Seq(Lines))
      OBVIOUS
    <2> QED BY <2>1 DEF NewCall, CallRecs
  <1>7. u \in CallRecs /\ u.q = t /\ u.todo = <<>>
    BY <1>6, <1>m DEF CallRecs
  <1> HIDE DEF u, c
  <1>8. calls' \in [Calls -> CallRecs] /\ calls'[c] = u /\ \A d \in Calls : d # c => calls'[d] = calls[d]
    BY <1>3, <1>4, <1>5, <1>7
  <1>9. PushTrue(layer.q, <<>>, calls', half, bus["log"].tail, source["sandbox"], source["gateway"])
    BY <1>1, <1>4, <1>5, <1>6, <1>7, <1>8, PushOpens DEF PushSide
  <1>10. pusher' \in [pc : {"connect", "stream", "done"}, call : 0..MaxPushes, batch : Seq(Lines)] /\ pusher'.batch = <<>>
         /\ pusher'.call > 0
    BY <1>2, <1>5, <1>6 DEF c
  <1>11. PushSide'
    BY <1>2, <1>9, <1>10 DEF PushSide
  <1>12. \A d \in Calls : Len(calls'[d].q) <= StreamCap
    BY <1>1, <1>6, <1>7, <1>8 DEF Bounded
  <1>13. StreamTypes' /\ WatchersTrue'
    BY <1>1, <1>2, <1>8, <1>10 DEF StreamTypes, WatchersTrue
  <1>14. Bounded'
    BY <1>1, <1>2, <1>6, <1>10, <1>12 DEF Bounded
  <1> QED BY <1>11, <1>13, <1>14 DEF StreamInv

\* push_tx.send: the batch is with the call, or lost with it.
LEMMA QueueGrows ==
    ASSUME StreamTypes, Bounded, NEW c \in Calls, NEW batch \in Seq(Lines), calls[c].open => Len(calls[c].q) < StreamCap,
           calls' = [calls EXCEPT ![c].q = IF calls[c].open THEN Append(@, batch) ELSE @]
    PROVE  /\ calls' \in [Calls -> CallRecs] /\ \A d \in Calls : d # c => calls'[d] = calls[d]
           /\ calls'[c].todo = calls[c].todo
           /\ calls'[c].q = calls[c].q \/ calls'[c].q = Append(calls[c].q, batch)
           /\ \A d \in Calls : Len(calls'[d].q) <= StreamCap
  <1> DEFINE q == IF calls[c].open THEN Append(calls[c].q, batch) ELSE calls[c].q
  <1>1. calls \in [Calls -> CallRecs] /\ calls[c].q \in Seq(Seq(Lines)) /\ Len(calls[c].q) <= StreamCap /\ StreamCap \in Nat
    BY StreamAssumption DEF StreamTypes, CallRecs, Bounded
  <1>2. q \in Seq(Seq(Lines)) /\ Len(q) <= StreamCap /\ (q = calls[c].q \/ q = Append(calls[c].q, batch))
    BY <1>1
  <1>3. calls' = [calls EXCEPT ![c].q = q]
    BY <1>1
  <1> HIDE DEF q
  <1>4. /\ calls' \in [Calls -> CallRecs] /\ \A d \in Calls : d # c => calls'[d] = calls[d]
        /\ calls'[c].q = q /\ calls'[c].todo = calls[c].todo
    BY <1>1, <1>2, <1>3, QueueReplaced
  <1> QED BY <1>2, <1>4 DEF Bounded

LEMMA SentSafely ==
    ASSUME NEW ly, NEW batch \in Seq(Lines), NEW c \in Calls,
           PushTrue(ly, batch, calls, half, bus["log"].tail, source["sandbox"], source["gateway"]),
           \A d \in Calls : d # c => calls'[d] = calls[d], calls[c].q \in Seq(Seq(Lines)),
           calls'[c].todo = calls[c].todo, calls'[c].q = calls[c].q \/ calls'[c].q = Append(calls[c].q, batch)
    PROVE  PushTrue(ly, <<>>, calls', half, bus["log"].tail, source["sandbox"], source["gateway"])
  BY PushSends

\* The select loop's steps that end with the batch sent: of a line, a timer, the end.
LEMMA StepSends ==
    ASSUME StreamInv, NEW ly \in Seq(Lines), NEW batch \in Seq(Lines), NEW c \in Calls, c = pusher.call,
           PushTrue(ly, batch, calls, half, bus["log"].tail, source["sandbox"], source["gateway"]),
           layer'.q = ly, layer' \in [q : Seq(Lines), closed : BOOLEAN], Len(ly) <= ChannelCap,
           UNCHANGED <<wrec, owed, sweep, bus, source, half, watch>>,
           calls[c].open => Len(calls[c].q) < StreamCap,
           calls' = [calls EXCEPT ![c].q = IF calls[c].open THEN Append(@, batch) ELSE @],
           NEW to \in {"connect", "stream", "done"}, pusher' = [pusher EXCEPT !.batch = <<>>, !.pc = to]
    PROVE  StreamInv'
  <1> USE StreamAssumption
  <1>1. StreamTypes /\ Bounded /\ WatchersTrue
    BY DEF StreamInv
  <1>2. pusher \in [pc : {"connect", "stream", "done"}, call : 0..MaxPushes, batch : Seq(Lines)] /\ <<>> \in Seq(Lines)
        /\ calls[c].q \in Seq(Seq(Lines))
    BY <1>1 DEF StreamTypes, CallRecs
  <1>3. pusher' \in [pc : {"connect", "stream", "done"}, call : 0..MaxPushes, batch : Seq(Lines)] /\ pusher'.batch = <<>>
        /\ pusher'.call = pusher.call /\ pusher'.call > 0
    <2>1. pusher' \in [pc : {"connect", "stream", "done"}, call : 0..MaxPushes, batch : Seq(Lines)] /\ pusher'.batch = <<>>
          /\ pusher'.call = pusher.call
      BY <1>2
    <2>2. c > 0
      BY DEF Calls
    <2> QED BY <2>1, <2>2
  <1>4. /\ calls' \in [Calls -> CallRecs] /\ \A d \in Calls : d # c => calls'[d] = calls[d]
        /\ calls'[c].todo = calls[c].todo
        /\ calls'[c].q = calls[c].q \/ calls'[c].q = Append(calls[c].q, batch)
        /\ \A d \in Calls : Len(calls'[d].q) <= StreamCap
    BY <1>1, QueueGrows
  <1>5. PushTrue(ly, <<>>, calls', half, bus["log"].tail, source["sandbox"], source["gateway"])
    BY <1>2, <1>4, SentSafely
  <1>6. PushSide'
    BY <1>3, <1>5 DEF PushSide
  <1>7. StreamTypes' /\ WatchersTrue'
    BY <1>1, <1>3, <1>4 DEF StreamTypes, WatchersTrue
  <1>8. Bounded'
    <2>1. Len(<<>>) = 0 /\ (Len(pusher'.batch) <= MaxBuffered)
      BY <1>3
    <2> QED BY <1>1, <1>3, <1>4, <2>1 DEF Bounded
  <1> QED BY <1>6, <1>7, <1>8 DEF StreamInv

LEMMA StreamingCall ==
    ASSUME StreamTypes, Bounded, pusher.pc = "stream"
    PROVE  pusher.call \in Calls
  BY StreamAssumption DEF StreamTypes, Bounded, Calls

LEMMA StepTakeLine ==
    ASSUME StreamInv, TakeLine
    PROVE  StreamInv'
  <1> USE StreamAssumption
  <1>1. StreamTypes /\ Bounded /\ PushSide /\ WatchersTrue
    BY DEF StreamInv
  <1>2. UNCHANGED <<wrec, owed, sweep, bus, source, half, watch>> /\ layer.q # <<>> /\ pusher.pc = "stream"
        /\ layer' = [layer EXCEPT !.q = Tail(layer.q)]
    BY DEF TakeLine
  <1>3. layer \in [q : Seq(Lines), closed : BOOLEAN] /\ layer.q \in Seq(Lines) /\ pusher.batch \in Seq(Lines)
        /\ pusher \in [pc : {"connect", "stream", "done"}, call : 0..MaxPushes, batch : Seq(Lines)]
    BY <1>1 DEF StreamTypes
  <1> DEFINE x == Tail(layer.q)
             t == Append(pusher.batch, Head(layer.q))
             c == pusher.call
  <1>4. Head(layer.q) \in Lines /\ x \in Seq(Lines) /\ Len(x) = Len(layer.q) - 1 /\ Len(layer.q) \in Nat
    BY <1>2, <1>3, RangeOfTail
  <1>5. Len(x) <= ChannelCap
    BY <1>1, <1>4 DEF Bounded
  <1>6. layer' \in [q : Seq(Lines), closed : BOOLEAN] /\ layer'.q = x
    <2> HIDE DEF x
    <2>1. layer' = [layer EXCEPT !.q = x]
      BY <1>2 DEF x
    <2> QED BY <1>3, <1>4, <2>1
  <1>7. t \in Seq(Lines)
    BY <1>3, <1>4
  <1>8. PushTrue(x, t, calls, half, bus["log"].tail, source["sandbox"], source["gateway"])
    BY <1>1, <1>2, <1>3, PushTakes DEF PushSide
  <1>9. c \in Calls
    BY <1>1, <1>2, StreamingCall
  <1>10. \/ Len(t) >= BatchSize /\ SendBatch(t, "stream")
         \/ Len(t) < BatchSize /\ pusher' = [pusher EXCEPT !.batch = t] /\ calls' = calls
    BY <1>7 DEF TakeLine
  <1> HIDE DEF x, t
  <1>11. CASE SendBatch(t, "stream")
    <2> DEFINE to == IF calls[c].open THEN "stream" ELSE "connect"
    <2>1. /\ calls[c].open => Len(calls[c].q) < StreamCap
          /\ calls' = [calls EXCEPT ![c].q = IF calls[c].open THEN Append(@, t) ELSE @]
          /\ pusher' = [pusher EXCEPT !.batch = <<>>, !.pc = to]
      BY <1>11 DEF SendBatch
    <2>2. to \in {"connect", "stream", "done"}
      OBVIOUS
    <2> HIDE DEF to
    <2> QED BY <1>2, <1>4, <1>5, <1>6, <1>7, <1>8, <1>9, <2>1, <2>2, StepSends
  <1>12. CASE Len(t) < BatchSize /\ pusher' = [pusher EXCEPT !.batch = t] /\ calls' = calls
    <2>1. pusher' \in [pc : {"connect", "stream", "done"}, call : 0..MaxPushes, batch : Seq(Lines)] /\ pusher'.batch = t
          /\ pusher'.pc = pusher.pc /\ pusher'.call = pusher.call
      BY <1>3, <1>7, <1>12
    <2>2. PushSide'
      BY <1>2, <1>6, <1>8, <1>12, <2>1 DEF PushSide
    <2>3. StreamTypes' /\ WatchersTrue' /\ Bounded'
      BY <1>1, <1>2, <1>5, <1>6, <1>12, <2>1 DEF StreamTypes, WatchersTrue, Bounded
    <2> QED BY <2>2, <2>3 DEF StreamInv
  <1> QED BY <1>10, <1>11, <1>12

LEMMA StepFlush ==
    ASSUME StreamInv, FlushTimer \/ PushEnds
    PROVE  StreamInv'
  <1> USE StreamAssumption
  <1>1. StreamTypes /\ Bounded /\ PushSide /\ WatchersTrue
    BY DEF StreamInv
  <1>2. UNCHANGED <<wrec, owed, sweep, bus, source, half, layer, watch>> /\ pusher.pc = "stream"
    BY DEF FlushTimer, PushEnds
  <1> DEFINE c == pusher.call
             to == IF PushEnds THEN "done" ELSE IF calls[c].open THEN "stream" ELSE "connect"
  <1>3. c \in Calls /\ to \in {"connect", "stream", "done"}
    BY <1>1, <1>2, StreamingCall
  <1>4. layer \in [q : Seq(Lines), closed : BOOLEAN] /\ layer.q \in Seq(Lines) /\ pusher.batch \in Seq(Lines) /\ Len(layer.q) <= ChannelCap
        /\ pusher \in [pc : {"connect", "stream", "done"}, call : 0..MaxPushes, batch : Seq(Lines)]
    BY <1>1 DEF StreamTypes, Bounded
  <1>5. CASE PushEnds /\ pusher.batch = <<>>
    <2>1. pusher' = [pusher EXCEPT !.batch = <<>>, !.pc = "done"] /\ calls' = calls
      BY <1>5 DEF PushEnds
    <2>2. pusher' \in [pc : {"connect", "stream", "done"}, call : 0..MaxPushes, batch : Seq(Lines)] /\ pusher'.batch = pusher.batch
          /\ pusher'.call = pusher.call
      BY <1>4, <1>5, <2>1
    <2>3. pusher.call > 0
      BY <1>3 DEF Calls
    <2>4. StreamTypes' /\ Bounded' /\ WatchersTrue' /\ PushSide'
      BY <1>1, <1>2, <2>1, <2>2, <2>3 DEF StreamTypes, Bounded, WatchersTrue, PushSide
    <2> QED BY <2>4 DEF StreamInv
  <1>6. CASE ~(PushEnds /\ pusher.batch = <<>>)
    <2>1. /\ calls[c].open => Len(calls[c].q) < StreamCap
          /\ calls' = [calls EXCEPT ![c].q = IF calls[c].open THEN Append(@, pusher.batch) ELSE @]
          /\ \E x \in {"connect", "stream", "done"} : pusher' = [pusher EXCEPT !.batch = <<>>, !.pc = x]
      <3>1. CASE PushEnds
        BY <1>6, <3>1 DEF PushEnds
      <3>2. CASE FlushTimer
        BY <3>2 DEF FlushTimer, SendBatch
      <3> QED BY <3>1, <3>2
    <2>2. PushTrue(layer.q, pusher.batch, calls, half, bus["log"].tail, source["sandbox"], source["gateway"])
      BY <1>1 DEF PushSide
    <2>3. layer'.q = layer.q /\ layer' \in [q : Seq(Lines), closed : BOOLEAN]
      BY <1>2, <1>4
    <2> QED BY <1>2, <1>3, <1>4, <2>1, <2>2, <2>3, StepSends
  <1> QED BY <1>5, <1>6

LEMMA StepCallDone ==
    ASSUME StreamInv, CallDone
    PROVE  StreamInv'
  <1>1. StreamTypes /\ Bounded /\ PushSide /\ WatchersTrue
    BY DEF StreamInv
  <1>2. UNCHANGED <<wrec, owed, sweep, bus, source, half, layer, calls, watch>> /\ pusher' = [pusher EXCEPT !.pc = "connect"]
    BY DEF CallDone
  <1>3. pusher \in [pc : {"connect", "stream", "done"}, call : 0..MaxPushes, batch : Seq(Lines)]
    BY <1>1 DEF StreamTypes
  <1>4. pusher' \in [pc : {"connect", "stream", "done"}, call : 0..MaxPushes, batch : Seq(Lines)] /\ pusher'.batch = pusher.batch
        /\ pusher'.pc = "connect"
    BY <1>2, <1>3
  <1>5. StreamTypes' /\ Bounded' /\ WatchersTrue' /\ PushSide'
    BY <1>1, <1>2, <1>4 DEF StreamTypes, Bounded, WatchersTrue, PushSide
  <1> QED BY <1>5 DEF StreamInv

\* The steps on one call: it breaks, a batch of it is read, a line of it published.
LEMMA DrainedIs ==
    ASSUME NEW s \in CallRecs
    PROVE  Drained(s) \in CallRecs /\ Drained(s).q = s.q /\ Drained(s).todo = s.todo
  BY DEF Drained, CallRecs

LEMMA StepBreakCall ==
    ASSUME StreamInv, NEW c \in Calls, BreakCall(c)
    PROVE  StreamInv'
  <1>1. StreamTypes /\ Bounded /\ PushSide /\ WatchersTrue
    BY DEF StreamInv
  <1>2. UNCHANGED <<wrec, owed, sweep, bus, source, half, layer, pusher, watch>>
    BY DEF BreakCall
  <1>3. PICK k \in 0..Len(calls[c].q) :
           calls' = [calls EXCEPT ![c] = Drained([calls[c] EXCEPT !.open = FALSE, !.q = SubSeq(@, 1, k)])]
    BY DEF BreakCall
  <1> DEFINE p == SubSeq(calls[c].q, 1, k)
             v == [calls[c] EXCEPT !.open = FALSE, !.q = p]
             u == Drained(v)
  <1>4. calls \in [Calls -> CallRecs] /\ calls[c] \in CallRecs /\ calls[c].q \in Seq(Seq(Lines)) /\ Len(calls[c].q) <= StreamCap
    BY <1>1 DEF StreamTypes, CallRecs, Bounded
  <1>5. calls' = [calls EXCEPT ![c] = u]
    BY <1>3
  <1>6. p \in Seq(Seq(Lines)) /\ Len(p) <= StreamCap /\ \A i \in DOMAIN p : i \in DOMAIN calls[c].q /\ p[i] = calls[c].q[i]
    BY <1>4, StreamAssumption
  <1> HIDE DEF p
  <1>7. v \in CallRecs /\ v.q = p /\ v.todo = calls[c].todo
    BY <1>4, <1>6 DEF CallRecs
  <1> HIDE DEF v
  <1>8. u \in CallRecs /\ u.q = p /\ u.todo = calls[c].todo
    BY <1>7, DrainedIs
  <1> HIDE DEF u
  <1>9. calls' \in [Calls -> CallRecs] /\ calls'[c] = u /\ \A d \in Calls : d # c => calls'[d] = calls[d]
    BY <1>4, <1>5, <1>8
  <1>10. PushTrue(layer.q, pusher.batch, calls', half, bus["log"].tail, source["sandbox"], source["gateway"])
    BY <1>1, <1>6, <1>8, <1>9, PushBreaks DEF PushSide
  <1>11. \A d \in Calls : Len(calls'[d].q) <= StreamCap
    BY <1>1, <1>6, <1>8, <1>9 DEF Bounded
  <1>12. StreamTypes' /\ Bounded' /\ WatchersTrue' /\ PushSide'
    BY <1>1, <1>2, <1>9, <1>10, <1>11 DEF StreamTypes, Bounded, WatchersTrue, PushSide
  <1> QED BY <1>12 DEF StreamInv

LEMMA StepReceiveBatch ==
    ASSUME StreamInv, NEW c \in Calls, ReceiveBatch(c)
    PROVE  StreamInv'
  <1> USE StreamAssumption
  <1>1. StreamTypes /\ Bounded /\ PushSide /\ WatchersTrue
    BY DEF StreamInv
  <1>2. UNCHANGED <<wrec, owed, sweep, bus, source, half, layer, pusher, watch>>
        /\ calls[c].q # <<>> /\ calls[c].todo = <<>> /\ half[c] = NoLine
    BY DEF ReceiveBatch
  <1> DEFINE s == calls[c]
             t == Tail(s.q)
             k == Take(Head(s.q), TakeMax)
             no == [open |-> FALSE, q |-> <<>>, served |-> "ended", todo |-> <<>>]
             v == [s EXCEPT !.q = t, !.served = "checked", !.todo = k]
             u == IF s.served = "unchecked" /\ wrec.ver = 0 THEN no ELSE Drained(v)
  <1>3. calls' = [calls EXCEPT ![c] = u]
    BY DEF ReceiveBatch
  <1>4. calls \in [Calls -> CallRecs] /\ s \in CallRecs /\ s.q \in Seq(Seq(Lines)) /\ Len(s.q) <= StreamCap
    BY <1>1 DEF StreamTypes, CallRecs, Bounded
  <1>5. t \in Seq(Seq(Lines)) /\ Len(t) = Len(s.q) - 1 /\ Head(s.q) \in Seq(Lines) /\ Len(s.q) \in Nat
    BY <1>2, <1>4
  <1>6. k \in Seq(Lines)
    BY <1>5, TakeIs
  <1>7. no \in CallRecs /\ no.q = <<>> /\ no.todo = <<>> /\ Len(<<>>) = 0
    <2>1. <<>> \in Seq(Lines) /\ <<>> \in Seq(Seq(Lines)) /\ Len(<<>>) = 0
      OBVIOUS
    <2> QED BY <2>1 DEF CallRecs
  <1>8. Len(t) <= StreamCap
    BY <1>4, <1>5
  <1> HIDE DEF t, k, no
  <1>9. v \in CallRecs /\ v.q = t /\ v.todo = k
    BY <1>4, <1>5, <1>6 DEF CallRecs
  <1> HIDE DEF v
  <1>10. u \in CallRecs /\ ((u.q = <<>> /\ u.todo = <<>>) \/ (u.q = t /\ u.todo = k))
    BY <1>7, <1>9, DrainedIs
  <1> HIDE DEF u
  <1>11. calls' \in [Calls -> CallRecs] /\ calls'[c] = u /\ \A d \in Calls : d # c => calls'[d] = calls[d]
    BY <1>3, <1>4, <1>10
  <1>12. PushTrue(layer.q, pusher.batch, calls', half, bus["log"].tail, source["sandbox"], source["gateway"])
    <2>1. \/ calls'[c].q = <<>> /\ calls'[c].todo = <<>>
          \/ calls'[c].q = Tail(calls[c].q) /\ calls'[c].todo = Take(Head(calls[c].q), TakeMax)
      BY <1>10, <1>11 DEF t, k
    <2> QED BY <1>1, <1>2, <1>4, <1>11, <2>1, PushReceives DEF PushSide
  <1>13. \A d \in Calls : Len(calls'[d].q) <= StreamCap
    BY <1>1, <1>7, <1>8, <1>10, <1>11 DEF Bounded
  <1>14. StreamTypes' /\ Bounded' /\ WatchersTrue' /\ PushSide'
    BY <1>1, <1>2, <1>11, <1>12, <1>13 DEF StreamTypes, Bounded, WatchersTrue, PushSide
  <1> QED BY <1>14 DEF StreamInv

LEMMA PublishedSafely ==
    ASSUME PushTrue(layer.q, pusher.batch, calls, half, bus["log"].tail, source["sandbox"], source["gateway"]),
           NEW c \in Calls, \A d \in Calls : d # c => calls'[d] = calls[d] /\ half'[d] = half[d],
           half'[OwnLayer] = half[OwnLayer], half'[EventTailer] = half[EventTailer],
           calls[c].todo \in Seq(Lines), calls[c].todo # <<>>, half[c] = NoLine,
           calls'[c].q = calls[c].q, calls'[c].todo = Tail(calls[c].todo), half'[c] = Head(calls[c].todo)
    PROVE  PushTrue(layer.q, pusher.batch, calls', half', bus["log"].tail, source["sandbox"], source["gateway"])
  BY PushPublishes

LEMMA StepPublishPushed ==
    ASSUME StreamInv, NEW c \in Calls, PublishPushed(c)
    PROVE  StreamInv'
  <1> USE StreamAssumption
  <1>1. StreamTypes /\ Bounded /\ PushSide /\ WatchersTrue
    BY DEF StreamInv
  <1> DEFINE e == Head(calls[c].todo)
             t == Tail(calls[c].todo)
             u == [calls[c] EXCEPT !.todo = t]
  <1>2. UNCHANGED <<wrec, owed, sweep, bus, source, layer, pusher>> /\ calls[c].todo # <<>> /\ Publish(c, e)
    BY DEF PublishPushed
  <1>3. calls' = [calls EXCEPT ![c] = u]
    BY <1>1 DEF PublishPushed, StreamTypes
  <1>4. calls \in [Calls -> CallRecs] /\ calls[c] \in CallRecs /\ calls[c].todo \in Seq(Lines) /\ c \in Publishers
    BY <1>1 DEF StreamTypes, CallRecs, Publishers
  <1>5. e \in Lines /\ t \in Seq(Lines)
    BY <1>2, <1>4
  <1>6. half' = [half EXCEPT ![c] = e] /\ half \in [Publishers -> Lines \cup {NoLine}] /\ half[c] = NoLine
    BY <1>1, <1>2 DEF Publish, StreamTypes
  <1>7. /\ watch' \in [Watchers -> WatchRecs]
        /\ \A w \in Watchers : WatchTrue(watch'[w], bus, half', owed, sweep, wrec)
    BY <1>1, <1>2, <1>4, <1>5, Publishes
  <1> HIDE DEF t, e
  <1>8. u \in CallRecs /\ u.q = calls[c].q /\ u.todo = t
    BY <1>4, <1>5 DEF CallRecs
  <1> HIDE DEF u
  <1>9. calls' \in [Calls -> CallRecs] /\ calls'[c] = u /\ \A d \in Calls : d # c => calls'[d] = calls[d]
    BY <1>3, <1>4, <1>8
  <1>10. half' \in [Publishers -> Lines \cup {NoLine}] /\ half'[c] = e /\ \A d \in Publishers : d # c => half'[d] = half[d]
    BY <1>4, <1>5, <1>6
  <1>11. Calls \subseteq Publishers /\ OwnLayer \in Publishers /\ EventTailer \in Publishers /\ c # OwnLayer /\ c # EventTailer
    BY DEF OwnLayer, EventTailer, Calls, Publishers
  <1>12. PushTrue(layer.q, pusher.batch, calls', half', bus["log"].tail, source["sandbox"], source["gateway"])
    <2>1. calls'[c].q = calls[c].q /\ calls'[c].todo = Tail(calls[c].todo) /\ half'[c] = Head(calls[c].todo)
      BY <1>8, <1>9, <1>10 DEF t, e
    <2>2. \A d \in Calls : d # c => calls'[d] = calls[d] /\ half'[d] = half[d]
      BY <1>9, <1>10, <1>11
    <2>3. half'[OwnLayer] = half[OwnLayer] /\ half'[EventTailer] = half[EventTailer]
      BY <1>10, <1>11
    <2>4. PushTrue(layer.q, pusher.batch, calls, half, bus["log"].tail, source["sandbox"], source["gateway"])
      BY <1>1 DEF PushSide
    <2> QED BY <1>2, <1>4, <1>6, <2>1, <2>2, <2>3, <2>4, PublishedSafely
  <1>13. \A d \in Calls : Len(calls'[d].q) <= StreamCap
    BY <1>1, <1>8, <1>9 DEF Bounded
  <1>14. StreamTypes' /\ Bounded'
    BY <1>1, <1>2, <1>7, <1>9, <1>10, <1>13 DEF StreamTypes, Bounded
  <1>15. WatchersTrue' /\ PushSide'
    BY <1>2, <1>7, <1>12 DEF WatchersTrue, PushSide
  <1> QED BY <1>14, <1>15 DEF StreamInv

LEMMA StreamStarts == StreamInit => StreamInv
  <1> USE StreamAssumption
  <1> SUFFICES ASSUME StreamInit PROVE StreamInv
    OBVIOUS
  <1>1. <<>> \in Seq(Lines) /\ <<>> \in Seq(Seq(Lines)) /\ <<>> \in Seq(Lines \cup {NoLine}) /\ Len(<<>>) = 0
    OBVIOUS
  <1>2. \A b \in Buses : bus[b] = [gen |-> 1, tail |-> <<>>]
    BY DEF StreamInit
  <1>3. bus \in [Buses -> [gen : 1..3, tail : Seq(Lines)]] /\ \A b \in Buses : bus[b].gen = 1 /\ bus[b].tail = <<>>
    BY <1>1, <1>2 DEF StreamInit
  <1> DEFINE no == [open |-> FALSE, q |-> <<>>, served |-> "ended", todo |-> <<>>]
  <1>4. calls = [c \in Calls |-> no]
    BY DEF StreamInit
  <1>m. no \in CallRecs /\ no.q = <<>> /\ no.todo = <<>>
    BY <1>1 DEF CallRecs
  <1> HIDE DEF no
  <1>5. \A c \in Calls : calls[c] \in CallRecs /\ calls[c].q = <<>> /\ calls[c].todo = <<>>
    BY <1>4, <1>m
  <1>6. calls \in [Calls -> CallRecs]
    BY <1>4, <1>m
  <1>7. NoReceiver \in RxRecs /\ NoReceiver.gen = 0
    BY <1>1 DEF NoReceiver, RxRecs
  <1> DEFINE x == [b \in Buses |-> NoReceiver]
  <1>8. x \in [Buses -> RxRecs] /\ \A b \in Buses : x[b].gen = 0
    BY <1>7
  <1>9. NoWatch = [pc |-> "idle", stop |-> FALSE, seen |-> 0, out |-> {}, excused |-> {}, rx |-> x]
    BY DEF NoWatch
  <1> HIDE DEF x
  <1>10. NoWatch \in WatchRecs /\ NoWatch.rx = x /\ NoWatch.pc = "idle"
    BY <1>8, <1>9 DEF WatchRecs
  <1>11. watch \in [Watchers -> WatchRecs] /\ \A w \in Watchers : watch[w] = NoWatch
    BY <1>10 DEF StreamInit
  <1>12. WatchersTrue
    BY <1>3, <1>8, <1>10, <1>11 DEF WatchersTrue, WatchTrue, TailsTrue, Subscribers
  <1>13. layer \in [q : Seq(Lines), closed : BOOLEAN] /\ layer.q = <<>>
    BY <1>1 DEF StreamInit
  <1>14. pusher \in [pc : {"connect", "stream", "done"}, call : 0..MaxPushes, batch : Seq(Lines)] /\ pusher.batch = <<>>
         /\ pusher.pc = "connect"
    BY <1>1 DEF StreamInit
  <1>15. wrec \in [ver : 0..MaxRecVer, ready : BOOLEAN] /\ wrec.ver = 1 /\ owed = 0 /\ sweep = "none"
    BY DEF StreamInit
  <1>16. source \in [Sources -> 0..MaxLines] /\ half \in [Publishers -> Lines \cup {NoLine}]
         /\ \A p \in Publishers : half[p] = NoLine
    BY DEF StreamInit
  <1>17. StreamTypes
    BY <1>3, <1>6, <1>11, <1>13, <1>14, <1>15, <1>16 DEF StreamTypes
  <1>18. Bounded
    BY <1>1, <1>3, <1>5, <1>13, <1>14, <1>15 DEF Bounded
  <1>19. OwnLayer \in Publishers /\ EventTailer \in Publishers /\ Calls \subseteq Publishers /\ bus["log"].tail = <<>>
    BY <1>3 DEF Publishers, Buses
  <1>20. \A c \in Calls : Content(calls[c], half[c]) = {} /\ CallDistinct(calls[c], half[c])
    BY <1>5, <1>16, <1>19, EmptyRange DEF Content, CallDistinct
  <1>21. PushSide
    BY <1>13, <1>14, <1>16, <1>19, <1>20, EmptyRange DEF PushSide, PushTrue, Supply, CallsApart, TailTrue
  <1> QED BY <1>12, <1>17, <1>18, <1>21 DEF StreamInv

LEMMA StreamKept == StreamInv /\ [StreamNext]_streamVars => StreamInv'
  <1> SUFFICES ASSUME StreamInv, [StreamNext]_streamVars PROVE StreamInv'
    OBVIOUS
  <1>1. CASE SupervisorNext
    BY <1>1, StepLayer, StepDrainLine, StepOpenCall, StepTakeLine, StepFlush, StepCallDone DEF SupervisorNext
  <1>2. CASE GatewayNext
    BY <1>2, StepGatewayLine, StepRecord, StepNotify, StepBuses, StepAppendTail, StepBreakCall, StepReceiveBatch,
       StepPublishPushed DEF GatewayNext
  <1>3. ASSUME NEW w \in Watchers, WatchNext(w) PROVE StreamInv'
    <2>1. StreamTypes /\ Bounded /\ PushSide /\ WatchersTrue
      BY DEF StreamInv
    <2>2. /\ UNCHANGED <<wrec, owed, sweep, bus, source, half, layer, pusher, calls>>
          /\ watch' \in [Watchers -> WatchRecs]
          /\ \A v \in Watchers : WatchTrue(watch'[v], bus, half, owed, sweep, wrec)
      BY <1>3, <2>1, WatcherStep
    <2>3. StreamTypes' /\ Bounded' /\ PushSide' /\ WatchersTrue'
      BY <2>1, <2>2 DEF StreamTypes, Bounded, PushSide, WatchersTrue
    <2> QED BY <2>3 DEF StreamInv
  <1>4. CASE UNCHANGED streamVars
    BY <1>4 DEF streamVars, StreamInv, StreamTypes, Bounded, PushSide, WatchersTrue
  <1> QED BY <1>1, <1>2, <1>3, <1>4 DEF StreamNext

\* What the invariant gives.
LEMMA StreamGives == StreamInv => StreamSound
  <1> SUFFICES ASSUME StreamInv PROVE StreamSound
    OBVIOUS
  <1>1. StreamTypes /\ Bounded /\ PushSide /\ WatchersTrue
    BY DEF StreamInv
  <1>2. \A b \in Buses : bus[b].gen \in 1..3 /\ bus[b].tail \in Seq(Lines)
    BY <1>1 DEF StreamTypes
  <1>3. \A b \in Buses : Range(bus[b].tail) \subseteq Lines
    BY <1>2 DEF Range
  <1>4. StreamTypeOK
    BY <1>1, <1>2, <1>3 DEF StreamTypeOK, StreamTypes, Bounded, CallRecs, WatchRecs
  <1>5. NothingMissed
    <2> SUFFICES ASSUME NEW w \in Watchers, watch[w].pc = "loop"
                 PROVE  /\ Current(w, "status") /\ watch[w].rx["status"].q = <<>> /\ owed = 0 /\ sweep # "due"
                              => watch[w].seen = wrec.ver
                        /\ \A b \in {"log", "platform"} : Current(w, b) =>
                              Range(bus[b].tail) \subseteq Held(w) \cup watch[w].excused
      BY DEF NothingMissed
    <2>1. WatchTrue(watch[w], bus, half, owed, sweep, wrec)
      BY <1>1 DEF WatchersTrue
    <2>2. \A b \in Buses : Current(w, b) = Fits(watch[w], b, bus)
      BY DEF Current, Fits
    <2>3. \A b \in {"log", "platform"} : Has(watch[w], b) \subseteq Held(w) \cup watch[w].excused
      BY DEF Has, Held
    <2>4. \A b \in {"log", "platform"} : Current(w, b) => Range(bus[b].tail) \subseteq Has(watch[w], b)
      BY <2>1, <2>2 DEF WatchTrue, TailsTrue, Buses
    <2>5. Current(w, "status") /\ watch[w].rx["status"].q = <<>> /\ owed = 0 /\ sweep # "due" => watch[w].seen = wrec.ver
      BY <2>1, <2>2 DEF WatchTrue, SeenTrue, Buses
    <2> QED BY <2>3, <2>4, <2>5
  <1>6. PushedOnce
    <2> DEFINE A == bus["log"].tail
               U == UNION {Range(b) : b \in UNION {Range(calls[c].q) : c \in Calls}}
               T == UNION {Range(calls[c].todo) : c \in Calls}
    <2>1. A \in Seq(Lines) /\ Distinct(A) /\ Range(A) \cap Range(layer.q) = {} /\ Range(A) \cap Range(pusher.batch) = {}
          /\ \A c \in Calls : Content(calls[c], half[c]) \cap Range(A) = {}
      BY <1>1, <1>2 DEF PushSide, PushTrue, TailTrue, Supply, CallsApart, Buses
    <2>2. \A c \in Calls : Range(calls[c].todo) \cap Range(A) = {} /\ Queued(calls[c].q) \cap Range(A) = {}
      BY <2>1 DEF Content
    <2>3. T \cap Range(A) = {}
      BY <2>2
    <2>4. \A c \in Calls : \A b \in Range(calls[c].q) : Range(b) \cap Range(A) = {}
      <3> TAKE c \in Calls
      <3>1. \A i \in DOMAIN calls[c].q : Range(calls[c].q[i]) \cap Range(A) = {}
        BY <2>2, QueuedHas
      <3>2. \A b \in Range(calls[c].q) : \E i \in DOMAIN calls[c].q : b = calls[c].q[i]
        BY DEF Range
      <3> QED BY <3>1, <3>2
    <2>5. U \cap Range(A) = {}
      BY <2>4
    <2>6. \A i, j \in 1..Len(A) : A[i] = A[j] => i = j
      BY <2>1 DEF Distinct
    <2>7. Range(A) \cap (Range(layer.q) \cup Range(pusher.batch) \cup U \cup T) = {}
      <3> HIDE DEF A, U, T
      <3> QED BY <2>1, <2>3, <2>5
    <2> QED BY <2>6, <2>7 DEF PushedOnce
  <1> QED BY <1>4, <1>5, <1>6 DEF StreamSound

\* However lines, pushes, reconnections and watchers interleave, the buffers keep
\* their bounds, a watcher in its loop misses nothing (handle_watch_sandbox
\* subscribes before it reads) and no line comes twice (run_push_loop, publish).
THEOREM NothingIsMissed == StreamSpec => []StreamSound
  <1>1. StreamInit => StreamInv
    BY StreamStarts
  <1>2. StreamInv /\ [StreamNext]_streamVars => StreamInv'
    BY StreamKept
  <1>3. StreamInv => StreamSound
    BY StreamGives
  <1> QED BY <1>1, <1>2, <1>3, PTL DEF StreamSpec

-----------------------------------------------------------------------------
(* InferenceRoutes: a bundle is one user route at most, then one system    *)
(* route at most, so that its two parts put together are the bundle.       *)

InfRoutes == [name : RouteNames, prov : InfProviders, gen : Nat]
InfConnRecs ==
    [pc : {"idle", "read", "lock", "send", "stream", "done"}, proto : DefaultPatterns \cup {"none", "system"}, bytes : 0..2,
     routed : BOOLEAN, used : InfRoutes \cup {NoRoute}, out : {"none", "routed", "denied", "error"}]

InfTypes ==
    /\ provs \in [InfProviders -> [gen : 0..MaxProvGen, key : BOOLEAN]]
    /\ routes \in [RouteNames -> [prov : InfProviders \cup {"none"}, ver : 0..MaxRouteVer]]
    /\ sets \in [InfAdmins -> [pc : {"idle", "verify", "read", "put"}, name : RouteNames, prov : InfProviders \cup {"none"},
                               base : 0..MaxRouteVer]]
    /\ fetch \in [pc : {"idle", "user", "system", "got", "error", "writeUser", "writeSystem"}, found : Seq(InfRoutes)]
    /\ ctx \in [mode : {"boot", "off", "file", "cluster"}, rev : Seq(InfRoutes), cache : [RouteNames -> Seq(InfRoutes)]]
    /\ icon \in [InfConns -> InfConnRecs]

\* A stored route, and one that is about to be stored, names a provider.
RoutesNamed ==
    /\ \A n \in RouteNames : routes[n].ver > 0 => routes[n].prov \in InfProviders
    /\ \A a \in InfAdmins : sets[a].pc # "idle" => sets[a].prov \in InfProviders

IsBundle(f) == f = <<>> \/ Len(f) = 1 \/ (Len(f) = 2 /\ f[1].name = "user" /\ f[2].name = "system")
UsersOnly(s) == \A i \in DOMAIN s : s[i].name = "user"

\* What has been fetched so far, and what of it has been written.
FetchTrue(f, x) ==
    /\ f.pc = "user" => f.found = <<>>
    /\ f.pc = "system" => f.found = <<>> \/ (Len(f.found) = 1 /\ f.found[1].name = "user")
    /\ f.pc \in {"got", "writeUser", "writeSystem"} => IsBundle(f.found)
    /\ f.pc \in {"writeUser", "writeSystem"} => x.mode = "cluster" /\ x.rev = f.found
    /\ f.pc = "writeSystem" => x.cache["user"] = PartitionRoutes(f.found)["user"]
    /\ f.pc \notin {"writeUser", "writeSystem"} /\ x.mode = "cluster" => x.rev = x.cache["user"] \o x.cache["system"]

\* A request in flight keeps a route of the cache; none is before there are routes.
ConnTrue(k, x) ==
    /\ x.mode = "boot" => k.pc = "idle"
    /\ k.pc = "stream" => /\ \E i \in DOMAIN x.cache["user"] : k.used = x.cache["user"][i]
                          /\ k.used.name = "user" /\ k.proto \in InfProtocols[k.used.prov]

InfInv ==
    /\ InfTypes /\ RoutesNamed /\ FetchTrue(fetch, ctx) /\ UsersOnly(ctx.cache["user"])
    /\ \A c \in InfConns : ConnTrue(icon[c], ctx)

\* The parts of a list of routes: routes of the list, the user part without system routes.
LEMMA PartsAre ==
    ASSUME NEW f \in Seq(InfRoutes)
    PROVE  PartitionRoutes(f) \in [RouteNames -> Seq(InfRoutes)] /\ UsersOnly(PartitionRoutes(f)["user"])
  <1> DEFINE S(n) == {i \in DOMAIN f : (f[i].name = "system") <=> (n = "system")}
             P == PartitionRoutes(f)
  <1>1. P = [n \in RouteNames |-> PickAt(f, S(n))]
    BY DEF PartitionRoutes
  <1>2. \A n \in RouteNames : S(n) \in SUBSET DOMAIN f
    OBVIOUS
  <1>3. \A i \in S("user") : i \in DOMAIN f /\ f[i].name # "system" /\ f[i] \in InfRoutes
    OBVIOUS
  <1> HIDE DEF S, P
  <1>4. \A n \in RouteNames : PickAt(f, S(n)) \in Seq(InfRoutes)
    BY <1>2, PickedIs
  <1>5. P \in [RouteNames -> Seq(InfRoutes)]
    BY <1>1, <1>4
  <1>6. "user" \in RouteNames /\ P["user"] = PickAt(f, S("user"))
    BY <1>1 DEF RouteNames
  <1>7. \A n \in DOMAIN PickAt(f, S("user")) : \E i \in S("user") : PickAt(f, S("user"))[n] = f[i]
    BY <1>2, <1>6, PickedIs
  <1>8. \A i \in S("user") : f[i].name = "user"
    BY <1>3 DEF InfRoutes, RouteNames
  <1>9. UsersOnly(P["user"])
    BY <1>6, <1>7, <1>8 DEF UsersOnly
  <1> QED BY <1>5, <1>9 DEF P

\* The two parts of a bundle put together are the bundle.
LEMMA PartsMakeBundle ==
    ASSUME NEW f \in Seq(InfRoutes), IsBundle(f)
    PROVE  f = PartitionRoutes(f)["user"] \o PartitionRoutes(f)["system"]
  <1> DEFINE U == {i \in DOMAIN f : f[i].name # "system"}
             Y == {i \in DOMAIN f : f[i].name = "system"}
             P == PartitionRoutes(f)
  <1>1. P["user"] = PickAt(f, U) /\ P["system"] = PickAt(f, Y)
    <2>1. U = {i \in DOMAIN f : (f[i].name = "system") <=> ("user" = "system")}
      OBVIOUS
    <2>2. Y = {i \in DOMAIN f : (f[i].name = "system") <=> ("system" = "system")}
      OBVIOUS
    <2> HIDE DEF U, Y
    <2> QED BY <2>1, <2>2 DEF PartitionRoutes, RouteNames
  <1>2. DOMAIN f = 1..Len(f) /\ Len(f) \in Nat
    OBVIOUS
  <1> SUFFICES f = PickAt(f, U) \o PickAt(f, Y)
    BY <1>1
  <1>3. CASE f = <<>>
    <2>1. U = {} /\ Y = {}
      BY <1>3
    <2> HIDE DEF U, Y
    <2>2. PickAt(f, U) = <<>> /\ PickAt(f, Y) = <<>>
      BY <2>1, PickNone
    <2> QED BY <1>3, <2>2
  <1>4. CASE Len(f) = 1
    <2>1. DOMAIN f = {1} /\ f = <<f[1]>> /\ f[1] \in InfRoutes
      BY <1>4
    <2> DEFINE q == <<f[1]>>
    <2>2. q \in Seq(InfRoutes) /\ q \o <<>> = q /\ <<>> \o q = q
      BY <2>1
    <2>3. PickAt(f, {1}) = q /\ PickAt(f, {}) = <<>>
      BY PickOne, PickNone
    <2>4. CASE f[1].name = "system"
      <3>1. U = {} /\ Y = {1}
        BY <2>1, <2>4
      <3> HIDE DEF U, Y, q
      <3> QED BY <2>1, <2>2, <2>3, <3>1 DEF q
    <2>5. CASE f[1].name # "system"
      <3>1. U = {1} /\ Y = {}
        BY <2>1, <2>5
      <3> HIDE DEF U, Y, q
      <3> QED BY <2>1, <2>2, <2>3, <3>1 DEF q
    <2> QED BY <2>4, <2>5
  <1>5. CASE Len(f) = 2 /\ f[1].name = "user" /\ f[2].name = "system"
    <2>1. DOMAIN f = {1, 2} /\ f[1] \in InfRoutes /\ f[2] \in InfRoutes
      BY <1>5
    <2>2. U = {1} /\ Y = {2}
      BY <1>5, <2>1
    <2> HIDE DEF U, Y
    <2>3. PickAt(f, U) = <<f[1]>> /\ PickAt(f, Y) = <<f[2]>>
      BY <2>2, PickOne
    <2> DEFINE x == <<f[1]>>
               y == <<f[2]>>
    <2>4. x \in Seq(InfRoutes) /\ y \in Seq(InfRoutes) /\ Len(x) = 1 /\ Len(y) = 1 /\ x[1] = f[1] /\ y[1] = f[2]
      BY <2>1
    <2> HIDE DEF x, y
    <2>5. /\ x \o y \in Seq(InfRoutes) /\ Len(x \o y) = Len(x) + Len(y)
          /\ \A i \in 1..(Len(x) + Len(y)) : (x \o y)[i] = IF i <= Len(x) THEN x[i] ELSE y[i - Len(x)]
      BY <2>4, ConcatProperties
    <2>6. Len(x \o y) = 2 /\ (x \o y)[1] = f[1] /\ (x \o y)[2] = f[2]
      BY <2>4, <2>5
    <2>7. \A i \in 1..2 : i = 1 \/ i = 2
      OBVIOUS
    <2>8. \A i \in 1..Len(f) : f[i] = (x \o y)[i]
      BY <1>5, <2>6, <2>7
    <2>9. f = x \o y
      BY <1>5, <2>5, <2>6, <2>8, SeqEqual
    <2> QED BY <2>3, <2>9 DEF x, y
  <1> QED BY <1>3, <1>4, <1>5 DEF IsBundle

\* The route a request is sent with is the first that speaks its protocol.
LEMMA CandidateIs ==
    ASSUME NEW proto, NEW s \in Seq(InfRoutes), ProxyWithCandidates(proto, s) # NoRoute
    PROVE  \E i \in DOMAIN s : /\ ProxyWithCandidates(proto, s) = s[i] /\ s[i] \in InfRoutes
                               /\ proto \in InfProtocols[s[i].prov]
  <1> DEFINE S == {i \in DOMAIN s : proto \in InfProtocols[s[i].prov]}
             m == FirstAt(s, S)
  <1>1. S # {} /\ ProxyWithCandidates(proto, s) = s[m]
    BY DEF ProxyWithCandidates
  <1>2. S \in SUBSET Nat
    OBVIOUS
  <1>3. \A j \in S : j \in DOMAIN s /\ s[j] \in InfRoutes /\ proto \in InfProtocols[s[j].prov]
    OBVIOUS
  <1> HIDE DEF S
  <1>4. m \in S
    BY <1>1, <1>2, FirstAtIs
  <1> QED BY <1>1, <1>3, <1>4

\* Steps of the gateway: the records change, and no route names less than a provider.
LEMMA InfRecordSteps ==
    ASSUME InfInv,
           \/ \E p \in InfProviders : ChangeProvider(p) \/ RemoveProvider(p)
           \/ \E a \in InfAdmins : SetClusterInference(a) \/ VerifyProviderEndpoint(a) \/ ReadRoute(a) \/ PutRoute(a)
    PROVE  InfInv'
  <1> DEFINE SetRecs == [pc : {"idle", "verify", "read", "put"}, name : RouteNames, prov : InfProviders \cup {"none"},
                         base : 0..MaxRouteVer]
             RouteRecs == [prov : InfProviders \cup {"none"}, ver : 0..MaxRouteVer]
             ProvRecs == [gen : 0..MaxProvGen, key : BOOLEAN]
  <1>1. /\ provs \in [InfProviders -> ProvRecs] /\ routes \in [RouteNames -> RouteRecs] /\ sets \in [InfAdmins -> SetRecs]
        /\ MaxProvGen \in Nat /\ MaxRouteVer \in Nat
    BY InfAssumption DEF InfInv, InfTypes
  <1>2. UNCHANGED <<fetch, ctx, icon>>
    BY DEF ChangeProvider, RemoveProvider, SetClusterInference, VerifyProviderEndpoint, ReadRoute, PutRoute
  <1>3. SUFFICES /\ provs' \in [InfProviders -> ProvRecs] /\ routes' \in [RouteNames -> RouteRecs] /\ sets' \in [InfAdmins -> SetRecs]
                 /\ \A n \in RouteNames : routes'[n].ver > 0 => routes'[n].prov \in InfProviders
                 /\ \A a \in InfAdmins : sets'[a].pc # "idle" => sets'[a].prov \in InfProviders
    BY <1>2 DEF InfInv, InfTypes, RoutesNamed
  <1>4. NoSet \in SetRecs /\ NoSet.pc = "idle" /\ 0 \in 0..MaxRouteVer /\ 0 \in 0..MaxProvGen
    BY <1>1 DEF NoSet, RouteNames
  <1>5. CASE \E p \in InfProviders : ChangeProvider(p) \/ RemoveProvider(p)
    <2>1. PICK p \in InfProviders : ChangeProvider(p) \/ RemoveProvider(p)
      BY <1>5
    <2>2. UNCHANGED <<routes, sets>> /\ \E x \in ProvRecs : provs' = [provs EXCEPT ![p] = x]
      <3>1. CASE ChangeProvider(p)
        <4>1. PICK key \in BOOLEAN : provs' = [provs EXCEPT ![p] = [gen |-> @.gen + 1, key |-> key]]
          BY <3>1 DEF ChangeProvider
        <4>2. provs[p].gen < MaxProvGen /\ provs[p] \in ProvRecs
          BY <1>1, <3>1 DEF ChangeProvider
        <4>3. provs[p].gen + 1 \in 0..MaxProvGen
          BY <1>1, <4>2
        <4>4. [gen |-> provs[p].gen + 1, key |-> key] \in ProvRecs
          BY <4>3
        <4>5. provs' = [provs EXCEPT ![p] = [gen |-> provs[p].gen + 1, key |-> key]]
          BY <4>1
        <4> QED BY <3>1, <4>4, <4>5 DEF ChangeProvider
      <3>2. CASE RemoveProvider(p)
        <4>1. [gen |-> 0, key |-> FALSE] \in ProvRecs
          BY <1>4
        <4> QED BY <3>2, <4>1 DEF RemoveProvider
      <3> QED BY <2>1, <3>1, <3>2
    <2>3. provs' \in [InfProviders -> ProvRecs]
      BY <1>1, <2>2
    <2> QED BY <1>1, <2>2, <2>3 DEF InfInv, RoutesNamed
  <1>6. CASE \E a \in InfAdmins : SetClusterInference(a) \/ VerifyProviderEndpoint(a) \/ ReadRoute(a) \/ PutRoute(a)
    <2>1. PICK a \in InfAdmins : SetClusterInference(a) \/ VerifyProviderEndpoint(a) \/ ReadRoute(a) \/ PutRoute(a)
      BY <1>6
    <2> DEFINE s == sets[a]
    <2>2. s \in SetRecs /\ (s.pc # "idle" => s.prov \in InfProviders) /\ s.name \in RouteNames
      BY <1>1 DEF InfInv, RoutesNamed
    <2>3. SUFFICES /\ \E x \in SetRecs : sets' = [sets EXCEPT ![a] = x] /\ (x.pc # "idle" => x.prov \in InfProviders)
                   /\ UNCHANGED provs
                   /\ routes' = routes \/ \E r \in RouteRecs : r.prov \in InfProviders /\ routes' = [routes EXCEPT ![s.name] = r]
      <3>1. provs' \in [InfProviders -> ProvRecs]
        BY <1>1, <2>3
      <3>2. sets' \in [InfAdmins -> SetRecs] /\ \A b \in InfAdmins : sets'[b].pc # "idle" => sets'[b].prov \in InfProviders
        <4>1. PICK x \in SetRecs : sets' = [sets EXCEPT ![a] = x] /\ (x.pc # "idle" => x.prov \in InfProviders)
          BY <2>3
        <4> QED BY <1>1, <4>1 DEF InfInv, RoutesNamed
      <3>3. routes' \in [RouteNames -> RouteRecs] /\ \A n \in RouteNames : routes'[n].ver > 0 => routes'[n].prov \in InfProviders
        <4>1. CASE routes' = routes
          BY <1>1, <4>1 DEF InfInv, RoutesNamed
        <4>2. CASE routes' # routes
          <5>1. PICK r \in RouteRecs : r.prov \in InfProviders /\ routes' = [routes EXCEPT ![s.name] = r]
            BY <2>3, <4>2
          <5> HIDE DEF s
          <5> QED BY <1>1, <2>2, <5>1 DEF InfInv, RoutesNamed
        <4> QED BY <4>1, <4>2
      <3> QED BY <3>1, <3>2, <3>3
    <2>4. CASE SetClusterInference(a)
      <3>1. PICK name \in {"", "user", "system", "other"}, p \in InfProviders :
          LET n == EffectiveRouteName(name)
          IN  sets' = [sets EXCEPT ![a] = IF n \in RouteNames /\ ResolveProviderRoute(p)
                                          THEN [pc |-> "verify", name |-> n, prov |-> p, base |-> 0]
                                          ELSE NoSet]
        BY <2>4 DEF SetClusterInference
      <3> DEFINE n == EffectiveRouteName(name)
      <3>2. UNCHANGED <<provs, routes>>
        BY <2>4 DEF SetClusterInference
      <3>3. CASE n \in RouteNames /\ ResolveProviderRoute(p)
        <4> DEFINE x == [pc |-> "verify", name |-> n, prov |-> p, base |-> 0]
        <4>1. x \in SetRecs /\ x.prov \in InfProviders
          BY <1>4, <3>3
        <4>2. sets' = [sets EXCEPT ![a] = x]
          BY <3>1, <3>3
        <4> HIDE DEF x
        <4> QED BY <3>2, <4>1, <4>2
      <3>4. CASE ~(n \in RouteNames /\ ResolveProviderRoute(p))
        BY <1>4, <3>1, <3>2, <3>4
      <3> QED BY <3>3, <3>4
    <2>5. CASE VerifyProviderEndpoint(a)
      <3>1. s.pc = "verify" /\ UNCHANGED <<provs, routes>>
            /\ (sets' = [sets EXCEPT ![a] = [@ EXCEPT !.pc = "read"]] \/ sets' = [sets EXCEPT ![a] = NoSet])
        BY <2>5 DEF VerifyProviderEndpoint
      <3>2. CASE sets' = [sets EXCEPT ![a] = [@ EXCEPT !.pc = "read"]]
        <4> DEFINE x == [s EXCEPT !.pc = "read"]
        <4>1. x \in SetRecs /\ x.prov \in InfProviders
          BY <2>2, <3>1
        <4>2. sets' = [sets EXCEPT ![a] = x]
          BY <3>2
        <4> HIDE DEF x
        <4> QED BY <3>1, <4>1, <4>2
      <3>3. CASE sets' = [sets EXCEPT ![a] = NoSet]
        BY <1>4, <3>1, <3>3
      <3> QED BY <3>1, <3>2, <3>3
    <2>6. CASE ReadRoute(a)
      <3> DEFINE v == routes[s.name].ver
                 x == [s EXCEPT !.pc = "put", !.base = v]
      <3>1. s.pc = "read" /\ UNCHANGED <<provs, routes>> /\ sets' = [sets EXCEPT ![a].pc = "put", ![a].base = v]
        BY <2>6 DEF ReadRoute
      <3>2. v \in 0..MaxRouteVer
        BY <1>1, <2>2
      <3> HIDE DEF v
      <3>3. x \in SetRecs /\ x.prov \in InfProviders
        BY <2>2, <3>1, <3>2
      <3>4. sets' = [sets EXCEPT ![a] = x]
        BY <1>1, <3>1
      <3> HIDE DEF x
      <3> QED BY <3>1, <3>3, <3>4
    <2>7. CASE PutRoute(a)
      <3>1. /\ s.pc = "put" /\ s.base < MaxRouteVer /\ UNCHANGED provs /\ sets' = [sets EXCEPT ![a] = NoSet]
            /\ routes' = routes \/ routes' = [routes EXCEPT ![s.name] = [prov |-> s.prov, ver |-> s.base + 1]]
        BY <2>7 DEF PutRoute
      <3>2. s.base + 1 \in 0..MaxRouteVer
        BY <1>1, <2>2, <3>1
      <3> DEFINE r == [prov |-> s.prov, ver |-> s.base + 1]
      <3>3. r \in RouteRecs /\ r.prov \in InfProviders
        BY <2>2, <3>1, <3>2
      <3> QED BY <1>4, <3>1, <3>3
    <2> QED BY <2>1, <2>4, <2>5, <2>6, <2>7
  <1> QED BY <1>5, <1>6

\* Steps that only move the fetch.
LEMMA FetchMoves ==
    ASSUME InfInv, UNCHANGED <<provs, routes, sets, ctx, icon>>, FetchTrue(fetch', ctx),
           fetch' \in [pc : {"idle", "user", "system", "got", "error", "writeUser", "writeSystem"}, found : Seq(InfRoutes)]
    PROVE  InfInv'
  <1>1. FetchTrue(fetch, ctx)'
    OBVIOUS
  <1> QED BY <1>1 DEF InfInv, InfTypes, RoutesNamed

LEMMA FetchSteps ==
    ASSUME InfInv, BeginFetch \/ FetchLost \/ \E n \in RouteNames : ResolveInferenceBundle(n)
    PROVE  InfInv'
  <1> DEFINE Fetches == [pc : {"idle", "user", "system", "got", "error", "writeUser", "writeSystem"}, found : Seq(InfRoutes)]
  <1>1. /\ UNCHANGED <<provs, routes, sets, ctx, icon>> /\ fetch \in Fetches /\ FetchTrue(fetch, ctx)
        /\ fetch.pc \notin {"writeUser", "writeSystem"}
    BY DEF BeginFetch, FetchLost, ResolveInferenceBundle, InfInv, InfTypes, RouteNames
  <1>2. ctx.mode = "cluster" => ctx.rev = ctx.cache["user"] \o ctx.cache["system"]
    BY <1>1 DEF FetchTrue
  <1>4. CASE fetch' = [NoFetch EXCEPT !.pc = "user"] \/ fetch' = [NoFetch EXCEPT !.pc = "error"]
    <2>3. NoFetch \in Fetches /\ NoFetch.found = <<>>
      BY DEF NoFetch
    <2>1. fetch' \in Fetches /\ fetch'.pc \in {"user", "error"} /\ fetch'.found = <<>>
      BY <1>4, <2>3
    <2>2. FetchTrue(fetch', ctx)
      BY <1>2, <2>1 DEF FetchTrue
    <2> QED BY <1>1, <2>1, <2>2, FetchMoves
  <1>5. CASE \E n \in RouteNames : ResolveInferenceBundle(n) /\ ResolveRouteByName(n).ok
    <2>1. PICK n \in RouteNames : ResolveInferenceBundle(n) /\ ResolveRouteByName(n).ok
      BY <1>5
    <2> DEFINE g == ResolveRouteByName(n).found
               f == fetch.found
    <2>2. fetch.pc = n /\ fetch' = [pc |-> IF n = "user" THEN "system" ELSE "got", found |-> f \o g]
      BY <2>1 DEF ResolveInferenceBundle
    <2>3. f \in Seq(InfRoutes)
      BY <1>1
    <2>4. g = <<>> \/ \E r \in InfRoutes : r.name = n /\ g = <<r>>
      <3> DEFINE p == routes[n].prov
                 r == [name |-> n, prov |-> p, gen |-> provs[p].gen]
      <3>1. CASE routes[n].ver = 0
        BY <3>1 DEF ResolveRouteByName
      <3>2. CASE routes[n].ver # 0
        <4>1. routes[n].ver \in Nat
          BY InfAssumption DEF InfInv, InfTypes
        <4>2. p \in InfProviders
          BY <3>2, <4>1 DEF InfInv, RoutesNamed
        <4>3. provs[p].gen \in Nat
          BY <4>2, InfAssumption DEF InfInv, InfTypes
        <4>4. r \in InfRoutes /\ r.name = n
          BY <4>2, <4>3 DEF InfRoutes
        <4>5. g = <<r>> \/ g = <<>>
          BY <3>2 DEF ResolveRouteByName
        <4> QED BY <4>4, <4>5
      <3> QED BY <3>1, <3>2
    <2> HIDE DEF g, f
    <2>9. \A r \in InfRoutes : <<r>> \in Seq(InfRoutes) /\ Len(<<r>>) = 1 /\ <<r>>[1] = r
      OBVIOUS
    <2>a. g \in Seq(InfRoutes)
      <3>1. CASE g = <<>>
        BY <3>1
      <3>2. CASE g # <<>>
        <4>1. PICK r \in InfRoutes : r.name = n /\ g = <<r>>
          BY <2>4, <3>2
        <4> QED BY <2>9, <4>1
      <3> QED BY <3>1, <3>2
    <2>5. g \in Seq(InfRoutes) /\ f \o g \in Seq(InfRoutes)
      BY <2>3, <2>a
    <2>6. fetch' \in Fetches /\ fetch'.found = f \o g /\ fetch'.pc = IF n = "user" THEN "system" ELSE "got"
      BY <2>2, <2>5
    <2>7. CASE n = "user"
      <3>1. f = <<>>
        BY <1>1, <2>2, <2>7 DEF FetchTrue, f
      <3>2. f \o g = g
        BY <2>5, <3>1
      <3>3. g = <<>> \/ (Len(g) = 1 /\ g[1].name = "user")
        BY <2>4, <2>7
      <3>4. FetchTrue(fetch', ctx)
        BY <1>2, <2>6, <2>7, <3>2, <3>3 DEF FetchTrue
      <3> QED BY <1>1, <2>6, <3>4, FetchMoves
    <2>8. CASE n = "system"
      <3>1. f = <<>> \/ (Len(f) = 1 /\ f[1].name = "user")
        BY <1>1, <2>2, <2>8 DEF FetchTrue, f
      <3>2. g = <<>> \/ (Len(g) = 1 /\ g[1].name = "system")
        BY <2>4, <2>8
      <3>3. IsBundle(f \o g)
        <4>1. CASE f = <<>>
          <5>1. f \o g = g
            BY <2>5, <4>1
          <5> QED BY <3>2, <5>1 DEF IsBundle
        <4>2. CASE Len(f) = 1 /\ f[1].name = "user" /\ g = <<>>
          <5>1. f \o g = f
            BY <2>3, <4>2
          <5> QED BY <4>2, <5>1 DEF IsBundle
        <4>3. CASE Len(f) = 1 /\ f[1].name = "user" /\ Len(g) = 1 /\ g[1].name = "system"
          <5>1. Len(f \o g) = 2 /\ (f \o g)[1] = f[1] /\ (f \o g)[2] = g[1]
            <6>1. /\ Len(f \o g) = Len(f) + Len(g)
                  /\ \A i \in 1..(Len(f) + Len(g)) : (f \o g)[i] = IF i <= Len(f) THEN f[i] ELSE g[i - Len(f)]
              BY <2>3, <2>5, ConcatProperties
            <6> QED BY <4>3, <6>1
          <5> QED BY <4>3, <5>1 DEF IsBundle
        <4> QED BY <3>1, <3>2, <4>1, <4>2, <4>3
      <3>4. FetchTrue(fetch', ctx)
        BY <1>2, <2>6, <2>8, <3>3 DEF FetchTrue
      <3> QED BY <1>1, <2>6, <3>4, FetchMoves
    <2> QED BY <2>7, <2>8 DEF RouteNames
  <1> QED BY <1>4, <1>5 DEF BeginFetch, FetchLost, ResolveInferenceBundle

\* Steps of the supervisor: the routes are built, then replaced one cache at a time.
LEMMA ContextMoves ==
    ASSUME InfInv, UNCHANGED <<provs, routes, sets, icon>>, FetchTrue(fetch', ctx'), UsersOnly(ctx'.cache["user"]),
           \A c \in InfConns : ConnTrue(icon[c], ctx'),
           fetch' \in [pc : {"idle", "user", "system", "got", "error", "writeUser", "writeSystem"}, found : Seq(InfRoutes)],
           ctx' \in [mode : {"boot", "off", "file", "cluster"}, rev : Seq(InfRoutes), cache : [RouteNames -> Seq(InfRoutes)]]
    PROVE  InfInv'
  <1>1. /\ provs' \in [InfProviders -> [gen : 0..MaxProvGen, key : BOOLEAN]]
        /\ routes' \in [RouteNames -> [prov : InfProviders \cup {"none"}, ver : 0..MaxRouteVer]]
        /\ sets' \in [InfAdmins -> [pc : {"idle", "verify", "read", "put"}, name : RouteNames, prov : InfProviders \cup {"none"},
                               base : 0..MaxRouteVer]]
        /\ icon' \in [InfConns -> InfConnRecs] /\ RoutesNamed'
    BY DEF InfInv, InfTypes, RoutesNamed
  <1>2. InfTypes'
    BY <1>1 DEF InfTypes
  <1> QED BY <1>1, <1>2 DEF InfInv

LEMMA BuildSteps ==
    ASSUME InfInv, BuildFromFile \/ BuildFromCluster
    PROVE  InfInv'
  <1> DEFINE Fetches == [pc : {"idle", "user", "system", "got", "error", "writeUser", "writeSystem"}, found : Seq(InfRoutes)]
             Contexts == [mode : {"boot", "off", "file", "cluster"}, rev : Seq(InfRoutes), cache : [RouteNames -> Seq(InfRoutes)]]
  <1>1. /\ ctx.mode = "boot" /\ UNCHANGED <<provs, routes, sets, icon>> /\ fetch \in Fetches /\ ctx \in Contexts
        /\ FetchTrue(fetch, ctx) /\ UsersOnly(ctx.cache["user"]) /\ "user" \in RouteNames /\ "system" \in RouteNames
    BY DEF BuildFromFile, BuildFromCluster, InfInv, InfTypes, RouteNames
  <1>2. \A c \in InfConns : icon[c].pc = "idle"
    BY <1>1 DEF InfInv, ConnTrue
  <1>3. \A c \in InfConns : ConnTrue(icon[c], ctx')
    BY <1>2 DEF ConnTrue
  <1>4. NoFetch \in Fetches /\ NoFetch.pc = "idle"
    BY DEF NoFetch
  <1>5. fetch' \in Fetches /\ fetch'.pc = "idle"
    BY <1>1, <1>4 DEF BuildFromFile, BuildFromCluster
  <1>6. CASE ctx' = [ctx EXCEPT !.mode = "off"]
    <2>1. ctx' \in Contexts /\ ctx'.mode = "off" /\ ctx'.cache = ctx.cache
      BY <1>1, <1>6
    <2>2. FetchTrue(fetch', ctx')
      BY <1>5, <2>1 DEF FetchTrue
    <2> QED BY <1>1, <1>3, <1>5, <2>1, <2>2, ContextMoves
  <1>7. ASSUME NEW f \in Seq(InfRoutes), NEW m \in {"file", "cluster"}, NEW rev \in Seq(InfRoutes),
               ctx' = [mode |-> m, rev |-> rev, cache |-> PartitionRoutes(f)],
               m = "cluster" => IsBundle(f) /\ rev = f
        PROVE  InfInv'
    <2> DEFINE P == PartitionRoutes(f)
    <2>1. P \in [RouteNames -> Seq(InfRoutes)] /\ UsersOnly(P["user"])
      BY PartsAre
    <2>2. m = "cluster" => rev = P["user"] \o P["system"]
      BY <1>7, PartsMakeBundle
    <2>3. ctx' = [mode |-> m, rev |-> rev, cache |-> P]
      BY <1>7
    <2> HIDE DEF P
    <2>4. ctx' \in Contexts /\ ctx'.mode = m /\ ctx'.rev = rev /\ ctx'.cache = P
      BY <2>1, <2>3
    <2>5. FetchTrue(fetch', ctx')
      BY <1>5, <2>2, <2>4 DEF FetchTrue
    <2> QED BY <1>1, <1>3, <1>5, <2>1, <2>4, <2>5, ContextMoves
  <1>8. CASE BuildFromFile
    <2>1. PICK file \in BOOLEAN, cluster \in BOOLEAN, valid \in BOOLEAN, len \in 0..MaxFileRoutes :
          \E listed \in [1..len -> [name : RouteNames, prov : InfProviders, gen : {1}]] :
          LET src == InferRouteSource(file, cluster)
              loaded == LoadRoutesFile(valid, listed)
          IN  /\ src # "cluster"
              /\ ctx' = IF src = "none" \/ (loaded = <<>> /\ DisableOnEmptyRoutes(src))
                        THEN [ctx EXCEPT !.mode = "off"]
                        ELSE [mode |-> "file", rev |-> <<>>, cache |-> PartitionRoutes(loaded)]
      BY <1>8 DEF BuildFromFile
    <2>2. PICK listed \in [1..len -> [name : RouteNames, prov : InfProviders, gen : {1}]] :
          LET src == InferRouteSource(file, cluster)
              loaded == LoadRoutesFile(valid, listed)
          IN  /\ src # "cluster"
              /\ ctx' = IF src = "none" \/ (loaded = <<>> /\ DisableOnEmptyRoutes(src))
                        THEN [ctx EXCEPT !.mode = "off"]
                        ELSE [mode |-> "file", rev |-> <<>>, cache |-> PartitionRoutes(loaded)]
      BY <2>1
    <2> DEFINE f == LoadRoutesFile(valid, listed)
    <2>3. ctx' = [ctx EXCEPT !.mode = "off"] \/ ctx' = [mode |-> "file", rev |-> <<>>, cache |-> PartitionRoutes(f)]
      BY <2>2
    <2>4. f \in Seq(InfRoutes)
      <3>1. len \in Nat
        BY InfAssumption
      <3>2. \A i \in 1..len : listed[i] \in InfRoutes
        BY DEF InfRoutes
      <3>3. listed \in Seq(InfRoutes)
        BY <3>1, <3>2
      <3> QED BY <3>3 DEF LoadRoutesFile
    <2> HIDE DEF f
    <2>5. <<>> \in Seq(InfRoutes)
      OBVIOUS
    <2> QED BY <1>6, <1>7, <2>3, <2>4, <2>5
  <1>9. CASE BuildFromCluster
    <2> DEFINE f == fetch.found
    <2>1. f \in Seq(InfRoutes) /\ (fetch.pc = "got" => IsBundle(f))
      BY <1>1 DEF FetchTrue
    <2>2. \/ ctx' = [ctx EXCEPT !.mode = "off"]
          \/ fetch.pc = "got" /\ ctx' = [mode |-> "cluster", rev |-> f, cache |-> PartitionRoutes(f)]
      BY <1>9 DEF BuildFromCluster, BundleRevision
    <2> HIDE DEF f
    <2> QED BY <1>6, <1>7, <2>1, <2>2
  <1> QED BY <1>8, <1>9

LEMMA RefreshSteps ==
    ASSUME InfInv, RefreshTick \/ WriteUserCache \/ WriteSystemCache
    PROVE  InfInv'
  <1> DEFINE Fetches == [pc : {"idle", "user", "system", "got", "error", "writeUser", "writeSystem"}, found : Seq(InfRoutes)]
             Contexts == [mode : {"boot", "off", "file", "cluster"}, rev : Seq(InfRoutes), cache : [RouteNames -> Seq(InfRoutes)]]
             f == fetch.found
             P == PartitionRoutes(f)
  <1>1. /\ UNCHANGED <<provs, routes, sets, icon>> /\ fetch \in Fetches /\ ctx \in Contexts
        /\ FetchTrue(fetch, ctx) /\ UsersOnly(ctx.cache["user"]) /\ \A c \in InfConns : ConnTrue(icon[c], ctx)
    BY DEF RefreshTick, WriteUserCache, WriteSystemCache, InfInv, InfTypes
  <1>2. f \in Seq(InfRoutes) /\ P \in [RouteNames -> Seq(InfRoutes)] /\ UsersOnly(P["user"])
    BY <1>1, PartsAre
  <1>3. RouteNames = {"user", "system"}
    BY DEF RouteNames
  <1>4. NoFetch \in Fetches /\ NoFetch.pc = "idle"
    BY DEF NoFetch
  <1>5. CASE RefreshTick
    <2>1. ctx.mode = "cluster" /\ fetch.pc \in {"got", "error"}
      BY <1>5 DEF RefreshTick
    <2>2. ctx.rev = ctx.cache["user"] \o ctx.cache["system"]
      BY <1>1, <2>1 DEF FetchTrue
    <2>3. CASE fetch' = NoFetch /\ UNCHANGED ctx
      <3>1. FetchTrue(fetch', ctx)
        BY <1>4, <2>1, <2>2, <2>3 DEF FetchTrue
      <3> QED BY <1>1, <1>4, <2>3, <3>1, FetchMoves
    <2>4. CASE fetch.pc # "error" /\ fetch' = [fetch EXCEPT !.pc = "writeUser"] /\ ctx' = [ctx EXCEPT !.rev = f]
      <3>1. fetch' \in Fetches /\ fetch'.pc = "writeUser" /\ fetch'.found = f
        BY <1>1, <2>4
      <3>2. IsBundle(f)
        BY <1>1, <2>1, <2>4 DEF FetchTrue
      <3> HIDE DEF f
      <3>3. ctx' \in Contexts /\ ctx'.mode = ctx.mode /\ ctx'.rev = f /\ ctx'.cache = ctx.cache
        BY <1>1, <1>2, <2>4
      <3>4. FetchTrue(fetch', ctx')
        BY <2>1, <3>1, <3>2, <3>3 DEF FetchTrue
      <3>5. \A c \in InfConns : ConnTrue(icon[c], ctx')
        BY <1>1, <3>3 DEF ConnTrue
      <3> QED BY <1>1, <3>1, <3>3, <3>4, <3>5, ContextMoves
    <2> QED BY <1>5, <2>3, <2>4 DEF RefreshTick, BundleRevision
  <1>6. CASE WriteUserCache
    <2>1. /\ fetch.pc = "writeUser" /\ fetch' = [fetch EXCEPT !.pc = "writeSystem"]
          /\ ctx' = [ctx EXCEPT !.cache["user"] = P["user"]] /\ \A c \in InfConns : icon[c].pc # "stream"
      BY <1>6 DEF WriteUserCache, HoldsLock
    <2>2. fetch' \in Fetches /\ fetch'.pc = "writeSystem" /\ fetch'.found = f
      BY <1>1, <2>1
    <2>3. IsBundle(f) /\ ctx.mode = "cluster" /\ ctx.rev = f
      BY <1>1, <2>1 DEF FetchTrue
    <2> DEFINE u == P["user"]
               k == [ctx.cache EXCEPT !["user"] = u]
    <2>4. u \in Seq(InfRoutes) /\ UsersOnly(u) /\ u = PartitionRoutes(f)["user"]
      BY <1>2, <1>3
    <2>5. ctx' = [ctx EXCEPT !.cache = k]
      BY <1>1, <2>1
    <2> HIDE DEF u, f
    <2>6. k \in [RouteNames -> Seq(InfRoutes)] /\ k["user"] = u
      BY <1>1, <1>3, <2>4
    <2> HIDE DEF k
    <2>7. ctx' \in Contexts /\ ctx'.mode = "cluster" /\ ctx'.rev = f /\ ctx'.cache = k
      BY <1>1, <2>3, <2>5, <2>6
    <2>8. FetchTrue(fetch', ctx')
      BY <2>2, <2>3, <2>4, <2>6, <2>7 DEF FetchTrue
    <2>9. \A c \in InfConns : ConnTrue(icon[c], ctx')
      BY <2>1, <2>7 DEF ConnTrue
    <2>10. UsersOnly(ctx'.cache["user"])
      BY <2>4, <2>6, <2>7
    <2> QED BY <1>1, <2>2, <2>7, <2>8, <2>9, <2>10, ContextMoves
  <1>7. CASE WriteSystemCache
    <2>1. fetch.pc = "writeSystem" /\ fetch' = NoFetch /\ ctx' = [ctx EXCEPT !.cache["system"] = P["system"]]
      BY <1>7 DEF WriteSystemCache
    <2>2. IsBundle(f) /\ ctx.mode = "cluster" /\ ctx.rev = f /\ ctx.cache["user"] = P["user"]
      BY <1>1, <2>1 DEF FetchTrue
    <2>3. f = P["user"] \o P["system"]
      BY <1>2, <2>2, PartsMakeBundle
    <2> DEFINE y == P["system"]
               u == P["user"]
               k == [ctx.cache EXCEPT !["system"] = y]
    <2>4. y \in Seq(InfRoutes)
      BY <1>2, <1>3
    <2>5. ctx' = [ctx EXCEPT !.cache = k]
      BY <1>1, <2>1
    <2>6. f = u \o y /\ ctx.cache["user"] = u
      BY <2>2, <2>3
    <2> HIDE DEF y, u, f
    <2>7. k \in [RouteNames -> Seq(InfRoutes)] /\ k["user"] = u /\ k["system"] = y
      BY <1>1, <1>3, <2>4, <2>6
    <2> HIDE DEF k
    <2>8. ctx' \in Contexts /\ ctx'.mode = ctx.mode /\ ctx'.rev = f /\ ctx'.cache = k
      BY <1>1, <2>2, <2>5, <2>7
    <2>9. FetchTrue(fetch', ctx')
      BY <1>4, <2>1, <2>6, <2>7, <2>8 DEF FetchTrue
    <2>10. \A c \in InfConns : ConnTrue(icon[c], ctx')
      BY <1>1, <2>6, <2>7, <2>8 DEF ConnTrue
    <2>11. UsersOnly(ctx'.cache["user"]) /\ fetch' \in Fetches
      BY <1>1, <1>4, <2>1, <2>6, <2>7, <2>8
    <2> QED BY <1>1, <2>8, <2>9, <2>10, <2>11, ContextMoves
  <1> QED BY <1>5, <1>6, <1>7

\* Steps of a connection: one record is replaced.
LEMMA ConnMoves ==
    ASSUME InfInv, UNCHANGED <<provs, routes, sets, fetch, ctx>>, NEW c \in InfConns, NEW k \in InfConnRecs,
           icon' = [icon EXCEPT ![c] = k], ConnTrue(k, ctx)
    PROVE  InfInv'
  <1>1. icon' \in [InfConns -> InfConnRecs] /\ \A d \in InfConns : icon'[d] = IF d = c THEN k ELSE icon[d]
    BY DEF InfInv, InfTypes
  <1>2. \A d \in InfConns : ConnTrue(icon[d], ctx)'
    BY <1>1 DEF InfInv
  <1>3. InfTypes'
    BY <1>1 DEF InfInv, InfTypes
  <1> QED BY <1>2, <1>3 DEF InfInv, RoutesNamed

\* Fields of a connection's record that is answered or ended.
LEMMA ConnEnds ==
    ASSUME InfInv, UNCHANGED <<provs, routes, sets, fetch, ctx>>, NEW c \in InfConns, ctx.mode # "boot",
           NextRequest(c) \/ \E out \in {"routed", "denied", "error"} : EndStream(c, out)
    PROVE  InfInv'
  <1>1. icon[c] \in InfConnRecs
    BY DEF InfInv, InfTypes
  <1>2. NoConn \in InfConnRecs
    BY DEF NoConn, InfConnRecs
  <1>3. CASE NextRequest(c)
    <2> DEFINE k == [NoConn EXCEPT !.pc = "read", !.routed = TRUE]
    <2>1. k \in InfConnRecs /\ k.pc = "read"
      BY <1>2 DEF InfConnRecs
    <2>2. icon' = [icon EXCEPT ![c] = k]
      BY <1>3 DEF NextRequest
    <2> HIDE DEF k
    <2>3. ConnTrue(k, ctx)
      BY <2>1 DEF ConnTrue
    <2> QED BY <2>1, <2>2, <2>3, ConnMoves
  <1>4. CASE \E out \in {"routed", "denied", "error"} : EndStream(c, out)
    <2>1. PICK out \in {"routed", "denied", "error"} : EndStream(c, out)
      BY <1>4
    <2> DEFINE b == icon[c].routed
               k == [NoConn EXCEPT !.pc = "done", !.routed = b, !.out = out]
    <2>2. b \in BOOLEAN
      BY <1>1 DEF InfConnRecs
    <2>3. icon' = [icon EXCEPT ![c] = k]
      BY <2>1 DEF EndStream
    <2> HIDE DEF b
    <2>4. k \in InfConnRecs /\ k.pc = "done"
      BY <1>2, <2>2 DEF InfConnRecs
    <2> HIDE DEF k
    <2>5. ConnTrue(k, ctx)
      BY <2>4 DEF ConnTrue
    <2> QED BY <2>3, <2>4, <2>5, ConnMoves
  <1> QED BY <1>3, <1>4

LEMMA ConnSteps ==
    ASSUME InfInv, NEW c \in InfConns,
           \/ Intercept(c) \/ ReadRequest(c) \/ TakeRoutes(c) \/ SendBackendRequest(c)
           \/ RouterErrorToHttp(c) \/ StreamBody(c) \/ SystemInference(c)
    PROVE  InfInv'
  <1> DEFINE old == icon[c]
  <1>1. /\ UNCHANGED <<provs, routes, sets, fetch, ctx>> /\ old \in InfConnRecs /\ icon \in [InfConns -> InfConnRecs] /\ ConnTrue(old, ctx)
        /\ UsersOnly(ctx.cache["user"]) /\ ctx.cache \in [RouteNames -> Seq(InfRoutes)]
    BY DEF Intercept, ReadRequest, TakeRoutes, SendBackendRequest, RouterErrorToHttp, StreamBody, SystemInference, InfInv, InfTypes
  <1>2. ctx.mode # "boot"
    <2>1. old.pc # "idle" => ctx.mode # "boot"
      BY <1>1 DEF ConnTrue
    <2> QED BY <2>1 DEF Intercept, ReadRequest, TakeRoutes, SendBackendRequest, RouterErrorToHttp, StreamBody, SystemInference
  <1>3. CASE NextRequest(c) \/ \E out \in {"routed", "denied", "error"} : EndStream(c, out)
    BY <1>1, <1>2, <1>3, ConnEnds
  <1>4. EndOf(c) \in {"routed", "denied"}
    BY DEF EndOf
  <1>5. CASE Intercept(c)
    <2>1. CASE icon' = [icon EXCEPT ![c].pc = "read"]
      <3> DEFINE k == [old EXCEPT !.pc = "read"]
      <3>1. icon' = [icon EXCEPT ![c] = k]
        BY <1>1, <2>1
      <3>2. k \in InfConnRecs /\ k.pc = "read"
        BY <1>1 DEF InfConnRecs
      <3> HIDE DEF k
      <3>3. ConnTrue(k, ctx)
        BY <1>2, <3>2 DEF ConnTrue
      <3> QED BY <1>1, <3>1, <3>2, <3>3, ConnMoves
    <2> QED BY <1>3, <1>5, <2>1 DEF Intercept
  <1>6. CASE ReadRequest(c)
    <2>1. \/ \E out \in {"routed", "denied", "error"} : EndStream(c, out)
          \/ \E proto \in DefaultPatterns : icon' = [icon EXCEPT ![c] = [@ EXCEPT !.pc = "lock", !.proto = proto, !.bytes = 0]]
          \/ icon' = [icon EXCEPT ![c].bytes = 0]
          \/ old.bytes # 2 /\ icon' = [icon EXCEPT ![c].bytes = @ + 1]
      BY <1>4, <1>6 DEF ReadRequest, TryParse, DetectInferencePattern
    <2>2. old.pc = "read"
      BY <1>6 DEF ReadRequest
    <2>3. ASSUME NEW p \in {"read", "lock"}, NEW proto \in DefaultPatterns \cup {"none", "system"}, NEW n \in 0..2,
                 icon' = [icon EXCEPT ![c] = [old EXCEPT !.pc = p, !.proto = proto, !.bytes = n]]
          PROVE  InfInv'
      <3> DEFINE k == [old EXCEPT !.pc = p, !.proto = proto, !.bytes = n]
      <3>1. k \in InfConnRecs /\ k.pc = p
        BY <1>1 DEF InfConnRecs
      <3>2. icon' = [icon EXCEPT ![c] = k]
        BY <2>3
      <3> HIDE DEF k
      <3>3. ConnTrue(k, ctx)
        BY <1>2, <3>1 DEF ConnTrue
      <3> QED BY <1>1, <3>1, <3>2, <3>3, ConnMoves
    <2>4. CASE \E proto \in DefaultPatterns : icon' = [icon EXCEPT ![c] = [@ EXCEPT !.pc = "lock", !.proto = proto, !.bytes = 0]]
      <3>1. PICK proto \in DefaultPatterns : icon' = [icon EXCEPT ![c] = [@ EXCEPT !.pc = "lock", !.proto = proto, !.bytes = 0]]
        BY <2>4
      <3>2. icon' = [icon EXCEPT ![c] = [old EXCEPT !.pc = "lock", !.proto = proto, !.bytes = 0]]
        BY <3>1
      <3>3. 0 \in 0..2 /\ proto \in DefaultPatterns \cup {"none", "system"}
        OBVIOUS
      <3> HIDE DEF old
      <3> QED BY <2>3, <3>2, <3>3
    <2>5. old.proto \in DefaultPatterns \cup {"none", "system"} /\ old.bytes \in 0..2
      BY <1>1 DEF InfConnRecs
    <2>6. ASSUME NEW n \in 0..2, icon' = [icon EXCEPT ![c].bytes = n] PROVE InfInv'
      <3> DEFINE pr == old.proto
      <3>1. [old EXCEPT !.bytes = n] = [old EXCEPT !.pc = "read", !.proto = pr, !.bytes = n]
        BY <1>1, <2>2 DEF InfConnRecs
      <3>2. icon' = [icon EXCEPT ![c] = [old EXCEPT !.bytes = n]]
        BY <1>1, <2>6
      <3>3. icon' = [icon EXCEPT ![c] = [old EXCEPT !.pc = "read", !.proto = pr, !.bytes = n]]
        BY <3>1, <3>2
      <3> HIDE DEF pr, old
      <3> QED BY <2>3, <2>5, <3>3 DEF pr
    <2>7. CASE icon' = [icon EXCEPT ![c].bytes = 0]
      BY <2>6, <2>7
    <2>8. CASE old.bytes # 2 /\ icon' = [icon EXCEPT ![c].bytes = @ + 1]
      <3> DEFINE n == old.bytes + 1
      <3>1. n \in 0..2
        BY <2>5, <2>8
      <3>2. icon' = [icon EXCEPT ![c].bytes = n]
        BY <2>8
      <3> HIDE DEF n
      <3> QED BY <2>6, <3>1, <3>2
    <2> QED BY <1>3, <2>1, <2>4, <2>7, <2>8
  <1>7. CASE TakeRoutes(c)
    <2>1. CASE icon' = [icon EXCEPT ![c].pc = "send"]
      <3> DEFINE k == [old EXCEPT !.pc = "send"]
      <3>1. icon' = [icon EXCEPT ![c] = k]
        BY <1>1, <2>1
      <3>2. k \in InfConnRecs /\ k.pc = "send"
        BY <1>1 DEF InfConnRecs
      <3> HIDE DEF k
      <3>3. ConnTrue(k, ctx)
        BY <1>2, <3>2 DEF ConnTrue
      <3> QED BY <1>1, <3>1, <3>2, <3>3, ConnMoves
    <2> QED BY <1>3, <1>7, <2>1 DEF TakeRoutes
  <1>8. CASE SendBackendRequest(c)
    <2> DEFINE r == ProxyWithCandidates(icon[c].proto, ctx.cache["user"])
               s == ctx.cache["user"]
    <2>1. CASE r # NoRoute /\ icon' = [icon EXCEPT ![c].routed = TRUE, ![c].used = r, ![c].pc = "stream"]
      <3>1. s \in Seq(InfRoutes)
        BY <1>1 DEF RouteNames
      <3>2. PICK i \in DOMAIN s : r = s[i] /\ s[i] \in InfRoutes /\ icon[c].proto \in InfProtocols[s[i].prov]
        BY <2>1, <3>1, CandidateIs
      <3>3. r \in InfRoutes /\ r.name = "user" /\ icon[c].proto \in InfProtocols[r.prov]
        BY <1>1, <3>2 DEF UsersOnly
      <3> DEFINE k == [old EXCEPT !.routed = TRUE, !.used = r, !.pc = "stream"]
      <3> HIDE DEF r
      <3>4. icon' = [icon EXCEPT ![c] = k]
        BY <1>1, <2>1
      <3>5. k \in InfConnRecs /\ k.pc = "stream" /\ k.used = r /\ k.proto = icon[c].proto
        BY <1>1, <3>3 DEF InfConnRecs
      <3> HIDE DEF k
      <3>6. ConnTrue(k, ctx)
        BY <1>2, <3>2, <3>3, <3>5 DEF ConnTrue
      <3> QED BY <1>1, <3>4, <3>5, <3>6, ConnMoves
    <2> QED BY <1>3, <1>8, <2>1 DEF SendBackendRequest
  <1>9. CASE RouterErrorToHttp(c) \/ StreamBody(c)
    BY <1>3, <1>9 DEF RouterErrorToHttp, StreamBody
  <1>10. CASE SystemInference(c)
    <2>1. PICK proto \in DefaultPatterns :
          LET r == ProxyWithCandidates(proto, ctx.cache["system"])
          IN  icon' = [icon EXCEPT ![c] = [NoConn EXCEPT !.pc = "done", !.proto = "system", !.used = r,
                                                         !.out = IF r = NoRoute THEN "error" ELSE "routed"]]
      BY <1>10 DEF SystemInference
    <2> DEFINE r == ProxyWithCandidates(proto, ctx.cache["system"])
               o == IF r = NoRoute THEN "error" ELSE "routed"
               k == [NoConn EXCEPT !.pc = "done", !.proto = "system", !.used = r, !.out = o]
    <2>2. r \in InfRoutes \cup {NoRoute}
      <3>1. ctx.cache["system"] \in Seq(InfRoutes)
        BY <1>1 DEF RouteNames
      <3> QED BY <3>1, CandidateIs
    <2>3. o \in {"routed", "error"}
      OBVIOUS
    <2>4. icon' = [icon EXCEPT ![c] = k]
      BY <2>1
    <2> HIDE DEF r, o
    <2>7. NoConn \in InfConnRecs
      BY DEF NoConn, InfConnRecs
    <2>5. k \in InfConnRecs /\ k.pc = "done"
      BY <2>2, <2>3, <2>7 DEF InfConnRecs
    <2> HIDE DEF k
    <2>6. ConnTrue(k, ctx)
      BY <1>2, <2>5 DEF ConnTrue
    <2> QED BY <1>1, <2>4, <2>5, <2>6, ConnMoves
  <1> QED BY <1>5, <1>6, <1>7, <1>8, <1>9, <1>10

LEMMA InfIsSound == InfInv => RoutesSound
  <1> SUFFICES ASSUME InfInv PROVE RoutesSound
    OBVIOUS
  <1>1. InfTypes /\ FetchTrue(fetch, ctx)
    BY DEF InfInv
  <1>2. InfTypeOK
    <2>1. \A c \in InfConns : icon[c].bytes \in 0..2
      BY <1>1 DEF InfTypes, InfConnRecs
    <2>2. \A c \in InfConns : icon[c].bytes <= 2
      BY <2>1
    <2> QED BY <1>1, <2>2 DEF InfTypes, InfTypeOK
  <1>3. CachesMatchRevision
    BY <1>1 DEF CachesMatchRevision, FetchTrue
  <1>4. RouteStable
    BY DEF RouteStable, InfInv, ConnTrue
  <1> QED BY <1>2, <1>3, <1>4 DEF RoutesSound

\* For any providers, administrators, connections and routes files: between two
\* refreshes the two caches are the bundle whose revision was recorded, so that
\* skipping an equal revision skips nothing, and a request in flight keeps a route
\* of the user's cache that speaks its protocol (spawn_route_refresh, proxy_with_candidates).
THEOREM CachesAreTheBundle == InfSpec => []RoutesSound
  <1>1. InfInit => InfInv
    <2> SUFFICES ASSUME InfInit PROVE InfInv
      OBVIOUS
    <2>1. /\ provs = [p \in InfProviders |-> [gen |-> 0, key |-> FALSE]]
          /\ routes = [n \in RouteNames |-> [prov |-> "none", ver |-> 0]]
          /\ sets = [a \in InfAdmins |-> NoSet] /\ fetch = [pc |-> "idle", found |-> <<>>]
          /\ ctx = [mode |-> "boot", rev |-> <<>>, cache |-> [n \in RouteNames |-> <<>>]]
          /\ icon = [c \in InfConns |-> NoConn]
      BY DEF InfInit, NoFetch
    <2>2. MaxProvGen \in Nat /\ MaxRouteVer \in Nat /\ <<>> \in Seq(InfRoutes) /\ "user" \in RouteNames
      BY InfAssumption DEF RouteNames
    <2>3. /\ NoSet \in [pc : {"idle", "verify", "read", "put"}, name : RouteNames, prov : InfProviders \cup {"none"}, base : 0..MaxRouteVer]
          /\ NoSet.pc = "idle"
      BY <2>2 DEF NoSet
    <2>4. NoConn \in InfConnRecs /\ NoConn.pc = "idle"
      BY DEF NoConn, InfConnRecs
    <2>5. /\ provs \in [InfProviders -> [gen : 0..MaxProvGen, key : BOOLEAN]]
          /\ routes \in [RouteNames -> [prov : InfProviders \cup {"none"}, ver : 0..MaxRouteVer]]
      BY <2>1, <2>2
    <2>6. fetch.pc = "idle" /\ fetch \in [pc : {"idle", "user", "system", "got", "error", "writeUser", "writeSystem"}, found : Seq(InfRoutes)]
      BY <2>1, <2>2
    <2>7. /\ ctx \in [mode : {"boot", "off", "file", "cluster"}, rev : Seq(InfRoutes), cache : [RouteNames -> Seq(InfRoutes)]]
          /\ ctx.mode = "boot" /\ ctx.cache["user"] = <<>>
      BY <2>1, <2>2
    <2>8. InfTypes
      BY <2>1, <2>3, <2>4, <2>5, <2>6, <2>7 DEF InfTypes
    <2>9. RoutesNamed
      BY <2>1, <2>3 DEF RoutesNamed
    <2>10. FetchTrue(fetch, ctx)
      BY <2>6, <2>7 DEF FetchTrue
    <2>11. UsersOnly(ctx.cache["user"]) /\ \A c \in InfConns : ConnTrue(icon[c], ctx)
      BY <2>1, <2>4, <2>7 DEF UsersOnly, ConnTrue
    <2> QED BY <2>8, <2>9, <2>10, <2>11 DEF InfInv
  <1>2. InfInv /\ [InfNext]_infVars => InfInv'
    <2> SUFFICES ASSUME InfInv, [InfNext]_infVars PROVE InfInv'
      OBVIOUS
    <2>1. CASE UNCHANGED infVars
      BY <2>1 DEF infVars, InfInv, InfTypes, RoutesNamed
    <2>2. CASE \E p \in InfProviders : ChangeProvider(p) \/ RemoveProvider(p)
      BY <2>2, InfRecordSteps
    <2>3. CASE \E a \in InfAdmins : SetClusterInference(a) \/ VerifyProviderEndpoint(a) \/ ReadRoute(a) \/ PutRoute(a)
      BY <2>3, InfRecordSteps
    <2>4. CASE BeginFetch \/ FetchLost \/ \E n \in RouteNames : ResolveInferenceBundle(n)
      BY <2>4, FetchSteps
    <2>5. CASE BuildFromFile \/ BuildFromCluster
      BY <2>5, BuildSteps
    <2>6. CASE RefreshTick \/ WriteUserCache \/ WriteSystemCache
      BY <2>6, RefreshSteps
    <2>7. CASE \E c \in InfConns : \/ Intercept(c) \/ ReadRequest(c) \/ TakeRoutes(c) \/ SendBackendRequest(c)
                                   \/ RouterErrorToHttp(c) \/ StreamBody(c) \/ SystemInference(c)
      BY <2>7, ConnSteps
    <2> QED BY <2>1, <2>2, <2>3, <2>4, <2>5, <2>6, <2>7 DEF InfNext
  <1> QED BY <1>1, <1>2, InfIsSound, PTL DEF InfSpec
=============================================================================
