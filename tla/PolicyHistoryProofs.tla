------------------------ MODULE PolicyHistoryProofs ------------------------
(***************************************************************************)
(* Proofs about PolicyHistory for any number of handlers, any policies    *)
(* and any retry limit.                                                   *)
(***************************************************************************)
EXTENDS PolicyHistory, SequenceTheorems, TLAPS

Computing == {"check", "validate", "latest", "put"}

\* A call that will compute a merge or a removal carries a real grant.
GrantKnown ==
    \A h \in Handlers :
        call[h].pc \in Computing /\ call[h].op # "update"
            => call[h].grant \in Grants

\* The backfill only runs for a record that had a policy, and what it marks
\* as loaded exists.
BackfillKnown ==
    \A h \in Handlers :
        /\ call[h].pc = "config_put" => call[h].seenRecord.spec # None
        /\ call[h].pc = "config_mark" => 1 \in Versions

\* The newest version exists as a number, and a handler about to insert has
\* read a version that is not newer than the newest.
SeenIsPast ==
    /\ Latest \in Nat
    /\ \A h \in Handlers :
           call[h].pc = "put" => call[h].seenVersion <= Latest

\* The inductive invariant.
Inv == TypeOK /\ NoGaps /\ SeenIsPast /\ GrantKnown /\ BackfillKnown

-----------------------------------------------------------------------------
(* Facts about the operators. *)

LEMMA MaxInterval ==
    ASSUME NEW n \in Nat \ {0}
    PROVE  Max(1..n) = n
<1>1. n \in 1..n /\ \A y \in 1..n : n >= y
  OBVIOUS
<1>2. \A x \in 1..n : (\A y \in 1..n : x >= y) => x = n
  BY <1>1
<1> QED
  BY <1>1, <1>2 DEF Max

LEMMA TableReads ==
    ASSUME Inv
    PROVE  LatestPolicy \in Policies
<1>1. CASE Versions = {}
  BY <1>1, IdentitiesAssumption DEF LatestPolicy, DefaultPolicy, Policies
<1>2. CASE Versions # {}
  <2>1. Latest \in Versions
    BY <1>2 DEF Inv, NoGaps, SeenIsPast
  <2> QED
    BY <1>2, <2>1 DEF LatestPolicy, Inv, TypeOK
<1> QED
  BY <1>1, <1>2

LEMMA IdleIsCall == Idle \in Call /\ Idle.pc = "idle"
BY IdentitiesAssumption
   DEF Idle, Call, Steps, AllOperations, Policies, DefaultPolicy, Record

LEMMA PolicyTypes ==
    ASSUME NEW p \in Policies, NEW g \in Grants
    PROVE  Merges(p, g) \subseteq Policies /\ Without(p, g) \in Policies
<1>1. g.rule \in Rules /\ g.binary \in Binaries /\ g.endpoint \in Endpoints
  BY GrantsAssumption
<1>2. MergeKeys(p, g) \subseteq Rules
  BY <1>1 DEF MergeKeys, Policies, Entries
<1>3. \A k \in Rules : [rule : {k}, item : {g.binary, g.endpoint}] \subseteq Entries
  BY <1>1 DEF Entries
<1>4. Merges(p, g) \subseteq Policies
  BY <1>2, <1>3 DEF Merges, Policies
<1>5. Without(p, g) \in Policies
  BY DEF Without, Policies
<1> QED
  BY <1>4, <1>5

LEMMA IdentityType ==
    ASSUME NEW p \in Policies
    PROVE  WithIdentity(p) \in Policies
BY IdentitiesAssumption DEF WithIdentity, Policies

\* The policy a handler persists is a policy.
LEMMA ResultType ==
    ASSUME Inv, NEW h \in Handlers, call[h].pc = "put"
    PROVE  Results(call[h]) \subseteq Policies
<1>1. call[h] \in Call /\ (call[h].op # "update" => call[h].grant \in Grants)
  BY DEF Inv, TypeOK, GrantKnown, Computing
<1>2. call[h].policy \in Policies /\ call[h].seenPolicy \in Policies
  BY <1>1 DEF Call
<1>3. CASE call[h].op = "update"
  BY <1>2, <1>3 DEF Results
<1>4. CASE call[h].op = "approve"
  BY <1>1, <1>2, <1>4, PolicyTypes DEF Results
<1>5. CASE call[h].op \notin {"update", "approve"}
  <2>1. Without(call[h].seenPolicy, call[h].grant) \in Policies
    BY <1>1, <1>2, <1>5, PolicyTypes
  <2> QED
    BY <2>1, <1>5 DEF Results
<1> QED
  BY <1>3, <1>4, <1>5

Row == [policy : Policies, status : Status]

\* What an INSERT of a new version does to the table.
LEMMA WithRevisionType ==
    ASSUME TypeOK, NEW v \in Nat \ {0}, NEW p \in Policies
    PROVE  /\ DOMAIN WithRevision(v, p) = Versions \cup {v}
           /\ WithRevision(v, p) \in [Versions \cup {v} -> Row]
           /\ \A w \in Versions : w # v => WithRevision(v, p)[w] = rows[w]
           /\ WithRevision(v, p)[v] = [policy |-> p, status |-> "pending"]
<1>1. [policy |-> p, status |-> "pending"] \in Row
  BY DEF Row, Status
<1>2. \A w \in Versions : rows[w] \in Row
  BY DEF TypeOK, Row, Versions
<1> QED
  BY <1>1, <1>2 DEF WithRevision

\* What the UPDATEs do: they touch statuses only.
LEMMA WithSupersededType ==
    ASSUME TypeOK, NEW n \in Nat
    PROVE  /\ DOMAIN WithSuperseded(n) = Versions
           /\ WithSuperseded(n) \in [Versions -> Row]
           /\ \A w \in Versions : WithSuperseded(n)[w].policy = rows[w].policy
<1>1. \A w \in Versions : rows[w] \in Row
  BY DEF TypeOK, Row, Versions
<1>2. \A w \in Versions :
         /\ [rows[w] EXCEPT !.status = "superseded"] \in Row
         /\ [rows[w] EXCEPT !.status = "superseded"].policy = rows[w].policy
  BY <1>1 DEF Row, Status
<1> QED
  BY <1>1, <1>2 DEF WithSuperseded

LEMMA WithStatusType ==
    ASSUME TypeOK, NEW v \in Versions, NEW s \in Status
    PROVE  /\ DOMAIN WithStatus(v, s) = Versions
           /\ WithStatus(v, s) \in [Versions -> Row]
           /\ \A w \in Versions : WithStatus(v, s)[w].policy = rows[w].policy
BY DEF TypeOK, Row, WithStatus, Versions

-----------------------------------------------------------------------------
(* The invariant is inductive. *)

LEMMA InvInit == Init => Inv
<1> SUFFICES ASSUME Init PROVE Inv
  OBVIOUS
<1>1. Versions = {} /\ rows \in [Versions -> Row]
  BY DEF Init, Versions
<1>a. Latest = 0 /\ 1..0 = {}
  BY <1>1 DEF Latest
<1>2. record \in Record
  BY InitialSpecsAssumption DEF Init, Record
<1>3. call \in [Handlers -> Call] /\ \A h \in Handlers : call[h].pc = "idle"
  BY IdleIsCall DEF Init
<1> QED
  BY <1>1, <1>a, <1>2, <1>3
     DEF Init, Inv, TypeOK, GrantKnown, BackfillKnown, Row, Computing,
         NoGaps, SeenIsPast

\* A new request, or a call that ends, in an otherwise unchanged system.
LEMMA CallStep ==
    ASSUME Inv, NEW h \in Handlers, NEW c \in Call,
           call' = [call EXCEPT ![h] = c],
           Latest' \in Nat, Latest <= Latest', Versions' = 1..Latest',
           rows' \in [Versions' -> Row], record' \in Record,
           globalPolicy' \in BOOLEAN,
           c.pc \in Computing /\ c.op # "update"
               => c.grant \in Grants,
           c.pc = "config_put" => c.seenRecord.spec # None,
           c.pc = "config_mark" => 1 <= Latest',
           c.pc = "put" => c.seenVersion <= Latest'
    PROVE  Inv'
<1>1. call' \in [Handlers -> Call]
  BY DEF Inv, TypeOK
<1>2. \A k \in Handlers : k # h => call'[k] = call[k]
  BY DEF Inv, TypeOK
<1>3. call'[h] = c
  BY DEF Inv, TypeOK
<1>4. GrantKnown'
  BY <1>2, <1>3 DEF Inv, GrantKnown
<1>5. BackfillKnown'
  <2>1. Versions \subseteq Versions'
    BY DEF Inv, NoGaps, SeenIsPast
  <2> QED
    BY <1>2, <1>3, <2>1 DEF Inv, BackfillKnown
<1>7. SeenIsPast'
  <2>1. \A k \in Handlers : call[k].pc = "put" =>
                                   call[k].seenVersion <= Latest'
    BY DEF Inv, SeenIsPast, TypeOK, Call
  <2> QED
    BY <1>2, <1>3, <2>1 DEF SeenIsPast
<1>8. NoGaps'
  BY DEF NoGaps
<1> QED
  BY <1>1, <1>4, <1>5, <1>7, <1>8 DEF Inv, TypeOK, Row

LEMMA InvNext == Inv /\ [Next]_vars => Inv'
<1> SUFFICES ASSUME Inv, [Next]_vars PROVE Inv'
  OBVIOUS
<1> USE DEF Goto, Finish, Receive, Computing
<1>t. /\ Latest \in Nat /\ Versions = 1..Latest
      /\ rows \in [Versions -> Row]
      /\ record \in Record
      /\ globalPolicy \in BOOLEAN
      /\ call \in [Handlers -> Call]
  BY DEF Inv, TypeOK, Row, NoGaps, SeenIsPast
<1>u. ASSUME UNCHANGED rows
      PROVE  /\ Versions' = Versions /\ Latest' = Latest
             /\ Versions' = 1..Latest' /\ rows' \in [Versions' -> Row]
             /\ Latest' \in Nat /\ Latest <= Latest'
  <2>1. Versions' = Versions /\ Latest' = Latest
    BY <1>u DEF Versions, Latest
  <2> QED
    BY <2>1, <1>u, <1>t
<1>v. ASSUME Versions' = Versions
      PROVE  /\ Latest' = Latest /\ Versions' = 1..Latest'
             /\ Latest' \in Nat /\ Latest <= Latest'
  <2>1. Latest' = Latest
    BY <1>v DEF Latest
  <2> QED
    BY <2>1, <1>v, <1>t
<1>1. CASE UNCHANGED vars
  BY <1>1, <1>u DEF vars, Inv, TypeOK, GrantKnown, BackfillKnown,
                      NoGaps, SeenIsPast
<1>2. CASE ToggleGlobalPolicy
  BY <1>2, <1>u
     DEF ToggleGlobalPolicy, Inv, TypeOK, GrantKnown, BackfillKnown,
         NoGaps, SeenIsPast
<1>3. ASSUME NEW h \in Handlers, Handle(h) PROVE Inv'
  <2>t. call[h] \in Call
    BY <1>t
  <2>f. ASSUME Finish(h),
               Latest' \in Nat, Latest <= Latest', Versions' = 1..Latest',
               rows' \in [Versions' -> Row],
               record' \in Record, globalPolicy' \in BOOLEAN
        PROVE  Inv'
    BY <2>f, IdleIsCall, CallStep
  <2>g. ASSUME NEW step \in Steps, Goto(h, step),
               Latest' \in Nat, Latest <= Latest', Versions' = 1..Latest',
               rows' \in [Versions' -> Row],
               record' \in Record, globalPolicy' \in BOOLEAN,
               step \in Computing /\ call[h].op # "update"
                   => call[h].grant \in Grants,
               step = "config_put" => call[h].seenRecord.spec # None,
               step = "config_mark" => 1 <= Latest', step # "put"
        PROVE  Inv'
    <3> DEFINE c == [call[h] EXCEPT !.pc = step]
    <3>1. /\ c \in Call /\ c.pc = step /\ c.op = call[h].op
          /\ c.grant = call[h].grant /\ c.seenRecord = call[h].seenRecord
      BY <2>t DEF Call
    <3>2. call' = [call EXCEPT ![h] = c]
      BY <2>g, <1>t
    <3> QED
      BY <2>g, <3>1, <3>2, CallStep
  <2>1. CASE ReceiveUpdate(h)
    <3>1. PICK p \in Payloads :
             call' = [call EXCEPT ![h] =
                [Idle EXCEPT !.pc = "check", !.op = "update",
                             !.policy = WithIdentity(p), !.seenRecord = record]]
      BY <2>1 DEF ReceiveUpdate
    <3> DEFINE c == [Idle EXCEPT !.pc = "check", !.op = "update",
                             !.policy = WithIdentity(p), !.seenRecord = record]
    <3>2. WithIdentity(p) \in Policies
      BY PayloadsAssumption, IdentityType
    <3>3. c \in Call /\ c.pc = "check" /\ c.op = "update"
      BY <3>2, <1>t, IdleIsCall DEF Call, Steps, AllOperations
    <3> QED
      BY <3>1, <3>3, <2>1, <1>t, <1>u, CallStep DEF ReceiveUpdate
  <2>2. CASE ReceiveDecision(h)
    <3>1. PICK g \in Grants, o \in {"approve", "reject"} :
             call' = [call EXCEPT ![h] =
                [Idle EXCEPT !.pc = "check", !.op = o, !.grant = g]]
      BY <2>2 DEF ReceiveDecision
    <3> DEFINE c == [Idle EXCEPT !.pc = "check", !.op = o, !.grant = g]
    <3>2. c \in Call /\ c.pc = "check" /\ c.grant \in Grants
      BY IdleIsCall DEF Call, Steps, AllOperations
    <3> QED
      BY <3>1, <3>2, <2>2, <1>t, <1>u, CallStep DEF ReceiveDecision
  <2>3. CASE ReceiveUndo(h)
    <3>1. PICK g \in Grants :
             call' = [call EXCEPT ![h] =
                [Idle EXCEPT !.pc = "latest", !.op = "undo", !.grant = g]]
      BY <2>3 DEF ReceiveUndo
    <3> DEFINE c == [Idle EXCEPT !.pc = "latest", !.op = "undo", !.grant = g]
    <3>2. c \in Call /\ c.pc = "latest" /\ c.grant \in Grants
      BY IdleIsCall DEF Call, Steps, AllOperations
    <3> QED
      BY <3>1, <3>2, <2>3, <1>t, <1>u, CallStep DEF ReceiveUndo
  <2>4. CASE CheckGlobal(h)
    <3>1. call[h].op # "update" => call[h].grant \in Grants
      BY <2>4 DEF CheckGlobal, Inv, GrantKnown
    <3>2. CASE Finish(h)
      BY <3>2, <2>4, <2>f, <1>t, <1>u DEF CheckGlobal
    <3>3. CASE Goto(h, "validate")
      BY <3>1, <3>3, <2>4, <2>g, <1>t, <1>u DEF CheckGlobal, Steps
    <3>4. CASE Goto(h, "latest")
      BY <3>1, <3>4, <2>4, <2>g, <1>t, <1>u DEF CheckGlobal, Steps
    <3> QED
      BY <3>2, <3>3, <3>4, <2>4 DEF CheckGlobal
  <2>5. CASE ValidateUpdate(h)
    <3>1. call[h].pc = "validate" /\ UNCHANGED <<rows, globalPolicy>>
      BY <2>5 DEF ValidateUpdate
    <3>2. call[h].policy \in Policies /\ call[h].seenRecord \in Record
      BY <2>t DEF Call
    <3>3. record' \in Record
      BY <3>2, <2>5, <1>t DEF ValidateUpdate, Record
    <3>4. CASE Finish(h)
      BY <3>1, <3>3, <3>4, <2>f, <1>t, <1>u
    <3>5. CASE Goto(h, "latest")
      <4>1. call[h].op # "update" => call[h].grant \in Grants
        BY <3>1 DEF Inv, GrantKnown
      <4> QED
        BY <3>1, <3>3, <3>5, <4>1, <2>g, <1>t, <1>u DEF Steps
    <3> QED
      BY <3>4, <3>5, <2>5 DEF ValidateUpdate
  <2>6. CASE ReadLatest(h)
    <3>1. call[h].pc = "latest" /\ UNCHANGED <<rows, record, globalPolicy>>
      BY <2>6 DEF ReadLatest
    <3>2. CASE Finish(h)
      BY <3>1, <3>2, <2>f, <1>t, <1>u
    <3>3. CASE call' = [call EXCEPT ![h].pc = "put",
                                    ![h].seenVersion = Latest,
                                    ![h].seenPolicy = LatestPolicy]
      <4> DEFINE c == [call[h] EXCEPT !.pc = "put", !.seenVersion = Latest,
                                      !.seenPolicy = LatestPolicy]
      <4>1. LatestPolicy \in Policies /\ Latest \in Nat
        BY TableReads, <1>t
      <4>2. /\ c \in Call /\ c.pc = "put" /\ c.op = call[h].op
            /\ c.grant = call[h].grant /\ c.seenVersion = Latest
        BY <2>t, <4>1 DEF Call, Steps
      <4>3. call' = [call EXCEPT ![h] = c]
        BY <3>3, <1>t
      <4>4. c.op # "update" => c.grant \in Grants
        BY <3>1, <4>2 DEF Inv, GrantKnown
      <4> HIDE DEF c
      <4> QED
        BY <3>1, <4>2, <4>3, <4>4, <1>t, <1>u, CallStep
    <3> QED
      BY <3>2, <3>3, <2>6 DEF ReadLatest
  <2>7. CASE PutRevision(h)
    <3> DEFINE v == call[h].seenVersion + 1
    <3>1. call[h].pc = "put" /\ UNCHANGED <<record, globalPolicy>>
      BY <2>7 DEF PutRevision
    <3>2. v \in Nat \ {0} /\ call[h].attempt + 1 \in Nat
      BY <2>t DEF Call
    <3>3. CASE /\ v \notin Versions
               /\ \E p \in Results(call[h]) : rows' = WithRevision(v, p)
               /\ Goto(h, "supersede")
      <4>1. Versions' = Versions \cup {v} /\ rows' \in [Versions' -> Row]
        <5>1. PICK p \in Results(call[h]) : rows' = WithRevision(v, p)
          BY <3>3
        <5>2. p \in Policies
          BY <3>1, ResultType
        <5> QED
          BY <5>1, <5>2, <3>2, WithRevisionType DEF Inv, Versions
      <4>2. call[h].seenVersion <= Latest /\ call[h].seenVersion \in Nat
        BY <3>1, <2>t DEF Inv, SeenIsPast, Call
      <4>3. v = Latest + 1
        BY <3>2, <3>3, <4>2, <1>t
      <4>4. Versions' = 1..(Latest + 1)
        BY <4>1, <4>3, <1>t
      <4>5. Latest' = Latest + 1
        <5>1. Latest + 1 \in Nat \ {0} /\ Versions' # {}
          BY <4>1, <1>t
        <5> QED
          BY <5>1, <4>4, MaxInterval DEF Latest
      <4> QED
        BY <3>1, <3>3, <4>1, <4>4, <4>5, <2>g, <1>t DEF Steps
    <3>4. CASE /\ call' = [call EXCEPT ![h].pc = "latest", ![h].attempt = @ + 1]
               /\ UNCHANGED rows
      <4> DEFINE c == [call[h] EXCEPT !.pc = "latest", !.attempt = @ + 1]
      <4>1. /\ c \in Call /\ c.pc = "latest" /\ c.op = call[h].op
            /\ c.grant = call[h].grant
        BY <2>t, <3>2 DEF Call, Steps
      <4>2. call' = [call EXCEPT ![h] = c]
        BY <3>4, <1>t
      <4>3. c.op # "update" => c.grant \in Grants
        BY <3>1, <4>1 DEF Inv, GrantKnown
      <4> HIDE DEF c
      <4> QED
        BY <3>1, <3>4, <4>1, <4>2, <4>3, <1>t, <1>u, CallStep
    <3>5. CASE Finish(h) /\ UNCHANGED rows
      BY <3>1, <3>5, <2>f, <1>t, <1>u
    <3> QED
      BY <3>3, <3>4, <3>5, <2>7 DEF PutRevision
  <2>8. CASE SupersedeOlder(h)
    <3>1. call[h].seenVersion + 1 \in Nat
      BY <2>t DEF Call
    <3>2. Versions' = Versions /\ rows' \in [Versions' -> Row]
      BY <3>1, <2>8, WithSupersededType DEF SupersedeOlder, Inv, Versions
    <3> QED
      BY <3>2, <2>8, <2>f, <1>t, <1>v DEF SupersedeOlder
  <2>9. CASE ReceiveConfig(h)
    <3> DEFINE c == [Idle EXCEPT !.pc = "config_latest", !.op = "config",
                                 !.seenRecord = record]
    <3>1. c \in Call /\ c.pc = "config_latest"
      BY <1>t, IdleIsCall DEF Call, Steps, AllOperations
    <3>2. call' = [call EXCEPT ![h] = c]
      BY <2>9 DEF ReceiveConfig
    <3> HIDE DEF c
    <3> QED
      BY <3>1, <3>2, <2>9, <1>t, <1>u, CallStep DEF ReceiveConfig
  <2>10. CASE ConfigReadLatest(h)
    <3>1. CASE Finish(h)
      BY <3>1, <2>10, <2>f, <1>t, <1>u DEF ConfigReadLatest
    <3>2. CASE Goto(h, "config_put") /\ call[h].seenRecord.spec # None
      BY <3>2, <2>10, <2>g, <1>t, <1>u DEF ConfigReadLatest, Steps
    <3> QED
      BY <3>1, <3>2, <2>10 DEF ConfigReadLatest
  <2>11. CASE ConfigPut(h)
    <3>1. call[h].pc = "config_put" /\ UNCHANGED <<record, globalPolicy>>
      BY <2>11 DEF ConfigPut
    <3>2. call[h].seenRecord.spec \in Policies
      BY <3>1, <2>t DEF Inv, BackfillKnown, Call, Record
    <3>3. CASE /\ 1 \notin Versions
               /\ rows' = WithRevision(1, call[h].seenRecord.spec)
               /\ Goto(h, "config_mark")
      <4>1. /\ Versions' = 1..Latest' /\ Latest' = 1 /\ Latest <= 1
            /\ rows' \in [Versions' -> Row]
        <5>1. Versions' = Versions \cup {1} /\ rows' \in [Versions' -> Row]
          <6>1. 1 \in Nat \ {0}
            OBVIOUS
          <6> QED
            BY <6>1, <3>2, <3>3, WithRevisionType DEF Inv, Versions
        <5>2. Latest = 0 /\ Versions = {}
          BY <3>3, <1>t
        <5>3. Versions' = 1..1
          BY <5>1, <5>2
        <5>4. Max(1..1) = 1
          BY MaxInterval, 1 \in Nat \ {0}
        <5> QED
          BY <5>1, <5>2, <5>3, <5>4 DEF Latest
      <4> QED
        BY <3>1, <3>3, <4>1, <2>g, <1>t DEF Steps
    <3>4. CASE Finish(h) /\ UNCHANGED rows
      BY <3>1, <3>4, <2>f, <1>t, <1>u
    <3> QED
      BY <3>3, <3>4, <2>11 DEF ConfigPut
  <2>12. CASE ConfigMarkLoaded(h)
    <3>1. 1 \in Versions /\ "loaded" \in Status
      BY <2>12 DEF ConfigMarkLoaded, Inv, BackfillKnown, Status
    <3>2. Versions' = Versions /\ rows' \in [Versions' -> Row]
      BY <3>1, <2>12, WithStatusType DEF ConfigMarkLoaded, Inv, Versions
    <3> QED
      BY <3>2, <2>12, <2>f, <1>t, <1>v DEF ConfigMarkLoaded
  <2>13. CASE ReceiveReport(h)
    <3>1. PICK v \in Versions, s \in {"loaded", "failed"} :
             /\ rows' = WithStatus(v, s)
             /\ \/ UNCHANGED call
                \/ call' = [call EXCEPT ![h] =
                       [Idle EXCEPT !.pc = "report_supersede",
                                    !.op = "report", !.seenVersion = v]]
             /\ UNCHANGED <<record, globalPolicy>>
      BY <2>13 DEF ReceiveReport
    <3>2. Versions' = Versions /\ rows' \in [Versions' -> Row]
      BY <3>1, WithStatusType DEF Inv, Versions, Status
    <3>3. CASE UNCHANGED call
      <4>1. Latest' = Latest
        BY <3>2 DEF Latest
      <4> QED
        BY <3>1, <3>2, <3>3, <4>1
           DEF Inv, TypeOK, GrantKnown, BackfillKnown, Row, NoGaps, SeenIsPast
    <3>4. CASE ~(UNCHANGED call)
      <4> DEFINE c == [Idle EXCEPT !.pc = "report_supersede",
                                   !.op = "report", !.seenVersion = v]
      <4>0. v \in Nat
        BY <1>t
      <4>1. c \in Call /\ c.pc = "report_supersede"
        BY <4>0, IdleIsCall DEF Call, Steps, AllOperations
      <4>2. call' = [call EXCEPT ![h] = c]
        BY <3>1, <3>4
      <4> HIDE DEF c
      <4> QED
        BY <3>1, <3>2, <4>1, <4>2, <1>t, <1>v, CallStep
    <3> QED
      BY <3>3, <3>4
  <2>14. CASE ReportSupersede(h)
    <3>1. call[h].seenVersion \in Nat
      BY <2>t DEF Call
    <3>2. Versions' = Versions /\ rows' \in [Versions' -> Row]
      BY <3>1, <2>14, WithSupersededType DEF ReportSupersede, Inv, Versions
    <3> QED
      BY <3>2, <2>14, <2>g, <1>t, <1>v DEF ReportSupersede, Steps
  <2>15. CASE ReportRead(h)
    <3> DEFINE c == [call[h] EXCEPT !.pc = "report_put", !.seenRecord = record]
    <3>1. c \in Call /\ c.pc = "report_put"
      BY <1>t, <2>t DEF Call, Steps
    <3>2. call' = [call EXCEPT ![h] = c]
      BY <2>15, <1>t DEF ReportRead
    <3> HIDE DEF c
    <3> QED
      BY <3>1, <3>2, <2>15, <1>t, <1>u, CallStep DEF ReportRead
  <2>16. CASE ReportPut(h)
    <3>1. call[h].seenRecord \in Record /\ call[h].seenVersion \in Nat
      BY <2>t DEF Call
    <3>2. record' \in Record
      BY <3>1, <2>16 DEF ReportPut, Record
    <3> QED
      BY <3>2, <2>16, <2>f, <1>t, <1>u DEF ReportPut
  <2>17. CASE Abandon(h)
    BY <2>17, <2>f, <1>t, <1>u DEF Abandon
  <2> QED
    BY <2>1, <2>2, <2>3, <2>4, <2>5, <2>6, <2>7, <2>8, <2>9, <2>10, <2>11,
       <2>12, <2>13, <2>14, <2>15, <2>16, <2>17, <1>3 DEF Handle
<1> QED
  BY <1>1, <1>2, <1>3 DEF Next

-----------------------------------------------------------------------------
(* Theorems. *)

\* The state of the history and of every handler stays in its type.
THEOREM TypeCorrect == Spec => []TypeOK
<1>1. Inv => TypeOK
  BY DEF Inv
<1> QED
  BY <1>1, InvInit, InvNext, PTL DEF Spec

\* Versions are numbered 1, 2, ..., Latest without a hole, for any number of
\* handlers that compute the next version from a stale read.
THEOREM Contiguous == Spec => []NoGaps
<1>1. Inv => NoGaps
  BY DEF Inv
<1> QED
  BY <1>1, InvInit, InvNext, PTL DEF Spec

\* A step never changes or drops a revision that exists.
LEMMA KeepsRevisions ==
    ASSUME Inv, [Next]_vars, NEW v \in Versions
    PROVE  v \in Versions' /\ rows'[v].policy = rows[v].policy
<1>0. TypeOK
  BY DEF Inv
<1>1. CASE UNCHANGED rows
  BY <1>1 DEF Versions
<1>2. ASSUME NEW h \in Handlers, PutRevision(h)
      PROVE  v \in Versions' /\ rows'[v].policy = rows[v].policy
  <2> DEFINE w == call[h].seenVersion + 1
  <2>1. CASE w \notin Versions /\ \E p \in Results(call[h]) : rows' = WithRevision(w, p)
    <3>1. w \in Nat \ {0} /\ Results(call[h]) \subseteq Policies
      BY <1>0, <1>2, ResultType DEF TypeOK, Call, PutRevision
    <3>2. PICK p \in Results(call[h]) : rows' = WithRevision(w, p)
      BY <2>1
    <3> QED
      BY <2>1, <3>1, <3>2, <1>0, WithRevisionType DEF Versions
  <2> QED
    BY <2>1, <1>1, <1>2 DEF PutRevision
<1>3. ASSUME NEW h \in Handlers, ConfigPut(h)
      PROVE  v \in Versions' /\ rows'[v].policy = rows[v].policy
  <2>1. call[h].seenRecord.spec \in Policies
    BY <1>0, <1>3 DEF TypeOK, Call, Record, ConfigPut, Inv, BackfillKnown
  <2>2. CASE 1 \notin Versions /\ rows' = WithRevision(1, call[h].seenRecord.spec)
    <3> DEFINE p == call[h].seenRecord.spec
    <3>1. /\ DOMAIN WithRevision(1, p) = Versions \cup {1}
          /\ \A w \in Versions : w # 1 => WithRevision(1, p)[w] = rows[w]
      BY <2>1, <1>0, WithRevisionType, 1 \in Nat \ {0}
    <3> QED
      BY <3>1, <2>2 DEF Versions
  <2> QED
    BY <2>2, <1>1, <1>3 DEF ConfigPut
<1>4. ASSUME NEW n \in Nat, rows' = WithSuperseded(n)
      PROVE  v \in Versions' /\ rows'[v].policy = rows[v].policy
  BY <1>4, <1>0, WithSupersededType DEF Versions
<1>5. ASSUME NEW w \in Versions, NEW s \in Status, rows' = WithStatus(w, s)
      PROVE  v \in Versions' /\ rows'[v].policy = rows[v].policy
  BY <1>5, <1>0, WithStatusType DEF Versions
<1>6. ASSUME NEW h \in Handlers, SupersedeOlder(h) \/ ReportSupersede(h)
      PROVE  v \in Versions' /\ rows'[v].policy = rows[v].policy
  <2>1. call[h].seenVersion \in Nat /\ call[h].seenVersion + 1 \in Nat
    BY <1>0 DEF TypeOK, Call
  <2> QED
    BY <2>1, <1>4, <1>6 DEF SupersedeOlder, ReportSupersede
<1>7. ASSUME NEW h \in Handlers, ConfigMarkLoaded(h) \/ ReceiveReport(h)
      PROVE  v \in Versions' /\ rows'[v].policy = rows[v].policy
  BY <1>5, <1>7 DEF ConfigMarkLoaded, ReceiveReport, Inv, BackfillKnown, Status
<1>8. ASSUME NEW h \in Handlers, Handle(h)
      PROVE  v \in Versions' /\ rows'[v].policy = rows[v].policy
  <2>1. \/ UNCHANGED rows \/ PutRevision(h) \/ ConfigPut(h)
        \/ SupersedeOlder(h) \/ ReportSupersede(h)
        \/ ConfigMarkLoaded(h) \/ ReceiveReport(h)
    BY <1>8 DEF Handle, ReceiveUpdate, ReceiveDecision, ReceiveUndo, CheckGlobal,
                ValidateUpdate, ReadLatest, ReceiveConfig, ConfigReadLatest,
                ReportRead, ReportPut, Abandon
  <2> QED
    BY <2>1, <1>1, <1>2, <1>3, <1>6, <1>7
<1>9. UNCHANGED rows \/ \E h \in Handlers : Handle(h)
  BY DEF Next, vars, ToggleGlobalPolicy
<1> QED
  BY <1>1, <1>8, <1>9

\* The history is append-only: put_policy_revision never replaces a row and
\* the status updates leave every payload as it was inserted.
THEOREM HistoryAppendOnly == Spec => AppendOnly
<1>1. Inv /\ [Next]_vars =>
          [\A v \in Versions :
              v \in Versions' /\ rows'[v].policy = rows[v].policy]_vars
  BY KeepsRevisions
<1> QED
  BY <1>1, InvInit, InvNext, PTL DEF Spec, AppendOnly

-----------------------------------------------------------------------------
(* The history implements RevisionLog. *)

Seeds == Submitted \cup (InitialSpecs \ {None})

\* The policy of version v of table rs, the empty policy when there is none.
PolicyAt(rs, v) == IF v = 0 THEN DefaultPolicy ELSE rs[v].policy

\* What a call has read and kept: a record's policy is one a sandbox can have;
\* a call that computes is one of the four operations, an update of a submitted
\* policy; at the insert, the policy read is that of the version read, and the
\* early returns after the read were not taken.
CallKnown(c, rs) ==
    /\ c.seenRecord.spec \in Seeds \cup {None}
    /\ c.pc \in Computing => c.op \in {"update", "approve", "reject", "undo"}
    /\ c.pc \in Computing /\ c.op = "update" => c.policy \in Submitted
    /\ c.pc = "validate" => c.op = "update"
    /\ c.pc = "put" =>
          /\ c.seenPolicy = PolicyAt(rs, c.seenVersion)
          /\ c.op = "update" /\ c.seenVersion # 0 => c.seenPolicy # c.policy
          /\ c.op \in {"reject", "undo"} => c.seenVersion # 0

LogKnown ==
    /\ record.spec \in Seeds \cup {None}
    /\ \A h \in Handlers : CallKnown(call[h], rows)

LogInv == Inv /\ LogKnown

\* A call without a policy or a record is known whatever the table holds.
LEMMA IdleKnown == \A rs : CallKnown(Idle, rs)
BY DEF CallKnown, Idle, Computing

\* What a call knows of the table stays true, as revisions are immutable.
LEMMA KnownStays ==
    ASSUME LogInv, [Next]_vars, NEW k \in Handlers
    PROVE  CallKnown(call[k], rows')
<1>1. CallKnown(call[k], rows) /\ call[k] \in Call
  BY DEF LogInv, LogKnown, Inv, TypeOK
<1>2. ASSUME call[k].pc = "put", call[k].seenVersion # 0
      PROVE  rows'[call[k].seenVersion].policy = rows[call[k].seenVersion].policy
  <2>1. call[k].seenVersion \in Nat /\ call[k].seenVersion <= Latest /\ Versions = 1..Latest
        /\ Latest \in Nat
    BY <1>1, <1>2 DEF LogInv, Inv, SeenIsPast, NoGaps, Call
  <2>2. call[k].seenVersion \in Versions
    BY <1>2, <2>1
  <2> QED
    BY <2>2, KeepsRevisions DEF LogInv
<1> QED
  BY <1>1, <1>2 DEF CallKnown, PolicyAt

\* A step that sets one call to a known one keeps what is known.
LEMMA KnownStep ==
    ASSUME LogInv, [Next]_vars, NEW h \in Handlers, NEW c,
           call' = [call EXCEPT ![h] = c], CallKnown(c, rows'),
           record'.spec \in Seeds \cup {None}
    PROVE  LogKnown'
<1>1. ASSUME NEW k \in Handlers PROVE CallKnown(call'[k], rows')
  <2>1. CASE k = h
    BY <2>1 DEF LogInv, Inv, TypeOK
  <2>2. CASE k # h
    <3>1. call'[k] = call[k]
      BY <2>2 DEF LogInv, Inv, TypeOK
    <3> QED
      BY <3>1, KnownStays
  <2> QED
    BY <2>1, <2>2
<1> QED
  BY <1>1 DEF LogKnown, CallKnown, PolicyAt

LEMMA LogInvInit == Init => LogInv
<1> SUFFICES ASSUME Init PROVE LogInv
  OBVIOUS
<1>1. record.spec \in Seeds \cup {None}
  BY DEF Init, Seeds
<1>2. \A h \in Handlers : call[h] = Idle
  BY DEF Init
<1> QED
  BY <1>1, <1>2, InvInit, IdleKnown DEF LogInv, LogKnown

LEMMA LogInvNext == LogInv /\ [Next]_vars => LogInv'
<1> SUFFICES ASSUME LogInv, [Next]_vars PROVE LogKnown'
  BY InvNext DEF LogInv
<1> USE DEF Computing
<1>t. /\ record \in Record /\ record.spec \in Seeds \cup {None}
      /\ Latest \in Nat /\ Versions = 1..Latest
      /\ call \in [Handlers -> Call]
  BY DEF LogInv, LogKnown, Inv, TypeOK, NoGaps, SeenIsPast
<1>1. CASE UNCHANGED <<record, call>>
  BY <1>1, KnownStays DEF LogInv, LogKnown
<1>2. ASSUME NEW h \in Handlers, Handle(h), ~UNCHANGED <<record, call>> PROVE LogKnown'
  <2>t. /\ call[h] \in Call /\ CallKnown(call[h], rows')
        /\ call[h].seenRecord.spec \in Seeds \cup {None}
    BY <1>t, KnownStays DEF LogInv, LogKnown, CallKnown
  <2>f. ASSUME Finish(h), record'.spec \in Seeds \cup {None} PROVE LogKnown'
    BY <2>f, IdleKnown, KnownStep DEF Finish
  <2>g. ASSUME NEW step \in Steps \ {"put"}, Goto(h, step), record'.spec \in Seeds \cup {None},
               step \in Computing => call[h].pc \in Computing,
               step = "validate" => call[h].op = "update"
        PROVE  LogKnown'
    <3> DEFINE c == [call[h] EXCEPT !.pc = step]
    <3>1. /\ c.pc = step /\ c.op = call[h].op /\ c.policy = call[h].policy
          /\ c.seenRecord = call[h].seenRecord
      BY <2>t DEF Call
    <3>2. call' = [call EXCEPT ![h] = c]
      BY <2>g, <1>t DEF Goto
    <3> HIDE DEF c
    <3>3. CallKnown(c, rows')
      BY <2>g, <2>t, <3>1 DEF CallKnown
    <3> QED
      BY <2>g, <3>2, <3>3, KnownStep
  <2>1. CASE ReceiveUpdate(h)
    <3>1. PICK p \in Payloads :
             call' = [call EXCEPT ![h] =
                [Idle EXCEPT !.pc = "check", !.op = "update",
                             !.policy = WithIdentity(p), !.seenRecord = record]]
      BY <2>1 DEF ReceiveUpdate, Receive
    <3> DEFINE c == [Idle EXCEPT !.pc = "check", !.op = "update",
                             !.policy = WithIdentity(p), !.seenRecord = record]
    <3>2. c.pc = "check" /\ c.op = "update" /\ c.policy \in Submitted /\ c.seenRecord = record
      BY DEF Idle, Submitted
    <3> HIDE DEF c
    <3>3. CallKnown(c, rows')
      BY <1>t, <3>2 DEF CallKnown
    <3> QED
      BY <1>t, <2>1, <3>1, <3>3, KnownStep DEF ReceiveUpdate, c
  <2>2. CASE ReceiveDecision(h) \/ ReceiveUndo(h)
    <3>1. PICK g \in Grants, o \in {"approve", "reject", "undo"}, step \in {"check", "latest"} :
             call' = [call EXCEPT ![h] = [Idle EXCEPT !.pc = step, !.op = o, !.grant = g]]
      BY <2>2 DEF ReceiveDecision, ReceiveUndo, Receive
    <3> DEFINE c == [Idle EXCEPT !.pc = step, !.op = o, !.grant = g]
    <3>2. c.pc = step /\ c.op = o /\ c.seenRecord.spec = None
      BY DEF Idle
    <3> HIDE DEF c
    <3>3. CallKnown(c, rows')
      BY <3>2 DEF CallKnown
    <3> QED
      BY <1>t, <2>2, <3>1, <3>3, KnownStep DEF ReceiveDecision, ReceiveUndo, c
  <2>3. CASE CheckGlobal(h)
    BY <1>t, <2>3, <2>f, <2>g DEF CheckGlobal, Steps
  <2>4. CASE ValidateUpdate(h)
    <3>1. record'.spec \in Seeds \cup {None}
      <4>1. CASE UNCHANGED record
        BY <1>t, <4>1
      <4>2. CASE /\ call[h].pc = "validate"
                 /\ record' = [call[h].seenRecord EXCEPT !.spec = call[h].policy]
                 /\ Goto(h, "latest")
        <5>1. record'.spec = call[h].policy
          BY <2>t, <4>2 DEF Call, Record
        <5> QED
          BY <2>t, <4>2, <5>1 DEF CallKnown, Seeds
      <4> QED
        BY <2>4, <4>1, <4>2 DEF ValidateUpdate
    <3> QED
      BY <2>4, <2>f, <2>g, <3>1 DEF ValidateUpdate, Steps
  <2>5. CASE ReadLatest(h)
    <3>1. CASE Finish(h)
      BY <1>t, <2>5, <2>f, <3>1 DEF ReadLatest
    <3>2. CASE /\ call[h].op = "update" /\ Versions # {} => LatestPolicy # call[h].policy
               /\ call[h].op \in {"reject", "undo"} => Versions # {}
               /\ call' = [call EXCEPT ![h].pc = "put", ![h].seenVersion = Latest,
                                       ![h].seenPolicy = LatestPolicy]
      <4> DEFINE c == [call[h] EXCEPT !.pc = "put", !.seenVersion = Latest,
                                      !.seenPolicy = LatestPolicy]
      <4>1. /\ c.pc = "put" /\ c.op = call[h].op /\ c.policy = call[h].policy
            /\ c.seenRecord = call[h].seenRecord /\ c.seenVersion = Latest
            /\ c.seenPolicy = LatestPolicy
        BY <2>t DEF Call
      <4>2. call' = [call EXCEPT ![h] = c]
        BY <3>2, <1>t
      <4> HIDE DEF c
      <4>3. UNCHANGED <<rows, record>> /\ call[h].pc = "latest"
        BY <2>5 DEF ReadLatest
      <4>4. /\ LatestPolicy = PolicyAt(rows', Latest)
            /\ Latest = 0 <=> Versions = {}
        <5>1. Latest = 0 <=> Versions = {}
          BY <1>t
        <5> QED
          BY <4>3, <5>1 DEF LatestPolicy, PolicyAt
      <4>5. CallKnown(c, rows')
        BY <2>t, <3>2, <4>1, <4>3, <4>4 DEF CallKnown
      <4> QED
        BY <1>t, <4>2, <4>3, <4>5, KnownStep
    <3> QED
      BY <2>5, <3>1, <3>2 DEF ReadLatest
  <2>6. CASE PutRevision(h)
    <3>1. UNCHANGED record /\ call[h].pc = "put"
      BY <2>6 DEF PutRevision
    <3>2. CASE Finish(h) \/ Goto(h, "supersede")
      BY <1>t, <2>f, <2>g, <3>1, <3>2 DEF Steps
    <3>3. CASE call' = [call EXCEPT ![h].pc = "latest", ![h].attempt = @ + 1]
      <4> DEFINE c == [call[h] EXCEPT !.pc = "latest", !.attempt = @ + 1]
      <4>1. /\ c.pc = "latest" /\ c.op = call[h].op /\ c.policy = call[h].policy
            /\ c.seenRecord = call[h].seenRecord
        BY <2>t DEF Call
      <4>2. call' = [call EXCEPT ![h] = c]
        BY <3>3, <1>t
      <4> HIDE DEF c
      <4>3. CallKnown(c, rows')
        BY <2>t, <3>1, <4>1 DEF CallKnown
      <4> QED
        BY <1>t, <3>1, <4>2, <4>3, KnownStep
    <3> QED
      BY <2>6, <3>2, <3>3 DEF PutRevision
  <2>7. CASE ReceiveConfig(h)
    <3> DEFINE c == [Idle EXCEPT !.pc = "config_latest", !.op = "config", !.seenRecord = record]
    <3>1. c.pc = "config_latest" /\ c.seenRecord = record
      BY DEF Idle
    <3>2. call' = [call EXCEPT ![h] = c] /\ UNCHANGED record
      BY <2>7 DEF ReceiveConfig, Receive
    <3> HIDE DEF c
    <3>3. CallKnown(c, rows')
      BY <1>t, <3>1 DEF CallKnown
    <3> QED
      BY <1>t, <3>2, <3>3, KnownStep
  <2>8. CASE \/ SupersedeOlder(h) \/ ConfigReadLatest(h) \/ ConfigPut(h) \/ ConfigMarkLoaded(h)
             \/ ReportSupersede(h) \/ Abandon(h)
    BY <1>t, <2>f, <2>g, <2>8
    DEF SupersedeOlder, ConfigReadLatest, ConfigPut, ConfigMarkLoaded, ReportSupersede, Abandon, Steps
  <2>9. CASE ReceiveReport(h)
    <3>1. PICK v \in Versions :
             call' = [call EXCEPT ![h] = [Idle EXCEPT !.pc = "report_supersede",
                                                      !.op = "report", !.seenVersion = v]]
      BY <1>2, <2>9 DEF ReceiveReport
    <3> DEFINE c == [Idle EXCEPT !.pc = "report_supersede", !.op = "report", !.seenVersion = v]
    <3>2. c.pc = "report_supersede" /\ c.seenRecord.spec = None
      BY DEF Idle
    <3> HIDE DEF c
    <3>3. CallKnown(c, rows')
      BY <3>2 DEF CallKnown
    <3> QED
      BY <1>t, <2>9, <3>1, <3>3, KnownStep DEF ReceiveReport, c
  <2>10. CASE ReportRead(h)
    <3> DEFINE c == [call[h] EXCEPT !.pc = "report_put", !.seenRecord = record]
    <3>1. c.pc = "report_put" /\ c.seenRecord = record
      BY <2>t DEF Call
    <3>2. call' = [call EXCEPT ![h] = c] /\ UNCHANGED record
      BY <1>t, <2>10 DEF ReportRead
    <3> HIDE DEF c
    <3>3. CallKnown(c, rows')
      BY <1>t, <3>1 DEF CallKnown
    <3> QED
      BY <1>t, <3>2, <3>3, KnownStep
  <2>11. CASE ReportPut(h)
    <3>1. record'.spec = call[h].seenRecord.spec
      BY <2>t, <2>11 DEF ReportPut, Call, Record
    <3> QED
      BY <2>t, <2>11, <2>f, <3>1 DEF ReportPut
  <2> QED
    BY <1>2, <2>1, <2>2, <2>3, <2>4, <2>5, <2>6, <2>7, <2>8, <2>9, <2>10, <2>11 DEF Handle
<1> QED
  BY <1>1, <1>2 DEF Next, vars, ToggleGlobalPolicy

\* The log the table stands for.
TableLog == [v \in 1..Latest |-> rows[v].policy]

\* The policies of versions 1 to n of a table are a sequence of length n.
LEMMA PoliciesSeq ==
    ASSUME NEW rs, NEW n \in Nat, \A v \in 1..n : rs[v].policy \in Policies
    PROVE  /\ [v \in 1..n |-> rs[v].policy] \in Seq(Policies)
           /\ Len([v \in 1..n |-> rs[v].policy]) = n
<1> DEFINE l == [v \in 1..n |-> rs[v].policy]
<1>1. l \in [1..n -> Policies]
  OBVIOUS
<1> HIDE DEF l
<1>2. l \in Seq(Policies)
  BY <1>1, SeqDef
<1>3. Len(l) = n
  BY <1>1, <1>2, LenProperties
<1> QED
  BY <1>2, <1>3 DEF l

\* The log is a sequence of policies, as long as the newest version says.
LEMMA TableLogSeq ==
    ASSUME Inv
    PROVE  /\ TableLog \in Seq(Policies) /\ Len(TableLog) = Latest
           /\ \A v \in 1..Latest : TableLog[v] = rows[v].policy
           /\ TableLog = <<>> <=> Latest = 0
<1>1. /\ Latest \in Nat /\ Versions = 1..Latest
      /\ \A v \in 1..Latest : rows[v].policy \in Policies
  BY DEF Inv, TypeOK, NoGaps, SeenIsPast
<1>2. TableLog \in Seq(Policies) /\ Len(TableLog) = Latest
  BY <1>1, PoliciesSeq DEF TableLog
<1>3. \A v \in 1..Latest : TableLog[v] = rows[v].policy
  BY DEF TableLog
<1>4. TableLog = <<>> <=> Latest = 0
  BY <1>2, EmptySeq
<1> QED
  BY <1>2, <1>3, <1>4

\* Inserting the version after the newest appends to the log.
LEMMA InsertAppends ==
    ASSUME Inv, Inv', NEW p \in Policies, rows' = WithRevision(Latest + 1, p)
    PROVE  TableLog' = Append(TableLog, p)
<1>1. Latest \in Nat /\ Versions = 1..Latest
  BY DEF Inv, NoGaps, SeenIsPast
<1>2. Latest + 1 \in Nat \ {0}
  BY <1>1
<1> DEFINE n == Latest + 1
<1>3. /\ Versions' = 1..n
      /\ \A v \in 1..Latest : rows'[v] = rows[v]
      /\ rows'[n].policy = p
  <2>1. TypeOK /\ n \notin Versions
    BY <1>1 DEF Inv
  <2> HIDE DEF n
  <2>2. /\ Versions' = Versions \cup {n}
        /\ \A w \in Versions : w # n => rows'[w] = rows[w]
        /\ rows'[n] = [policy |-> p, status |-> "pending"]
    BY <1>2, <2>1, WithRevisionType DEF Versions, n
  <2> QED
    BY <1>1, <2>1, <2>2 DEF n
<1>4. Latest' = n
  <2>1. Versions' # {} /\ Max(Versions') = n
    BY <1>2, <1>3, MaxInterval
  <2> QED
    BY <2>1 DEF Latest
<1>5. /\ TableLog \in Seq(Policies) /\ Len(TableLog) = Latest
      /\ \A v \in 1..Latest : TableLog[v] = rows[v].policy
  BY TableLogSeq
<1>6. TableLog' = [v \in 1..Latest + 1 |-> rows'[v].policy]
  BY <1>4 DEF TableLog
<1> DEFINE f == Append(TableLog, p)
           e == TableLog'
<1>7. /\ f \in Seq(Policies) /\ Len(f) = Latest + 1
      /\ \A v \in 1..Latest : f[v] = TableLog[v]
      /\ f[Latest + 1] = p
  BY <1>5, AppendProperties
<1>8. e \in Seq(Policies) /\ Len(e) = Latest + 1
  <2>1. \A v \in 1..n : rows'[v].policy \in Policies
    BY <1>3 DEF Inv, TypeOK
  <2> QED
    BY <1>2, <1>6, <2>1, PoliciesSeq
<1>9. \A v \in 1..Latest + 1 : e[v] = f[v]
  BY <1>1, <1>3, <1>5, <1>6, <1>7
<1> HIDE DEF e, f
<1>10. e = f
  BY <1>7, <1>8, <1>9, SeqEqual
<1> QED
  BY <1>10 DEF e, f

\* A step that changes no policy and adds no version leaves the log alone.
LEMMA LogUnchanged ==
    ASSUME Inv, Versions' = Versions, \A v \in Versions : rows'[v].policy = rows[v].policy
    PROVE  TableLog' = TableLog
<1>1. Latest' = Latest /\ Versions = 1..Latest
  BY DEF Latest, Inv, NoGaps
<1> QED
  BY <1>1 DEF TableLog

\* Every step of the handlers is a step of the log or leaves it alone: an
\* insert that succeeds was computed from what is still the newest policy.
LEMMA LogStep ==
    ASSUME LogInv, [Next]_vars
    PROVE  [Log!Next]_TableLog
<1>t. /\ Inv /\ Inv' /\ TypeOK /\ Latest \in Nat /\ Versions = 1..Latest
  BY InvNext DEF LogInv, Inv, NoGaps, SeenIsPast
<1>l. /\ Log!Last = LatestPolicy
      /\ TableLog = <<>> <=> Latest = 0
      /\ TableLog = <<>> <=> Versions = {}
  <2>1. /\ TableLog \in Seq(Policies) /\ Len(TableLog) = Latest
        /\ \A v \in 1..Latest : TableLog[v] = rows[v].policy
        /\ TableLog = <<>> <=> Latest = 0
    BY <1>t, TableLogSeq
  <2>2. Latest = 0 <=> Versions = {}
    BY <1>t
  <2>3. Log!Last = IF TableLog = <<>> THEN DefaultPolicy ELSE TableLog[Len(TableLog)]
    BY DEF Log!Last, TableLog
  <2> QED
    BY <1>t, <2>1, <2>2, <2>3 DEF LatestPolicy
<1>1. CASE UNCHANGED rows
  BY <1>1, <1>t, LogUnchanged DEF Versions
<1>2. ASSUME NEW h \in Handlers, PutRevision(h), ~UNCHANGED rows PROVE [Log!Next]_TableLog
  <2> DEFINE v == call[h].seenVersion + 1
  <2>1. /\ call[h].pc = "put" /\ v \notin Versions
        /\ \E p \in Results(call[h]) : rows' = WithRevision(v, p)
    BY <1>2 DEF PutRevision
  <2>2. PICK p \in Results(call[h]) : rows' = WithRevision(v, p)
    BY <2>1
  <2>3. /\ call[h].seenVersion \in Nat /\ call[h].seenVersion <= Latest
        /\ call[h].op # "update" => call[h].grant \in Grants
    BY <1>t, <2>1 DEF TypeOK, Call, Inv, SeenIsPast, GrantKnown, Computing
  <2>4. call[h].seenVersion = Latest /\ v = Latest + 1
    BY <1>t, <2>1, <2>3
  <2>5. p \in Policies
    BY <1>t, <2>1, ResultType
  <2>6. TableLog' = Append(TableLog, p)
    BY <1>t, <2>2, <2>4, <2>5, InsertAppends
  <2>7. /\ call[h].op \in {"update", "approve", "reject", "undo"}
        /\ call[h].op = "update" => call[h].policy \in Submitted
        /\ call[h].seenPolicy = PolicyAt(rows, Latest)
        /\ call[h].op = "update" /\ Latest # 0 => call[h].seenPolicy # call[h].policy
        /\ call[h].op \in {"reject", "undo"} => Latest # 0
    BY <2>1, <2>4 DEF LogInv, LogKnown, CallKnown, Computing
  <2>8. call[h].seenPolicy = Log!Last
    BY <1>l, <2>7 DEF PolicyAt, LatestPolicy
  <2>9. CASE call[h].op = "update"
    <3>1. p = call[h].policy
      BY <2>9 DEF Results
    <3>2. Log!Replace(p)
      BY <1>l, <2>6, <2>7, <2>8, <2>9, <3>1 DEF Log!Replace, TableLog
    <3> QED
      BY <2>7, <2>9, <3>1, <3>2 DEF Log!Next
  <2>10. CASE call[h].op = "approve"
    <3>1. p \in Merges(Log!Last, call[h].grant)
      BY <2>8, <2>10 DEF Results
    <3>2. PICK g \in Grants : g = call[h].grant
      BY <2>3, <2>10
    <3>3. Log!Merge(g)
      BY <2>6, <3>1, <3>2 DEF Log!Merge, TableLog
    <3> QED
      BY <3>3 DEF Log!Next
  <2>11. CASE call[h].op \in {"reject", "undo"}
    <3>1. p = Without(Log!Last, call[h].grant)
      BY <2>8, <2>11 DEF Results
    <3>2. PICK g \in Grants : g = call[h].grant
      BY <2>3, <2>11
    <3>3. Log!Remove(g)
      BY <1>l, <2>6, <2>7, <2>11, <3>1, <3>2 DEF Log!Remove, TableLog
    <3> QED
      BY <3>3 DEF Log!Next
  <2> QED
    BY <2>7, <2>9, <2>10, <2>11
<1>3. ASSUME NEW h \in Handlers, ConfigPut(h), ~UNCHANGED rows PROVE [Log!Next]_TableLog
  <2> DEFINE p == call[h].seenRecord.spec
  <2>1. /\ call[h].pc = "config_put" /\ 1 \notin Versions
        /\ rows' = WithRevision(1, p)
    BY <1>3 DEF ConfigPut
  <2>2. Latest = 0
    BY <1>t, <2>1
  <2>3. p # None /\ p \in Seeds \cup {None} /\ p \in Policies
    BY <1>t, <2>1 DEF LogInv, LogKnown, CallKnown, Inv, BackfillKnown, TypeOK, Call, Record
  <2>4. TableLog = <<>> /\ TableLog' = Append(<<>>, p)
    BY <1>l, <1>t, <2>1, <2>2, <2>3, InsertAppends
  <2>5. Append(<<>>, p) = <<p>>
    OBVIOUS
  <2>6. PICK q \in Seeds : q = p
    BY <2>3
  <2>7. Log!Seed(q)
    BY <2>4, <2>5, <2>6 DEF Log!Seed, TableLog
  <2> QED
    BY <2>7 DEF Log!Next, Seeds
<1>4. ASSUME NEW h \in Handlers,
             \/ SupersedeOlder(h) \/ ReportSupersede(h)
             \/ ConfigMarkLoaded(h) \/ ReceiveReport(h)
      PROVE  [Log!Next]_TableLog
  <2>1. call[h].seenVersion \in Nat /\ call[h].seenVersion + 1 \in Nat
    BY <1>t DEF TypeOK, Call
  <2>2. Versions' = Versions
    <3>1. CASE SupersedeOlder(h) \/ ReportSupersede(h)
      BY <1>t, <2>1, <3>1, WithSupersededType DEF SupersedeOlder, ReportSupersede, Versions
    <3>2. CASE ConfigMarkLoaded(h) \/ ReceiveReport(h)
      <4>1. PICK v \in Versions, st \in Status : rows' = WithStatus(v, st)
        BY <1>t, <3>2 DEF ConfigMarkLoaded, ReceiveReport, Inv, BackfillKnown, Status
      <4> QED
        BY <1>t, <4>1, WithStatusType DEF Versions
    <3> QED
      BY <1>4, <3>1, <3>2
  <2> QED
    BY <1>t, <2>2, LogUnchanged, KeepsRevisions
<1>5. ASSUME NEW h \in Handlers, Handle(h) PROVE [Log!Next]_TableLog
  <2>1. \/ UNCHANGED rows \/ PutRevision(h) \/ ConfigPut(h)
        \/ SupersedeOlder(h) \/ ReportSupersede(h)
        \/ ConfigMarkLoaded(h) \/ ReceiveReport(h)
    BY <1>5 DEF Handle, ReceiveUpdate, ReceiveDecision, ReceiveUndo, CheckGlobal,
                ValidateUpdate, ReadLatest, ReceiveConfig, ConfigReadLatest,
                ReportRead, ReportPut, Abandon
  <2> QED
    BY <2>1, <1>1, <1>2, <1>3, <1>4
<1> QED
  BY <1>1, <1>5 DEF Next, vars, ToggleGlobalPolicy

\* The history of a sandbox implements RevisionLog: for any number of handlers
\* that read, compute and insert without a lock, every revision is the result
\* of one whole operation on the revision before it.
THEOREM ImplementsRevisionLog == Spec => AtomicRevisions
<1>1. Init => Log!Init
  <2> SUFFICES ASSUME Init PROVE TableLog = <<>>
    BY DEF Log!Init, TableLog
  <2>1. Inv /\ Latest = 0
    BY InvInit DEF Init, Latest, Versions
  <2> QED
    BY <2>1, TableLogSeq
<1>2. LogInv /\ [Next]_vars => [Log!Next]_TableLog
  BY LogStep
<1>3. Spec => []LogInv
  BY LogInvInit, LogInvNext, PTL DEF Spec
<1>4. Log!Spec <=> Log!Init /\ [][Log!Next]_TableLog
  BY DEF Log!Spec, TableLog
<1> QED
  BY <1>1, <1>2, <1>3, <1>4, PTL DEF Spec, AtomicRevisions

-----------------------------------------------------------------------------
(* Statuses and the baseline, when no call is abandoned midway. *)

\* What a call knows of the record of a sandbox that has a policy: what it read
\* of it is still so, an update that passed validation keeps the baseline, and
\* an approval has a revision to start from.
BaseCall(c, spec, n) ==
    /\ c.pc \in {"check", "validate"} /\ c.op = "update" => c.seenRecord.spec = spec
    /\ c.pc \in {"config_latest", "config_put", "report_put"} => c.seenRecord.spec = spec
    /\ c.pc \in {"latest", "put"} /\ c.op = "update" => StaticFieldsUnchanged(spec, c.policy)
    /\ c.pc \in {"check", "latest"} /\ c.op = "approve" => n # 0
    /\ c.pc = "put" /\ c.op = "approve" => c.seenVersion # 0

BaseKnown ==
    /\ record.spec # None
    /\ \A h \in Handlers : BaseCall(call[h], record.spec, Latest)
    /\ \A v \in Versions : StaticFieldsUnchanged(record.spec, rows[v].policy)

BaseInv == LogInv /\ BaseKnown

\* Merging a grant in and taking it out touch the network part only.
LEMMA StaticKept ==
    ASSUME NEW p \in Policies, NEW g
    PROVE  /\ \A q \in Merges(p, g) : q.fs = p.fs /\ q.proc = p.proc
           /\ Without(p, g).fs = p.fs /\ Without(p, g).proc = p.proc
BY DEF Merges, Without, Policies

\* A step that keeps the record's policy, sets one call, and inserts at most a
\* revision that keeps the baseline, keeps BaseKnown.
LEMMA BaseStep ==
    ASSUME BaseInv, [Next]_vars, NEW h \in Handlers, NEW c,
           call' = [call EXCEPT ![h] = c] \/ UNCHANGED call,
           record'.spec = record.spec,
           UNCHANGED call \/ BaseCall(c, record.spec, Latest'),
           \A v \in Versions' \ Versions : StaticFieldsUnchanged(record.spec, rows'[v].policy)
    PROVE  BaseKnown'
<1>1. Latest \in Nat /\ Latest' \in Nat /\ Versions = 1..Latest /\ Versions' = 1..Latest'
  BY InvNext DEF BaseInv, LogInv, Inv, NoGaps, SeenIsPast
<1>2. \A v \in Versions : v \in Versions' /\ rows'[v].policy = rows[v].policy
  BY KeepsRevisions DEF BaseInv, LogInv
<1>3. Latest # 0 => Latest' # 0
  BY <1>1, <1>2
<1>4. \A k \in Handlers : BaseCall(call'[k], record.spec, Latest')
  <2>1. \A k \in Handlers : BaseCall(call[k], record.spec, Latest')
    BY <1>3 DEF BaseInv, BaseKnown, BaseCall
  <2>2. \A k \in Handlers : call'[k] = call[k] \/ (call'[k] = c /\ BaseCall(c, record.spec, Latest'))
    BY DEF BaseInv, LogInv, Inv, TypeOK
  <2> QED
    BY <2>1, <2>2
<1>5. \A v \in Versions' : StaticFieldsUnchanged(record.spec, rows'[v].policy)
  BY <1>2 DEF BaseInv, BaseKnown
<1>6. record'.spec # None
  BY DEF BaseInv, BaseKnown
<1> QED
  BY <1>4, <1>5, <1>6 DEF BaseKnown, BaseCall

LEMMA BaseInvInit == None \notin InitialSpecs /\ Init => BaseInv
<1> SUFFICES ASSUME None \notin InitialSpecs, Init PROVE BaseKnown
  BY LogInvInit DEF BaseInv
<1> QED
  BY DEF Init, BaseKnown, BaseCall, Idle, Versions

LEMMA BaseInvNext == ~Faults /\ BaseInv /\ [Next]_vars => BaseInv'
<1> SUFFICES ASSUME ~Faults, BaseInv, [Next]_vars PROVE BaseKnown'
  BY LogInvNext DEF BaseInv
<1>t. /\ TypeOK /\ Inv /\ LogKnown /\ record \in Record /\ record.spec # None /\ record.spec \in Policies
      /\ Latest \in Nat /\ Versions = 1..Latest
      /\ call \in [Handlers -> Call]
  BY DEF BaseInv, BaseKnown, LogInv, LogKnown, Inv, TypeOK, NoGaps, SeenIsPast, Record
<1>u. ASSUME UNCHANGED rows PROVE Versions' = Versions /\ Latest' = Latest
  BY <1>u DEF Versions, Latest
<1>1. CASE UNCHANGED <<rows, record, call>>
  BY <1>1 DEF BaseInv, BaseKnown, Versions, Latest
<1>2. ASSUME NEW h \in Handlers, Handle(h) PROVE BaseKnown'
  <2>t. call[h] \in Call /\ BaseCall(call[h], record.spec, Latest) /\ CallKnown(call[h], rows)
    BY <1>t DEF BaseInv, BaseKnown, LogKnown
  <2>f. ASSUME Finish(h), record'.spec = record.spec, Versions' = Versions PROVE BaseKnown'
    <3>1. BaseCall(Idle, record.spec, Latest')
      BY DEF BaseCall, Idle
    <3> QED
      BY <2>f, <3>1, BaseStep DEF Finish
  <2>g. ASSUME NEW step \in Steps, Goto(h, step), record'.spec = record.spec,
               \A v \in Versions' \ Versions : StaticFieldsUnchanged(record.spec, rows'[v].policy),
               BaseCall([call[h] EXCEPT !.pc = step], record.spec, Latest')
        PROVE  BaseKnown'
    <3> DEFINE c == [call[h] EXCEPT !.pc = step]
    <3>1. call' = [call EXCEPT ![h] = c]
      BY <2>g, <1>t DEF Goto
    <3> HIDE DEF c
    <3> QED
      BY <2>g, <3>1, BaseStep DEF c
  <2>1. CASE ReceiveUpdate(h)
    <3>1. PICK p \in Payloads :
             call' = [call EXCEPT ![h] =
                [Idle EXCEPT !.pc = "check", !.op = "update",
                             !.policy = WithIdentity(p), !.seenRecord = record]]
      BY <2>1 DEF ReceiveUpdate, Receive
    <3> DEFINE c == [Idle EXCEPT !.pc = "check", !.op = "update",
                             !.policy = WithIdentity(p), !.seenRecord = record]
    <3>2. c.pc = "check" /\ c.op = "update" /\ c.seenRecord = record
      BY DEF Idle
    <3> HIDE DEF c
    <3>3. BaseCall(c, record.spec, Latest')
      BY <3>2 DEF BaseCall
    <3> QED
      BY <1>u, <2>1, <3>1, <3>3, BaseStep DEF ReceiveUpdate, c
  <2>2. CASE ReceiveDecision(h)
    <3>1. PICK g \in Grants, o \in {"approve", "reject"} :
             call' = [call EXCEPT ![h] = [Idle EXCEPT !.pc = "check", !.op = o, !.grant = g]]
      BY <2>2 DEF ReceiveDecision, Receive
    <3> DEFINE c == [Idle EXCEPT !.pc = "check", !.op = o, !.grant = g]
    <3>2. c.pc = "check" /\ c.op = o
      BY DEF Idle
    <3> HIDE DEF c
    <3>3. Latest' # 0 /\ UNCHANGED <<rows, record>>
      BY <1>t, <1>u, <2>2 DEF ReceiveDecision
    <3>4. BaseCall(c, record.spec, Latest')
      BY <3>2, <3>3 DEF BaseCall
    <3> QED
      BY <1>u, <3>1, <3>3, <3>4, BaseStep DEF c
  <2>3. CASE ReceiveUndo(h)
    <3>1. PICK g \in Grants :
             call' = [call EXCEPT ![h] = [Idle EXCEPT !.pc = "latest", !.op = "undo", !.grant = g]]
      BY <2>3 DEF ReceiveUndo, Receive
    <3> DEFINE c == [Idle EXCEPT !.pc = "latest", !.op = "undo", !.grant = g]
    <3>2. c.pc = "latest" /\ c.op = "undo"
      BY DEF Idle
    <3> HIDE DEF c
    <3>4. BaseCall(c, record.spec, Latest')
      BY <3>2 DEF BaseCall
    <3> QED
      BY <1>u, <2>3, <3>1, <3>4, BaseStep DEF ReceiveUndo, c
  <2>4. CASE CheckGlobal(h)
    <3>1. UNCHANGED <<rows, record>> /\ call[h].pc = "check"
      BY <2>4 DEF CheckGlobal
    <3>2. CASE Finish(h)
      BY <1>u, <2>f, <3>1, <3>2
    <3>3. CASE Goto(h, "validate") /\ call[h].op = "update"
      <4>1. BaseCall([call[h] EXCEPT !.pc = "validate"], record.spec, Latest')
        BY <2>t, <3>1, <3>3 DEF BaseCall, Call
      <4> QED
        BY <1>u, <2>g, <3>1, <3>3, <4>1 DEF Steps
    <3>4. CASE Goto(h, "latest") /\ call[h].op # "update"
      <4>1. BaseCall([call[h] EXCEPT !.pc = "latest"], record.spec, Latest')
        BY <1>u, <2>t, <3>1, <3>4 DEF BaseCall, Call
      <4> QED
        BY <1>u, <2>g, <3>1, <3>4, <4>1 DEF Steps
    <3> QED
      BY <2>4, <3>2, <3>3, <3>4 DEF CheckGlobal
  <2>5. CASE ValidateUpdate(h)
    <3>1. UNCHANGED rows /\ call[h].pc = "validate" /\ call[h].op = "update"
      BY <2>5, <2>t DEF ValidateUpdate, CallKnown
    <3>2. call[h].seenRecord.spec = record.spec
      BY <2>t, <3>1 DEF BaseCall
    <3>3. UNCHANGED record
      BY <1>t, <2>5, <3>2 DEF ValidateUpdate
    <3>4. CASE Finish(h)
      BY <1>u, <2>f, <3>1, <3>3, <3>4
    <3>5. CASE Goto(h, "latest") /\ StaticFieldsUnchanged(record.spec, call[h].policy)
      <4>1. BaseCall([call[h] EXCEPT !.pc = "latest"], record.spec, Latest')
        BY <2>t, <3>1, <3>5 DEF BaseCall, Call
      <4> QED
        BY <1>u, <2>g, <3>1, <3>3, <3>5, <4>1 DEF Steps
    <3> QED
      BY <1>t, <2>5, <3>2, <3>4, <3>5 DEF ValidateUpdate
  <2>6. CASE ReadLatest(h)
    <3>1. UNCHANGED <<rows, record>> /\ call[h].pc = "latest"
      BY <2>6 DEF ReadLatest
    <3>2. CASE Finish(h)
      BY <1>u, <2>f, <3>1, <3>2
    <3>3. CASE call' = [call EXCEPT ![h].pc = "put", ![h].seenVersion = Latest,
                                    ![h].seenPolicy = LatestPolicy]
      <4> DEFINE c == [call[h] EXCEPT !.pc = "put", !.seenVersion = Latest,
                                      !.seenPolicy = LatestPolicy]
      <4>1. /\ c.pc = "put" /\ c.op = call[h].op /\ c.policy = call[h].policy
            /\ c.seenVersion = Latest
        BY <2>t DEF Call
      <4>2. call' = [call EXCEPT ![h] = c]
        BY <3>3, <1>t
      <4> HIDE DEF c
      <4>3. BaseCall(c, record.spec, Latest')
        BY <2>t, <3>1, <4>1 DEF BaseCall
      <4> QED
        BY <1>u, <3>1, <4>2, <4>3, BaseStep
    <3> QED
      BY <2>6, <3>2, <3>3 DEF ReadLatest
  <2>7. CASE PutRevision(h)
    <3> DEFINE v == call[h].seenVersion + 1
    <3>1. UNCHANGED record /\ call[h].pc = "put"
      BY <2>7 DEF PutRevision
    <3>2. CASE Finish(h) /\ UNCHANGED rows
      BY <1>u, <2>f, <3>1, <3>2
    <3>3. CASE /\ call' = [call EXCEPT ![h].pc = "latest", ![h].attempt = @ + 1]
               /\ UNCHANGED rows /\ v \in Versions
      <4> DEFINE c == [call[h] EXCEPT !.pc = "latest", !.attempt = @ + 1]
      <4>1. c.pc = "latest" /\ c.op = call[h].op /\ c.policy = call[h].policy
        BY <2>t DEF Call
      <4>2. call' = [call EXCEPT ![h] = c]
        BY <3>3, <1>t
      <4> HIDE DEF c
      <4>3. Latest' # 0
        BY <1>t, <1>u, <2>t, <3>3 DEF Call
      <4>4. BaseCall(c, record.spec, Latest')
        BY <2>t, <3>1, <4>1, <4>3 DEF BaseCall
      <4> QED
        BY <1>u, <3>1, <3>3, <4>2, <4>4, BaseStep
    <3>4. CASE /\ \E p \in Results(call[h]) : rows' = WithRevision(v, p)
               /\ Goto(h, "supersede")
      <4>1. PICK p \in Results(call[h]) : rows' = WithRevision(v, p)
        BY <3>4
      <4>2. p \in Policies /\ v \in Nat \ {0}
        BY <1>t, <2>t, <3>1, ResultType DEF Call
      <4>3. Versions' = Versions \cup {v} /\ rows'[v].policy = p
        <5>1. /\ DOMAIN WithRevision(v, p) = Versions \cup {v}
              /\ WithRevision(v, p)[v] = [policy |-> p, status |-> "pending"]
          BY <1>t, <4>2, WithRevisionType
        <5> QED
          BY <4>1, <5>1 DEF Versions
      <4>4. StaticFieldsUnchanged(record.spec, p)
        <5>1. CASE call[h].op = "update"
          BY <2>t, <3>1, <4>1, <5>1 DEF Results, BaseCall
        <5>2. CASE call[h].op # "update"
          <6>1. /\ call[h].seenVersion # 0 /\ call[h].seenVersion \in Nat
                /\ call[h].seenVersion <= Latest
                /\ call[h].seenPolicy = rows[call[h].seenVersion].policy
            BY <1>t, <2>t, <3>1, <5>2
            DEF BaseCall, CallKnown, PolicyAt, Computing, Inv, SeenIsPast, Call
          <6>2. StaticFieldsUnchanged(record.spec, call[h].seenPolicy) /\ call[h].seenPolicy \in Policies
            BY <1>t, <2>t, <6>1 DEF BaseInv, BaseKnown, Call
          <6>3. p.fs = call[h].seenPolicy.fs /\ p.proc = call[h].seenPolicy.proc
            BY <4>1, <5>2, <6>2, StaticKept DEF Results
          <6> QED
            BY <6>2, <6>3 DEF StaticFieldsUnchanged
        <5> QED
          BY <5>1, <5>2
      <4>5. BaseCall([call[h] EXCEPT !.pc = "supersede"], record.spec, Latest')
        BY <2>t DEF BaseCall, Call
      <4> QED
        BY <2>g, <3>1, <3>4, <4>3, <4>4, <4>5 DEF Steps
    <3> QED
      BY <2>7, <3>2, <3>3, <3>4 DEF PutRevision
  <2>8. CASE ReceiveConfig(h)
    <3> DEFINE c == [Idle EXCEPT !.pc = "config_latest", !.op = "config", !.seenRecord = record]
    <3>1. c.pc = "config_latest" /\ c.seenRecord = record
      BY DEF Idle
    <3>2. call' = [call EXCEPT ![h] = c] /\ UNCHANGED <<rows, record>>
      BY <2>8 DEF ReceiveConfig, Receive
    <3> HIDE DEF c
    <3>3. BaseCall(c, record.spec, Latest')
      BY <3>1 DEF BaseCall
    <3> QED
      BY <1>u, <3>2, <3>3, BaseStep
  <2>9. CASE ConfigReadLatest(h)
    <3>1. BaseCall([call[h] EXCEPT !.pc = "config_put"], record.spec, Latest')
      BY <2>9, <2>t DEF ConfigReadLatest, BaseCall, Call
    <3> QED
      BY <1>u, <2>9, <2>f, <2>g, <3>1 DEF ConfigReadLatest, Steps
  <2>10. CASE ConfigPut(h)
    <3>1. UNCHANGED record /\ call[h].pc = "config_put"
      BY <2>10 DEF ConfigPut
    <3>2. CASE Finish(h) /\ UNCHANGED rows
      BY <1>u, <2>f, <3>1, <3>2
    <3>3. CASE /\ rows' = WithRevision(1, call[h].seenRecord.spec)
               /\ Goto(h, "config_mark")
      <4>1. call[h].seenRecord.spec = record.spec
        BY <2>t, <3>1 DEF BaseCall
      <4> DEFINE n == 1
                 q == record.spec
      <4>2. n \in Nat \ {0} /\ q \in Policies /\ rows' = WithRevision(n, q)
        BY <1>t, <3>3, <4>1
      <4> HIDE DEF n, q
      <4>3. Versions' = Versions \cup {n} /\ rows'[n].policy = q
        <5>1. /\ DOMAIN WithRevision(n, q) = Versions \cup {n}
              /\ WithRevision(n, q)[n] = [policy |-> q, status |-> "pending"]
          BY <1>t, <4>2, WithRevisionType
        <5> QED
          BY <4>2, <5>1 DEF Versions
      <4>4. StaticFieldsUnchanged(record.spec, rows'[n].policy)
        BY <4>3 DEF StaticFieldsUnchanged, q
      <4>5. BaseCall([call[h] EXCEPT !.pc = "config_mark"], record.spec, Latest')
        BY <2>t DEF BaseCall, Call
      <4> QED
        BY <2>g, <3>1, <3>3, <4>3, <4>4, <4>5 DEF Steps
    <3> QED
      BY <2>10, <3>2, <3>3 DEF ConfigPut
  <2>11. CASE SupersedeOlder(h) \/ ReportSupersede(h)
    <3>1. call[h].seenVersion \in Nat /\ call[h].seenVersion + 1 \in Nat
      BY <2>t DEF Call
    <3>2. Versions' = Versions
      BY <1>t, <2>11, <3>1, WithSupersededType DEF SupersedeOlder, ReportSupersede, Versions
    <3>3. BaseCall([call[h] EXCEPT !.pc = "report_read"], record.spec, Latest')
      BY <2>t DEF BaseCall, Call
    <3> QED
      BY <2>11, <2>f, <2>g, <3>2, <3>3 DEF SupersedeOlder, ReportSupersede, Steps
  <2>12. CASE ConfigMarkLoaded(h) \/ ReceiveReport(h)
    <3>1. PICK v \in Versions, st \in Status : rows' = WithStatus(v, st)
      BY <1>t, <2>12 DEF ConfigMarkLoaded, ReceiveReport, Inv, BackfillKnown, Status
    <3>2. Versions' = Versions
      BY <1>t, <3>1, WithStatusType DEF Versions
    <3>3. CASE ConfigMarkLoaded(h)
      BY <2>f, <3>2, <3>3 DEF ConfigMarkLoaded
    <3>4. CASE ReceiveReport(h)
      <4>1. PICK w \in Versions :
               \/ UNCHANGED call
               \/ call' = [call EXCEPT ![h] = [Idle EXCEPT !.pc = "report_supersede",
                                                   !.op = "report", !.seenVersion = w]]
        BY <3>4 DEF ReceiveReport
      <4> DEFINE c == [Idle EXCEPT !.pc = "report_supersede", !.op = "report", !.seenVersion = w]
      <4>2. c.pc = "report_supersede"
        BY DEF Idle
      <4> HIDE DEF c
      <4>3. BaseCall(c, record.spec, Latest')
        BY <4>2 DEF BaseCall
      <4> QED
        BY <3>2, <3>4, <4>1, <4>3, BaseStep DEF ReceiveReport, c
    <3> QED
      BY <2>12, <3>3, <3>4
  <2>13. CASE ReportRead(h)
    <3> DEFINE c == [call[h] EXCEPT !.pc = "report_put", !.seenRecord = record]
    <3>1. c.pc = "report_put" /\ c.seenRecord = record
      BY <2>t DEF Call
    <3>2. call' = [call EXCEPT ![h] = c] /\ UNCHANGED <<rows, record>>
      BY <1>t, <2>13 DEF ReportRead
    <3> HIDE DEF c
    <3>3. BaseCall(c, record.spec, Latest')
      BY <3>1 DEF BaseCall
    <3> QED
      BY <1>u, <3>2, <3>3, BaseStep
  <2>14. CASE ReportPut(h)
    <3>1. record'.spec = record.spec
      BY <2>t, <2>14 DEF ReportPut, Call, Record, BaseCall
    <3> QED
      BY <1>u, <2>14, <2>f, <3>1 DEF ReportPut
  <2> QED
    BY <1>2, <2>1, <2>2, <2>3, <2>4, <2>5, <2>6, <2>7, <2>8, <2>9, <2>10, <2>11, <2>12,
       <2>13, <2>14 DEF Handle, Abandon
<1> QED
  BY <1>1, <1>2 DEF Next, vars, ToggleGlobalPolicy

\* A revision that is pending after a status update was pending before.
LEMMA NoNewPending ==
    ASSUME TypeOK, NEW n \in Nat, NEW w \in Versions, NEW st \in {"loaded", "failed"},
           NEW v \in Versions
    PROVE  /\ WithSuperseded(n)[v].status = "pending" => rows[v].status = "pending" /\ v >= n
           /\ WithStatus(w, st)[v].status = "pending" => rows[v].status = "pending"
<1>1. rows[v] \in Row /\ v \in Nat
  BY DEF TypeOK, Row, Versions
<1>2. WithSuperseded(n)[v] = IF v < n /\ rows[v].status \in {"pending", "loaded"}
                             THEN [rows[v] EXCEPT !.status = "superseded"] ELSE rows[v]
  BY DEF WithSuperseded
<1>3. WithStatus(w, st)[v] = IF v = w THEN [rows[v] EXCEPT !.status = st] ELSE rows[v]
  BY DEF WithStatus, Versions
<1> QED
  BY <1>1, <1>2, <1>3 DEF Row

\* Every step keeps that only the newest revision is pending, or one that a
\* handler is about to supersede.
LEMMA PendingNext == ~Faults /\ Inv /\ PendingIsNewest /\ [Next]_vars => PendingIsNewest'
<1> SUFFICES ASSUME ~Faults, Inv, PendingIsNewest, [Next]_vars,
                    NEW v \in Versions', rows'[v].status = "pending"
             PROVE  \/ v = Latest'
                    \/ \E h \in Handlers : call'[h].pc = "supersede" /\ v <= call'[h].seenVersion
  BY DEF PendingIsNewest
<1> DEFINE Kept(h) == call'[h].pc = "supersede" /\ v <= call'[h].seenVersion
           Held(h) == call[h].pc = "supersede" /\ v <= call[h].seenVersion
<1>t. /\ TypeOK /\ call \in [Handlers -> Call] /\ Latest \in Nat /\ Versions = 1..Latest
      /\ Latest' \in Nat /\ Versions' = 1..Latest'
  BY InvNext DEF Inv, TypeOK, NoGaps, SeenIsPast
<1>o. ASSUME v \in Versions, rows[v].status = "pending"
      PROVE  v = Latest \/ \E k \in Handlers : Held(k)
  BY <1>o DEF PendingIsNewest
<1>s. ASSUME v \in Versions, rows[v].status = "pending", Latest' = Latest, NEW h \in Handlers,
             NEW c, call' = [call EXCEPT ![h] = c], ~Held(h)
      PROVE  v = Latest' \/ \E k \in Handlers : Kept(k)
  <2>1. \A k \in Handlers : Held(k) => Kept(k)
    BY <1>s, <1>t
  <2> HIDE DEF Kept, Held
  <2> QED
    BY <1>s, <1>o, <2>1
<1>u. ASSUME UNCHANGED rows PROVE v \in Versions /\ rows[v].status = "pending" /\ Latest' = Latest
  BY <1>u DEF Versions, Latest
<1>1. CASE UNCHANGED <<rows, call>>
  BY <1>1, <1>o, <1>u
<1>2. ASSUME NEW h \in Handlers, Handle(h) PROVE v = Latest' \/ \E k \in Handlers : Kept(k)
  <2>t. call[h] \in Call
    BY <1>t
  <2>1. CASE UNCHANGED rows /\ call[h].pc # "supersede"
    <3>1. UNCHANGED call \/ \E c : call' = [call EXCEPT ![h] = c]
      <4>1. ASSUME NEW step, Goto(h, step) PROVE \E c : call' = [call EXCEPT ![h] = c]
        BY <4>1 DEF Goto
      <4>2. ASSUME Finish(h) PROVE \E c : call' = [call EXCEPT ![h] = c]
        BY <4>2 DEF Finish
      <4>3. ASSUME ReadLatest(h) \/ PutRevision(h) \/ ReportRead(h)
            PROVE  \E c : call' = [call EXCEPT ![h] = c]
        BY <4>1, <4>2, <4>3 DEF ReadLatest, PutRevision, ReportRead
      <4>4. ASSUME ReceiveUpdate(h) \/ ReceiveDecision(h) \/ ReceiveUndo(h) \/ ReceiveConfig(h)
            PROVE  \E c : call' = [call EXCEPT ![h] = c]
        BY <4>4 DEF ReceiveUpdate, ReceiveDecision, ReceiveUndo, ReceiveConfig, Receive
      <4>5. ASSUME ReceiveReport(h) PROVE UNCHANGED call \/ \E c : call' = [call EXCEPT ![h] = c]
        BY <4>5 DEF ReceiveReport
      <4> QED
        BY <1>2, <2>1, <4>1, <4>2, <4>3, <4>4, <4>5
        DEF Handle, CheckGlobal, ValidateUpdate, SupersedeOlder, ConfigReadLatest, ConfigPut,
            ConfigMarkLoaded, ReportSupersede, ReportPut, Abandon
    <3> QED
      BY <1>1, <1>s, <1>u, <2>1, <3>1
  <2>2. CASE PutRevision(h) /\ ~UNCHANGED rows
    <3> DEFINE w == call[h].seenVersion + 1
    <3>1. /\ call[h].pc = "put" /\ w \notin Versions /\ Goto(h, "supersede")
          /\ \E p \in Results(call[h]) : rows' = WithRevision(w, p)
      BY <2>2 DEF PutRevision
    <3>2. call[h].seenVersion \in Nat /\ call[h].seenVersion <= Latest /\ w \in Nat \ {0}
      BY <2>t, <3>1 DEF Call, Inv, SeenIsPast
    <3>3. Versions' = Versions \cup {w}
      <4>1. PICK p \in Results(call[h]) : rows' = WithRevision(w, p)
        BY <3>1
      <4>2. p \in Policies
        BY <3>1, ResultType
      <4>3. DOMAIN WithRevision(w, p) = Versions \cup {w}
        BY <1>t, <3>2, <4>2, WithRevisionType
      <4> QED
        BY <4>1, <4>3 DEF Versions
    <3>4. w = Latest + 1 /\ Latest' = w
      BY <1>t, <3>1, <3>2, <3>3
    <3>5. call'[h].pc = "supersede" /\ call'[h].seenVersion = call[h].seenVersion
      BY <1>t, <2>t, <3>1 DEF Goto, Call
    <3>6. v = w \/ v <= call[h].seenVersion
      BY <1>t, <3>2, <3>3, <3>4
    <3> QED
      BY <3>4, <3>5, <3>6
  <2>3. CASE ConfigPut(h) /\ ~UNCHANGED rows
    <3>1. /\ call[h].pc = "config_put" /\ 1 \notin Versions
          /\ rows' = WithRevision(1, call[h].seenRecord.spec)
      BY <2>3 DEF ConfigPut
    <3>2. Versions' = Versions \cup {1}
      BY <3>1 DEF WithRevision, Versions
    <3> QED
      BY <1>t, <3>1, <3>2
  <2>4. CASE SupersedeOlder(h)
    <3> DEFINE n == call[h].seenVersion + 1
    <3>1. n \in Nat /\ rows' = WithSuperseded(n) /\ Finish(h) /\ n = call[h].seenVersion + 1
          /\ call[h].seenVersion \in Nat
      BY <2>t, <2>4 DEF SupersedeOlder, Call
    <3>2. Versions' = Versions
      BY <3>1 DEF WithSuperseded, Versions
    <3> HIDE DEF n
    <3>3. rows[v].status = "pending" /\ v >= n
      BY <1>t, <3>1, <3>2, NoNewPending
    <3>4. ~Held(h) /\ Latest' = Latest
      BY <1>t, <3>1, <3>2, <3>3 DEF Latest
    <3> QED
      BY <1>s, <3>1, <3>2, <3>3, <3>4 DEF Finish
  <2>5. CASE ReportSupersede(h)
    <3>1. call[h].seenVersion \in Nat /\ rows' = WithSuperseded(call[h].seenVersion)
          /\ Goto(h, "report_read") /\ call[h].pc = "report_supersede"
      BY <2>t, <2>5 DEF ReportSupersede, Call
    <3>2. Versions' = Versions /\ Latest' = Latest
      BY <3>1 DEF WithSuperseded, Versions, Latest
    <3>3. rows[v].status = "pending"
      BY <1>t, <3>1, <3>2, NoNewPending
    <3> QED
      BY <1>s, <3>1, <3>2, <3>3 DEF Goto
  <2>6. CASE ConfigMarkLoaded(h) \/ ReceiveReport(h)
    <3>1. PICK w \in Versions, st \in {"loaded", "failed"} : rows' = WithStatus(w, st)
      BY <2>6 DEF ConfigMarkLoaded, ReceiveReport, Inv, BackfillKnown
    <3>2. Versions' = Versions /\ Latest' = Latest
      BY <1>t, <3>1 DEF WithStatus, Versions, Latest
    <3>3. rows[v].status = "pending"
      BY <1>t, <3>1, <3>2, NoNewPending
    <3>4. call[h].pc # "supersede" /\ (UNCHANGED call \/ \E c : call' = [call EXCEPT ![h] = c])
      BY <2>6 DEF ConfigMarkLoaded, ReceiveReport, Finish
    <3> QED
      BY <1>o, <1>s, <3>2, <3>3, <3>4
  <2> QED
    BY <1>2, <2>1, <2>2, <2>3, <2>4, <2>5, <2>6
    DEF Handle, ReceiveUpdate, ReceiveDecision, ReceiveUndo, CheckGlobal, Receive, ValidateUpdate,
        ReadLatest, PutRevision, ReceiveConfig, ConfigReadLatest, ConfigPut, ReportRead, ReportPut,
        Abandon
<1> QED
  BY <1>1, <1>2 DEF Next, vars, ToggleGlobalPolicy

\* When every handler runs to its end, at most the newest revision awaits the
\* supervisor unless its successor's handler has yet to supersede it, and no
\* revision of a sandbox created with a policy leaves the baseline, for any
\* number of handlers, any retry limit and with status reports.
THEOREM Coherent == ASSUME ~Faults PROVE Spec => []HistoryCoherent
<1>1. Spec => []PendingIsNewest
  <2>1. Init => PendingIsNewest
    BY DEF Init, PendingIsNewest, Versions
  <2>2. Inv /\ PendingIsNewest /\ [Next]_vars => PendingIsNewest'
    BY PendingNext
  <2> QED
    BY <2>1, <2>2, InvInit, InvNext, PTL DEF Spec
<1>2. Spec => []BaselineRespected
  <2>1. CASE None \in InitialSpecs
    <3>1. BaselineRespected
      BY <2>1 DEF BaselineRespected
    <3> QED
      BY <3>1, PTL
  <2>2. CASE None \notin InitialSpecs
    <3>1. Init => BaseInv
      BY <2>2, BaseInvInit
    <3>2. BaseInv /\ [Next]_vars => BaseInv'
      BY BaseInvNext
    <3>3. BaseInv => BaselineRespected
      BY DEF BaseInv, BaseKnown, BaselineRespected
    <3> QED
      BY <3>1, <3>2, <3>3, PTL DEF Spec
  <2> QED
    BY <2>1, <2>2
<1>3. PendingIsNewest /\ BaselineRespected => HistoryCoherent
  BY DEF HistoryCoherent
<1> QED
  BY <1>1, <1>2, <1>3, PTL
=============================================================================
