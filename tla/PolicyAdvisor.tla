--------------------------- MODULE PolicyAdvisor ---------------------------
(***************************************************************************)
(* The policy advisor: denials counted by the supervisor's aggregator      *)
(* (denial_aggregator.rs), turned into proposals (mechanistic_mapper.rs)   *)
(* and submitted; the gateway's draft chunks (sqlite.rs) and the handlers  *)
(* that decide on them (grpc/policy.rs).  A destination stands for host    *)
(* and port.  A merge or a removal, with its version-conflict retries, is  *)
(* one step here: PolicyHistory shows that it acts on the latest revision. *)
(***************************************************************************)
EXTENDS Naturals, Sequences, FiniteSets

CONSTANTS
    AdvSandboxes,  \* sandboxes, by name
    Dests,         \* denied destinations
    FlaggedDests,  \* the ones generate_security_notes has a note for
    AdvBinaries,   \* binaries that are denied
    OwnBinary,     \* a binary of the policies that users write
    Deciders,      \* concurrent calls of the decision handlers
    MaxDenials,    \* bound on the denials observed of one key
    MaxChunkId     \* bound on the chunk ids given out

\* Batches and lists of chunks can be counted, and the bounds are numbers.
ASSUME AdvAssumption ==
    /\ IsFiniteSet(AdvSandboxes) /\ IsFiniteSet(Dests) /\ IsFiniteSet(AdvBinaries)
    /\ MaxDenials \in Nat /\ MaxChunkId \in Nat

VARIABLES
    denied,     \* sandbox -> key -> number of denials its proxy has reported
    agg,        \* sandbox -> the aggregator's summaries: key -> [count, stage, l7]
    flush,      \* sandbox -> proposals of the batch being submitted
    chunkRows,  \* draft_policy_chunks: [sandbox, dest, binary] -> row
    lastChunk,  \* the last chunk id given out
    active,     \* sandbox -> latest policy: rule name -> [bins, dests]
    globalOn,   \* a global policy is set
    decide      \* call -> [pc, op, sandbox, key, row, rest]

advVars == <<denied, agg, flush, chunkRows, lastChunk, active, globalOn, decide>>

DenialKeys == [dest : Dests, bin : AdvBinaries]
ChunkKeys == [sandbox : AdvSandboxes, dest : Dests, bin : AdvBinaries]
ChunkOf(s, k) == [sandbox |-> s, dest |-> k.dest, bin |-> k.bin]
NoRule == [bins |-> {}, dests |-> {}]
NoChunk == [id |-> 0, st |-> "none", hits |-> 0, rule |-> NoRule]
NoSummary == [count |-> 0, stage |-> "none", l7 |-> FALSE]
NoDecision == [pc |-> "idle", op |-> "none", sandbox |-> "none", key |-> <<>>, row |-> NoChunk, rest |-> <<>>]
NoPolicy == [r \in {} |-> NoRule]

AdvInit ==
    /\ denied = [s \in AdvSandboxes |-> [k \in DenialKeys |-> 0]]
    /\ agg = [s \in AdvSandboxes |-> [k \in DenialKeys |-> NoSummary]]
    /\ flush = [s \in AdvSandboxes |-> <<>>]
    /\ chunkRows = [k \in ChunkKeys |-> NoChunk] /\ lastChunk = 0
    /\ active = [s \in AdvSandboxes |-> NoPolicy] /\ globalOn = FALSE
    /\ decide = [h \in Deciders |-> NoDecision]

-----------------------------------------------------------------------------
(* The supervisor: DenialAggregator, generate_proposals, flush_proposals_to_gateway *)

\* The first event of a key fixes its stage; samples of L7 requests are added as they come.
Ingest(s) ==
    /\ \E k \in DenialKeys, stage \in {"connect", "ssrf"}, l7 \in BOOLEAN :
          LET e == agg[s][k]
          IN  /\ denied[s][k] < MaxDenials
              /\ agg' = [agg EXCEPT ![s][k] = [count |-> e.count + 1, stage |-> IF e.count = 0 THEN stage ELSE e.stage,
                                               l7 |-> e.l7 \/ l7]]
              /\ denied' = [denied EXCEPT ![s][k] = @ + 1]
    /\ UNCHANGED <<flush, chunkRows, lastChunk, active, globalOn, decide>>

\* compute_confidence in percent, between 10 and 95.
ComputeConfidence(count, wellKnown, ssrf) ==
    LET raw == 50 + (IF count >= 10 THEN 20 ELSE IF count >= 3 THEN 10 ELSE 0) + (IF wellKnown THEN 15 ELSE 0)
        score == IF ssrf THEN raw - 20 ELSE raw
    IN  IF score < 10 THEN 10 ELSE IF score > 95 THEN 95 ELSE score

\* generate_rule_name: the same name for every binary of a destination.
GenerateRuleName(d) == <<"allow", d>>

\* The orders of a finite set.
Listings(S) == {q \in [1..Cardinality(S) -> S] : \A i, j \in DOMAIN q : q[i] = q[j] => i = j}

\* One proposal per key, its rule naming the destination and the binary; best confidence first,
\* and in the order of a hash map where it is the same.
GenerateProposals(summaries) ==
    LET keys == {k \in DenialKeys : summaries[k].count > 0}
        conf(k) == ComputeConfidence(summaries[k].count, TRUE, summaries[k].stage = "ssrf")
        sorted == {q \in Listings(keys) : \A i, j \in DOMAIN q : i < j => conf(q[i]) >= conf(q[j])}
    IN  {[i \in DOMAIN q |-> [key |-> q[i], hits |-> summaries[q[i]].count]] : q \in sorted}

MUT_Drain(summaries) == summaries
\* drain: the summaries leave the aggregator whatever becomes of the batch.
Drain(summaries) == [k \in DenialKeys |-> NoSummary]

\* The flush timer, or the channel's end; the loop waits for one batch before the next.
FlushProposals(s) ==
    /\ flush[s] = <<>> /\ \E k \in DenialKeys : agg[s][k].count > 0
    /\ \E batch \in GenerateProposals(agg[s]) : flush' = [flush EXCEPT ![s] = batch]
    /\ agg' = [agg EXCEPT ![s] = Drain(agg[s])]
    /\ UNCHANGED <<denied, chunkRows, lastChunk, active, globalOn, decide>>

\* The call fails on its way, or a store call of it fails: the rest of the batch is lost.
FlushFails(s) ==
    /\ flush[s] # <<>>
    /\ flush' = [flush EXCEPT ![s] = <<>>]
    /\ UNCHANGED <<denied, agg, chunkRows, lastChunk, active, globalOn, decide>>

-----------------------------------------------------------------------------
(* The gateway: SubmitPolicyAnalysis and the chunk table *)

ClampHits(n) == IF n < 1 THEN 1 ELSE IF n > 100 THEN 100 ELSE n
\* The gateway writes its own notes; what the supervisor noted (SSRF) is not kept.
GenerateSecurityNotes(d) == d \in FlaggedDests

\* put_draft_chunk: one row per sandbox, destination and binary; a second one only adds its hits.
PutDraftChunk(k, hits) ==
    LET row == chunkRows[k]
        new == [id |-> lastChunk + 1, st |-> "pending", hits |-> hits, rule |-> [bins |-> {k.bin}, dests |-> {k.dest}]]
    IN  chunkRows' = [chunkRows EXCEPT ![k] = IF row.st = "none" THEN new ELSE [row EXCEPT !.hits = row.hits + hits]]

SubmitPolicyAnalysis(s) ==
    /\ flush[s] # <<>> /\ lastChunk < MaxChunkId
    /\ LET p == Head(flush[s])
           k == ChunkOf(s, p.key)
       IN  /\ PutDraftChunk(k, ClampHits(p.hits))
           /\ lastChunk' = IF chunkRows[k].st = "none" THEN lastChunk + 1 ELSE lastChunk
    /\ flush' = [flush EXCEPT ![s] = Tail(@)]
    /\ UNCHANGED <<denied, agg, active, globalOn, decide>>

GetDraftChunk(k) == chunkRows[k]
UpdateDraftChunkStatus(k, id, st) ==
    chunkRows' = IF chunkRows[k].id = id /\ id # 0 THEN [chunkRows EXCEPT ![k].st = st] ELSE chunkRows
UpdateDraftChunkRule(k, id, rule) ==
    chunkRows' = IF chunkRows[k].id = id /\ chunkRows[k].st = "pending" THEN [chunkRows EXCEPT ![k].rule = rule]
                 ELSE chunkRows
DeleteDraftChunks(s, st) ==
    chunkRows' = [k \in ChunkKeys |-> IF k.sandbox = s /\ chunkRows[k].st = st THEN NoChunk ELSE chunkRows[k]]
ListDraftChunks(s, st) == {k \in ChunkKeys : k.sandbox = s /\ chunkRows[k].st = st}

-----------------------------------------------------------------------------
(* The policy: merge_chunk_into_policy, remove_chunk_from_policy *)

\* The rule of the chunk's name, else any rule that serves its destination, else a new one.
MergeTargets(pol, d) ==
    LET named == {r \in DOMAIN pol : r = GenerateRuleName(d)}
        serving == {r \in DOMAIN pol : d \in pol[r].dests}
    IN  IF named # {} THEN named ELSE IF serving # {} THEN serving ELSE {GenerateRuleName(d)}

MergeChunk(pol, r, rule) ==
    LET old == IF r \in DOMAIN pol THEN pol[r] ELSE NoRule
    IN  [x \in DOMAIN pol \cup {r} |->
            IF x = r THEN [bins |-> old.bins \cup rule.bins, dests |-> old.dests \cup rule.dests] ELSE pol[x]]

\* The chunk's binary leaves the rule of the chunk's name; a rule without binaries is dropped.
RemoveChunk(pol, k) ==
    LET r == GenerateRuleName(k.dest)
    IN  IF r \notin DOMAIN pol THEN pol
        ELSE LET bins == pol[r].bins \ {k.bin}
             IN  [x \in {y \in DOMAIN pol : y # r \/ bins # {}} |-> IF x = r THEN [pol[r] EXCEPT !.bins = bins] ELSE pol[x]]

-----------------------------------------------------------------------------
(* The decision handlers *)

RequireNoGlobalPolicy == ~globalOn
DStep(h, d) == decide' = [decide EXCEPT ![h] = d]

\* approve checks the global policy before anything is read.
Begin(h, s) ==
    /\ decide[h].pc = "idle"
    /\ \E op \in {"approve", "reject", "undo", "edit"} :
          /\ op = "approve" => RequireNoGlobalPolicy
          /\ DStep(h, [NoDecision EXCEPT !.pc = "fetch", !.op = op, !.sandbox = s])
    /\ UNCHANGED <<denied, agg, flush, chunkRows, lastChunk, active, globalOn>>

\* The chunk is read by its id alone; the sandbox named in the request may be another one.
Fetch(h, k) ==
    LET row == GetDraftChunk(k)
        allowed == CASE decide[h].op = "approve" -> {"pending", "rejected"} [] decide[h].op = "reject" -> {"pending", "approved"}
                     [] decide[h].op = "undo" -> {"approved"} [] decide[h].op = "edit" -> {"pending"}
        next == CASE decide[h].op = "approve" -> "merge" [] decide[h].op = "undo" -> "remove" [] decide[h].op = "edit" -> "write"
                  [] decide[h].op = "reject" -> IF row.st = "approved" THEN "global" ELSE "mark"
    IN  /\ decide[h].pc = "fetch" /\ row.st # "none"
        /\ DStep(h, IF row.st \in allowed THEN [decide[h] EXCEPT !.pc = next, !.key = k, !.row = row] ELSE NoDecision)
        /\ UNCHANGED <<denied, agg, flush, chunkRows, lastChunk, active, globalOn>>

ApproveMerge(h) ==
    LET d == decide[h] IN
    /\ d.pc = "merge"
    /\ \/ /\ \E r \in MergeTargets(active[d.sandbox], d.key.dest) :
                active' = [active EXCEPT ![d.sandbox] = MergeChunk(@, r, d.row.rule)]
          /\ DStep(h, [d EXCEPT !.pc = "mark"])
       \/ DStep(h, NoDecision) /\ UNCHANGED active      \* retries used up, or the store failed
    /\ UNCHANGED <<denied, agg, flush, chunkRows, lastChunk, globalOn>>

RejectCheck(h) ==
    /\ decide[h].pc = "global"
    /\ DStep(h, IF RequireNoGlobalPolicy THEN [decide[h] EXCEPT !.pc = "remove"] ELSE NoDecision)
    /\ UNCHANGED <<denied, agg, flush, chunkRows, lastChunk, active, globalOn>>

RevokeRemove(h) ==
    LET d == decide[h] IN
    /\ d.pc = "remove"
    /\ \/ /\ active[d.sandbox] # NoPolicy
          /\ active' = [active EXCEPT ![d.sandbox] = RemoveChunk(@, d.key)]
          /\ DStep(h, [d EXCEPT !.pc = "mark"])
       \/ DStep(h, NoDecision) /\ UNCHANGED active
    /\ UNCHANGED <<denied, agg, flush, chunkRows, lastChunk, globalOn>>

\* The status is written by id, whatever it has become meanwhile.
Mark(h) ==
    LET d == decide[h]
        st == CASE d.op \in {"approve", "all"} -> "approved" [] d.op = "reject" -> "rejected" [] d.op = "undo" -> "pending"
    IN  /\ d.pc = "mark"
        /\ UpdateDraftChunkStatus(d.key, d.row.id, st)
        /\ DStep(h, IF d.rest = <<>> THEN NoDecision ELSE [d EXCEPT !.pc = "next"])
        /\ UNCHANGED <<denied, agg, flush, lastChunk, active, globalOn>>

EditWrite(h) ==
    /\ decide[h].pc = "write"
    /\ \E b \in AdvBinaries : UpdateDraftChunkRule(decide[h].key, decide[h].row.id, [bins |-> {b}, dests |-> {decide[h].key.dest}])
    /\ DStep(h, NoDecision)
    /\ UNCHANGED <<denied, agg, flush, lastChunk, active, globalOn>>

\* ApproveAll: the pending chunks are listed once, in an order of their times that chunks of one
\* batch may share, then merged and marked one after the other; a
\* flagged chunk is skipped unless asked for, and an error leaves the later ones alone.
ApproveAll(h, s) ==
    /\ decide[h].pc = "idle" /\ RequireNoGlobalPolicy /\ ListDraftChunks(s, "pending") # {}
    /\ \E flagged \in BOOLEAN :
          LET todo == {k \in ListDraftChunks(s, "pending") : flagged \/ ~GenerateSecurityNotes(k.dest)}
          IN  /\ todo # {}
              /\ \E q \in Listings(todo) :
                    DStep(h, [NoDecision EXCEPT !.pc = "next", !.op = "all", !.sandbox = s,
                                                !.rest = [i \in DOMAIN q |-> [key |-> q[i], row |-> chunkRows[q[i]]]]])
    /\ UNCHANGED <<denied, agg, flush, chunkRows, lastChunk, active, globalOn>>

ApproveNext(h) ==
    LET d == decide[h] IN
    /\ d.pc = "next"
    /\ DStep(h, [d EXCEPT !.pc = "merge", !.key = Head(d.rest).key, !.row = Head(d.rest).row, !.rest = Tail(d.rest)])
    /\ UNCHANGED <<denied, agg, flush, chunkRows, lastChunk, active, globalOn>>

ClearDraftChunks(s) ==
    /\ ListDraftChunks(s, "pending") # {}
    /\ DeleteDraftChunks(s, "pending")
    /\ UNCHANGED <<denied, agg, flush, lastChunk, active, globalOn, decide>>

\* UpdateConfig from elsewhere: a user's policy replaces the latest, or the global one changes.
UserPolicy(s) ==
    /\ active[s] = NoPolicy
    /\ \E d \in Dests : active' = [active EXCEPT ![s] = [r \in {<<"own", d>>} |-> [bins |-> {OwnBinary}, dests |-> {d}]]]
    /\ UNCHANGED <<denied, agg, flush, chunkRows, lastChunk, globalOn, decide>>

ToggleGlobal ==
    /\ globalOn' = ~globalOn
    /\ UNCHANGED <<denied, agg, flush, chunkRows, lastChunk, active, decide>>

AdvNext ==
    \/ \E s \in AdvSandboxes : \/ Ingest(s) \/ FlushProposals(s) \/ FlushFails(s) \/ SubmitPolicyAnalysis(s)
                               \/ ClearDraftChunks(s) \/ UserPolicy(s)
    \/ \E h \in Deciders : \/ ApproveMerge(h) \/ RejectCheck(h) \/ RevokeRemove(h) \/ Mark(h) \/ EditWrite(h) \/ ApproveNext(h)
                           \/ \E s \in AdvSandboxes : Begin(h, s) \/ ApproveAll(h, s)
                           \/ \E k \in ChunkKeys : Fetch(h, k)
    \/ ToggleGlobal

AdvSpec == AdvInit /\ [][AdvNext]_advVars

-----------------------------------------------------------------------------
(* Properties *)

AdvTypeOK ==
    /\ \A s \in AdvSandboxes : /\ \A k \in DenialKeys : denied[s][k] \in 0..MaxDenials
                               /\ flush[s] \in Seq([key : DenialKeys, hits : Nat])
    /\ \A k \in ChunkKeys : chunkRows[k].st \in {"none", "pending", "approved", "rejected"}
    /\ lastChunk \in 0..MaxChunkId
    /\ \A h \in Deciders : decide[h].pc \in {"idle", "fetch", "merge", "global", "remove", "mark", "write", "next"}

\* Of the d denials of key k, c wait in the aggregator, n are stored, and batch has one proposal
\* of k at most.
Within(c, n, batch, k, d) ==
    LET batched == {i \in DOMAIN batch : batch[i].key = k}
    IN  /\ c + n <= d
        /\ \A i \in batched : c + n + batch[i].hits <= d
        /\ \A i, j \in batched : i = j

\* No denial is counted twice, or for another destination or binary, on its way from the proxy to
\* the chunk it is reported in: through aggregation, batches, flushes that fail, merging into an
\* existing row and clearing.
CountedOnce ==
    \A s \in AdvSandboxes, k \in DenialKeys :
        Within(agg[s][k].count, chunkRows[ChunkOf(s, k)].hits, flush[s], k, denied[s][k])

\* A rejected chunk's binary is in no rule that serves its destination.  policy-advisor.md says of
\* approved chunks: "Revoking one removes only that binary from the rule".
RevokedIsRemoved ==
    (\A h \in Deciders : decide[h].pc = "idle")
        => \A k \in ChunkKeys : chunkRows[k].st = "rejected" =>
              \A r \in DOMAIN active[k.sandbox] :
                 ~(k.dest \in active[k.sandbox][r].dests /\ k.bin \in active[k.sandbox][r].bins)

\* However denials, flushes and decisions interleave, the drafts are well
\* formed and no denial is counted twice.
AdvisorSound == AdvTypeOK /\ CountedOnce
=============================================================================
