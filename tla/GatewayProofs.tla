---------------------------- MODULE GatewayProofs ----------------------------
(***************************************************************************)
(* What components of the gateway and of its clients promise, for any      *)
(* number of callers, commands, sandboxes, keys and policies: `policy set` *)
(* tells the truth about its revision, a sandbox is given no setting that  *)
(* was never in force, a command run with ExecSandbox starts once and ends *)
(* after its output, a name is one provider of one type, a client that     *)
(* pages through a table misses no row that was there when it began, and   *)
(* no denial is counted twice on its way to a draft chunk.                 *)
(***************************************************************************)
EXTENDS PolicyWait, GatewaySettings, ExecSession, Providers, ObjectStore, PolicyAdvisor,
        FiniteSetTheorems, SequenceTheorems, WellFoundedInduction, TLAPS

-----------------------------------------------------------------------------
(* PolicyWait: revisions, the sandbox that reports on them, the commands   *)
(* that wait for its reports.                                              *)

WaitRows == [policy : SetPolicies, status : {"pending", "loaded", "failed", "superseded"}]

\* A status says what has happened: the sandbox has enforced a loaded revision,
\* cannot load a failed one, and a superseded one is not the latest.
RowsTrue(rs, lo) ==
    /\ rs \in Seq(WaitRows) /\ Len(rs) \in 1..MaxRevisions /\ lo \subseteq 1..Len(rs)
    /\ \A i \in 1..Len(rs) :
          /\ rs[i].status = "loaded" => i \in lo
          /\ rs[i].status = "failed" => rs[i].policy \in BadPolicies
          /\ rs[i].status = "superseded" => i < Len(rs)

\* A report that is under way is true of the revision it names.
ReportTrue(r, rs, lo) ==
    \/ r = NoReport
    \/ /\ r \in [version : 1..Len(rs), ok : BOOLEAN]
       /\ r.ok => r.version \in lo
       /\ ~r.ok => rs[r.version].policy \in BadPolicies

SetterRecs ==
    [at : {"idle", "update", "poll", "ended"}, policy : SetPolicies \cup {"none"},
     wait : BOOLEAN, current : Nat, version : Nat,
     said : {"nothing", "unchanged", "submitted", "error", "timeout", "loaded", "failed",
             "superseded"}]

\* A command that polls has a revision with its policy; what it says is so.
SetterTrue(c, rs, lo) ==
    /\ c \in SetterRecs
    /\ c.at = "update" => c.policy \in SetPolicies
    /\ c.at \in {"idle", "update", "poll"} => c.said = "nothing"
    /\ c.at = "poll" => c.version \in 1..Len(rs) /\ rs[c.version].policy = c.policy
    /\ c.said = "loaded" => c.version \in lo /\ rs[c.version].policy = c.policy
    /\ c.said = "failed" => c.policy \in BadPolicies
    /\ c.said = "superseded" => c.version < Len(rs)

WaitInv ==
    /\ RowsTrue(revisions, loadedOnce)
    /\ applied \in 1..Len(revisions)
    /\ ReportTrue(report, revisions, loadedOnce)
    /\ setters \in [Setters -> SetterRecs]
    /\ \A s \in Setters : SetterTrue(setters[s], revisions, loadedOnce)

\* Revisions are only added, and keep their policies.
RowsGrow(rs, rt) ==
    /\ rs \in Seq(WaitRows) /\ rt \in Seq(WaitRows) /\ Len(rs) <= Len(rt)
    /\ \A i \in 1..Len(rs) : rt[i].policy = rs[i].policy

LEMMA SetterKept ==
    ASSUME NEW c, NEW rs, NEW rt, NEW lo, NEW lt, lo \subseteq 1..Len(rs), lo \subseteq lt,
           RowsGrow(rs, rt), SetterTrue(c, rs, lo)
    PROVE  SetterTrue(c, rt, lt)
  <1>1. Len(rs) \in Nat /\ Len(rt) \in Nat /\ Len(rs) <= Len(rt)
    BY DEF RowsGrow
  <1>2. \A i \in 1..Len(rs) : i \in 1..Len(rt) /\ rt[i].policy = rs[i].policy
    BY <1>1 DEF RowsGrow
  <1>3. c \in SetterRecs /\ c.version \in Nat
    BY DEF SetterTrue, SetterRecs
  <1> QED BY <1>1, <1>2, <1>3 DEF SetterTrue

LEMMA ReportKept ==
    ASSUME NEW r, NEW rs, NEW rt, NEW lo, RowsGrow(rs, rt), ReportTrue(r, rs, lo)
    PROVE  ReportTrue(r, rt, lo)
  <1>1. Len(rs) \in Nat /\ Len(rt) \in Nat /\ Len(rs) <= Len(rt)
    BY DEF RowsGrow
  <1>2. \A i \in 1..Len(rs) : i \in 1..Len(rt) /\ rt[i].policy = rs[i].policy
    BY <1>1 DEF RowsGrow
  <1> QED BY <1>2 DEF ReportTrue

\* Superseding keeps every policy and changes older revisions only.
LEMMA SupersedeKeeps ==
    ASSUME NEW rs \in Seq(WaitRows), NEW v \in Nat
    PROVE  LET rt == SupersedeBefore(rs, v)
           IN  /\ rt \in Seq(WaitRows) /\ Len(rt) = Len(rs)
               /\ \A i \in 1..Len(rs) :
                    /\ rt[i].policy = rs[i].policy
                    /\ rt[i].status = rs[i].status \/ (i < v /\ rt[i].status = "superseded")
  <1> DEFINE F(i) == IF i < v /\ rs[i].status \in {"pending", "loaded"}
                     THEN [rs[i] EXCEPT !.status = "superseded"] ELSE rs[i]
             rt == [i \in 1..Len(rs) |-> F(i)]
  <1>1. SupersedeBefore(rs, v) = rt
    BY DEF SupersedeBefore
  <1>2. ASSUME NEW i \in 1..Len(rs)
        PROVE  /\ F(i) \in WaitRows /\ F(i).policy = rs[i].policy
               /\ F(i).status = rs[i].status \/ (i < v /\ F(i).status = "superseded")
    <2>1. rs[i] \in WaitRows
      OBVIOUS
    <2> QED BY <2>1 DEF WaitRows
  <1>3. \A i \in 1..Len(rs) : rt[i] = F(i)
    OBVIOUS
  <1>4. \A i \in 1..Len(rs) : F(i) \in WaitRows
    BY <1>2
  <1> HIDE DEF F
  <1>5. rt \in Seq(WaitRows) /\ Len(rt) = Len(rs)
    BY <1>4
  <1> QED BY <1>1, <1>2, <1>3, <1>5

\* What an update makes of the revisions.
LEMMA UpdateGrows ==
    ASSUME NEW rs, NEW lo, NEW p \in SetPolicies, RowsTrue(rs, lo),
           NEW rt, Len(rt) <= MaxRevisions,
           rt = IF rs[Len(rs)].policy = p THEN rs
                ELSE SupersedeBefore(Append(rs, [policy |-> p, status |-> "pending"]), Len(rs) + 1)
    PROVE  /\ RowsGrow(rs, rt) /\ RowsTrue(rt, lo)
           /\ Len(rt) \in 1..Len(rt) /\ rt[Len(rt)].policy = p
  <1>0. rs \in Seq(WaitRows) /\ Len(rs) \in Nat \ {0} /\ MaxRevisions \in Nat
    BY WaitAssumption DEF RowsTrue
  <1>1. CASE rs[Len(rs)].policy = p
    BY <1>0, <1>1 DEF RowsGrow
  <1>2. CASE rs[Len(rs)].policy # p
    <2> DEFINE row == [policy |-> p, status |-> "pending"]
               ra == Append(rs, row)
    <2>1. row \in WaitRows
      BY DEF WaitRows
    <2>2. /\ ra \in Seq(WaitRows) /\ Len(ra) = Len(rs) + 1 /\ ra[Len(rs) + 1] = row
          /\ \A i \in 1..Len(rs) : ra[i] = rs[i]
      BY <1>0, <2>1
    <2>3. rt = SupersedeBefore(ra, Len(rs) + 1)
      BY <1>2
    <2>4. row.policy = p /\ row.status = "pending"
      OBVIOUS
    <2> HIDE DEF row, ra
    <2>5. /\ rt \in Seq(WaitRows) /\ Len(rt) = Len(rs) + 1
          /\ \A i \in 1..(Len(rs) + 1) :
               /\ rt[i].policy = ra[i].policy
               /\ rt[i].status = ra[i].status \/ (i < Len(rs) + 1 /\ rt[i].status = "superseded")
      BY <1>0, <2>2, <2>3, SupersedeKeeps
    <2>6. RowsGrow(rs, rt)
      BY <1>0, <2>2, <2>5 DEF RowsGrow
    <2>7. rt[Len(rt)].policy = p
      BY <1>0, <2>2, <2>4, <2>5
    <2>8. ASSUME NEW i \in 1..Len(rt)
          PROVE  /\ rt[i].status = "loaded" => i \in lo
                 /\ rt[i].status = "failed" => rt[i].policy \in BadPolicies
                 /\ rt[i].status = "superseded" => i < Len(rt)
      <3>1. i \in 1..(Len(rs) + 1)
        BY <2>5
      <3>2. CASE i = Len(rs) + 1
        BY <1>0, <2>2, <2>4, <2>5, <3>1, <3>2
      <3>3. CASE i \in 1..Len(rs)
        BY <1>0, <2>2, <2>5, <3>3 DEF RowsTrue
      <3> QED BY <1>0, <3>1, <3>2, <3>3
    <2>9. Len(rt) \in 1..MaxRevisions /\ lo \subseteq 1..Len(rt)
      BY <1>0, <2>5 DEF RowsTrue
    <2> QED BY <1>0, <2>5, <2>6, <2>7, <2>8, <2>9 DEF RowsTrue
  <1> QED BY <1>1, <1>2

\* What a report makes of them.
LEMMA ReportMarks ==
    ASSUME NEW rs, NEW lo, NEW r, RowsTrue(rs, lo), ReportTrue(r, rs, lo), r # NoReport
    PROVE  LET marked == [rs EXCEPT ![r.version].status = IF r.ok THEN "loaded" ELSE "failed"]
               rt == IF r.ok THEN SupersedeBefore(marked, r.version) ELSE marked
           IN  RowsGrow(rs, rt) /\ RowsTrue(rt, lo)
  <1>0. rs \in Seq(WaitRows) /\ Len(rs) \in Nat /\ DOMAIN rs = 1..Len(rs)
    BY DEF RowsTrue
  <1>1. r.version \in 1..Len(rs) /\ r.version \in Nat /\ r.ok \in BOOLEAN
    BY <1>0 DEF ReportTrue
  <1>2. rs[r.version] \in WaitRows
    BY <1>0, <1>1
  <1> DEFINE w == IF r.ok THEN "loaded" ELSE "failed"
             row == [rs[r.version] EXCEPT !.status = w]
             ra == [rs EXCEPT ![r.version] = row]
             rt == IF r.ok THEN SupersedeBefore(ra, r.version) ELSE ra
  <1>3. row \in WaitRows /\ row.policy = rs[r.version].policy /\ row.status = w
    BY <1>2 DEF WaitRows
  <1>4. ra = [rs EXCEPT ![r.version].status = w]
    OBVIOUS
  <1>5. w = "loaded" => r.version \in lo
    BY <1>1 DEF ReportTrue
  <1>6. w = "failed" => rs[r.version].policy \in BadPolicies
    BY <1>1 DEF ReportTrue
  <1>7. w \in {"loaded", "failed"}
    OBVIOUS
  <1> HIDE DEF w, row
  <1>8. ra \in Seq(WaitRows) /\ Len(ra) = Len(rs)
    BY <1>0, <1>1, <1>3, ExceptSeq
  <1>9. ASSUME NEW i \in 1..Len(rs)
        PROVE  /\ ra[i].policy = rs[i].policy
               /\ ra[i].status = "loaded" => i \in lo
               /\ ra[i].status = "failed" => rs[i].policy \in BadPolicies
               /\ ra[i].status = "superseded" => i < Len(rs)
    <2>1. CASE i = r.version
      BY <1>0, <1>1, <1>3, <1>5, <1>6, <1>7, <2>1
    <2>2. CASE i # r.version
      BY <1>0, <1>1, <2>2 DEF RowsTrue
    <2> QED BY <2>1, <2>2
  <1> HIDE DEF ra
  <1>10. /\ rt \in Seq(WaitRows) /\ Len(rt) = Len(rs)
         /\ \A i \in 1..Len(rs) :
              /\ rt[i].policy = ra[i].policy
              /\ rt[i].status = ra[i].status \/ (i < r.version /\ rt[i].status = "superseded")
    <2>1. CASE r.ok
      <3>1. rt = SupersedeBefore(ra, r.version)
        BY <2>1
      <3> HIDE DEF rt
      <3> QED BY <1>1, <1>8, <3>1, SupersedeKeeps
    <2>2. CASE ~r.ok
      <3>1. rt = ra
        BY <2>2
      <3> HIDE DEF rt
      <3> QED BY <1>8, <3>1
    <2> QED BY <2>1, <2>2
  <1> HIDE DEF rt
  <1>11. RowsGrow(rs, rt)
    <2>1. \A i \in 1..Len(rs) : rt[i].policy = rs[i].policy
      BY <1>9, <1>10
    <2> QED BY <1>0, <1>10, <2>1 DEF RowsGrow
  <1>12. \A i \in 1..Len(rs) :
           /\ rt[i].status = "loaded" => i \in lo
           /\ rt[i].status = "failed" => rt[i].policy \in BadPolicies
           /\ rt[i].status = "superseded" => i < Len(rs)
    <2> SUFFICES ASSUME NEW i \in 1..Len(rs)
                 PROVE  /\ rt[i].status = "loaded" => i \in lo
                        /\ rt[i].status = "failed" => rt[i].policy \in BadPolicies
                        /\ rt[i].status = "superseded" => i < Len(rs)
      OBVIOUS
    <2>1. i < r.version => i < Len(rs)
      BY <1>0, <1>1
    <2> QED BY <1>9, <1>10, <2>1
  <1>13. RowsTrue(rt, lo)
    BY <1>10, <1>12 DEF RowsTrue
  <1> QED BY <1>4, <1>11, <1>13 DEF rt, w

\* A command's step, the revisions unchanged or grown.
LEMMA SetterStep ==
    ASSUME WaitInv, NEW s \in Setters, NEW c, NEW rt, RowsGrow(revisions, rt),
           RowsTrue(rt, loadedOnce), SetterTrue(c, rt, loadedOnce),
           setters' = [setters EXCEPT ![s] = c], revisions' = rt,
           UNCHANGED <<applied, report, loadedOnce>>
    PROVE  WaitInv'
  <1>0. /\ RowsTrue(revisions, loadedOnce) /\ applied \in 1..Len(revisions)
        /\ loadedOnce \subseteq 1..Len(revisions)
    BY DEF WaitInv, RowsTrue
  <1>1. ReportTrue(report, rt, loadedOnce)
    BY ReportKept DEF WaitInv
  <1>2. \A d \in Setters : SetterTrue(setters[d], rt, loadedOnce)
    BY <1>0, SetterKept DEF WaitInv
  <1>3. \A d \in Setters : setters'[d] = IF d = s THEN c ELSE setters[d]
    BY DEF WaitInv
  <1>4. \A d \in Setters : SetterTrue(setters'[d], rt, loadedOnce)
    BY <1>2, <1>3
  <1>5. setters' \in [Setters -> SetterRecs]
    BY DEF WaitInv, SetterTrue
  <1>6. applied \in 1..Len(rt)
    BY <1>0 DEF RowsGrow
  <1>7. /\ RowsTrue(revisions', loadedOnce') /\ applied' \in 1..Len(revisions')
        /\ ReportTrue(report', revisions', loadedOnce')
        /\ \A d \in Setters : SetterTrue(setters'[d], revisions', loadedOnce')
    BY <1>1, <1>4, <1>6
  <1> QED BY <1>5, <1>7 DEF WaitInv

LEMMA WaitStep ==
    ASSUME WaitInv, [WaitNext]_waitVars
    PROVE  WaitInv'
  <1>0. /\ RowsTrue(revisions, loadedOnce) /\ revisions \in Seq(WaitRows)
        /\ Len(revisions) \in Nat /\ Len(revisions) >= 1 /\ loadedOnce \subseteq 1..Len(revisions)
        /\ RowsGrow(revisions, revisions)
    BY DEF WaitInv, RowsTrue, RowsGrow
  <1>1. ASSUME NEW s \in Setters, ReadCurrent(s)
        PROVE  WaitInv'
    <2>1. PICK p \in SetPolicies, w \in BOOLEAN, v \in {LatestVersion, 0} :
            setters' = [setters EXCEPT ![s] =
                [Resting EXCEPT !.at = "update", !.policy = p, !.wait = w, !.current = v]]
      BY <1>1 DEF ReadCurrent
    <2> DEFINE c == [Resting EXCEPT !.at = "update", !.policy = p, !.wait = w, !.current = v]
    <2>2. v \in Nat
      BY <1>0 DEF LatestVersion
    <2>3. c \in SetterRecs /\ c.at = "update" /\ c.policy = p /\ c.said = "nothing"
      BY <2>2 DEF Resting, SetterRecs
    <2> HIDE DEF c
    <2>4. SetterTrue(c, revisions, loadedOnce)
      BY <2>3 DEF SetterTrue
    <2>5. setters' = [setters EXCEPT ![s] = c] /\ UNCHANGED <<revisions, applied, report, loadedOnce>>
      BY <1>1, <2>1 DEF ReadCurrent, c
    <2> QED BY <1>0, <2>4, <2>5, SetterStep
  <1>2. ASSUME NEW s \in Setters, NEW word, Say(s, word), setters[s].at \in {"update", "poll"},
               UNCHANGED <<revisions, applied, report, loadedOnce>>,
               \/ word \in {"error", "timeout"}
               \/ /\ setters[s].at = "poll" /\ word = revisions[setters[s].version].status
                  /\ word # "pending"
        PROVE  WaitInv'
    <2> DEFINE c == [setters[s] EXCEPT !.at = "ended", !.said = word]
    <2>1. setters' = [setters EXCEPT ![s] = c]
      BY <1>2 DEF Say
    <2>2. SetterTrue(setters[s], revisions, loadedOnce) /\ setters[s] \in SetterRecs
      BY DEF WaitInv
    <2>3. word \in {"error", "timeout", "loaded", "failed", "superseded"}
      <3>1. CASE setters[s].at = "poll" /\ word = revisions[setters[s].version].status
                 /\ word # "pending"
        <4>1. setters[s].version \in 1..Len(revisions)
          BY <2>2, <3>1 DEF SetterTrue
        <4>2. revisions[setters[s].version] \in WaitRows
          BY <1>0, <4>1
        <4> QED BY <3>1, <4>2 DEF WaitRows
      <3> QED BY <1>2, <3>1
    <2>4. /\ c \in SetterRecs /\ c.at = "ended" /\ c.said = word /\ c.version = setters[s].version
          /\ c.policy = setters[s].policy
      BY <2>2, <2>3 DEF SetterRecs
    <2> HIDE DEF c
    <2>5. SetterTrue(c, revisions, loadedOnce)
      BY <1>0, <1>2, <2>2, <2>3, <2>4 DEF SetterTrue, RowsTrue
    <2> QED BY <1>0, <1>2, <2>1, <2>5, SetterStep
  <1>3. ASSUME NEW s \in Setters, SubmitUpdate(s)
        PROVE  WaitInv'
    <2>1. CASE Say(s, "error") /\ UNCHANGED revisions
      BY <1>2, <1>3, <2>1 DEF SubmitUpdate
    <2>2. CASE ~(Say(s, "error") /\ UNCHANGED revisions)
      <3> DEFINE o == setters[s]
                 rt == RevisionsWith(o.policy)
                 at == IF Len(rt) = o.current \/ ~o.wait THEN "ended" ELSE "poll"
                 said == CASE Len(rt) = o.current -> "unchanged"
                           [] Len(rt) # o.current /\ ~o.wait -> "submitted"
                           [] OTHER -> "nothing"
                 c == [o EXCEPT !.version = Len(rt), !.at = at, !.said = said]
      <3>1. /\ o.at = "update" /\ Len(rt) <= MaxRevisions /\ revisions' = rt
            /\ setters' = [setters EXCEPT ![s] = c]
            /\ UNCHANGED <<applied, report, loadedOnce>>
        BY <1>3, <2>2 DEF SubmitUpdate
      <3>2. SetterTrue(o, revisions, loadedOnce) /\ o \in SetterRecs /\ o.policy \in SetPolicies
        BY <3>1 DEF WaitInv, SetterTrue
      <3>3. rt = IF revisions[Len(revisions)].policy = o.policy THEN revisions
                 ELSE SupersedeBefore(Append(revisions, [policy |-> o.policy, status |-> "pending"]),
                                      Len(revisions) + 1)
        BY DEF RevisionsWith, LatestVersion
      <3> HIDE DEF rt
      <3>4. \/ at = "poll" /\ said = "nothing"
            \/ at = "ended" /\ said \in {"unchanged", "submitted"}
        <4>1. CASE Len(rt) = o.current
          BY <4>1
        <4>2. CASE Len(rt) # o.current /\ ~o.wait
          BY <4>2
        <4>3. CASE Len(rt) # o.current /\ o.wait
          BY <4>3
        <4> QED BY <4>1, <4>2, <4>3
      <3>5. /\ RowsGrow(revisions, rt) /\ RowsTrue(rt, loadedOnce)
            /\ Len(rt) \in 1..Len(rt) /\ rt[Len(rt)].policy = o.policy
        BY <1>0, <3>1, <3>2, <3>3, UpdateGrows
      <3>6. Len(rt) \in Nat
        BY <3>5 DEF RowsGrow
      <3> HIDE DEF at, said
      <3>7. /\ c \in SetterRecs /\ c.at = at /\ c.said = said /\ c.version = Len(rt)
            /\ c.policy = o.policy
        BY <3>2, <3>4, <3>6 DEF SetterRecs
      <3> HIDE DEF c
      <3>8. SetterTrue(c, rt, loadedOnce)
        BY <3>4, <3>5, <3>7 DEF SetterTrue
      <3> QED BY <3>1, <3>5, <3>8, SetterStep
    <2> QED BY <2>1, <2>2
  <1>4. ASSUME NEW s \in Setters, PollStatus(s)
        PROVE  WaitInv'
    BY <1>2, <1>4 DEF PollStatus, AskedVersion
  <1>5. ASSUME NEW s \in Setters, StartAgain(s)
        PROVE  WaitInv'
    <2>1. SetterTrue(Resting, revisions, loadedOnce)
      BY DEF SetterTrue, Resting, SetterRecs
    <2> QED BY <1>0, <1>5, <2>1, SetterStep DEF StartAgain
  <1>6. CASE PollAndLoad
    <2> DEFINE v == Len(revisions)
               ok == revisions[v].policy \notin BadPolicies
               changed == revisions[v].policy # revisions[applied].policy
               lt == IF ok THEN loadedOnce \cup {v} ELSE loadedOnce
    <2>1. /\ applied' = v /\ loadedOnce' = lt /\ UNCHANGED <<revisions, setters>>
          /\ report' = IF changed THEN [version |-> v, ok |-> ok] ELSE NoReport
      BY <1>6 DEF PollAndLoad, LatestVersion
    <2>2. v \in 1..Len(revisions) /\ loadedOnce \subseteq lt /\ lt \subseteq 1..Len(revisions)
      <3>1. v \in 1..Len(revisions)
        BY <1>0
      <3>2. lt = loadedOnce \/ lt = loadedOnce \cup {v}
        OBVIOUS
      <3> QED BY <1>0, <3>1, <3>2
    <2>3. RowsTrue(revisions, lt)
      BY <1>0, <2>2 DEF RowsTrue
    <2>4. ReportTrue(report', revisions, lt)
      BY <2>1, <2>2 DEF ReportTrue
    <2> HIDE DEF lt
    <2>5. \A s \in Setters : SetterTrue(setters[s], revisions, lt)
      BY <1>0, <2>2, SetterKept DEF WaitInv
    <2>6. /\ RowsTrue(revisions', loadedOnce') /\ applied' \in 1..Len(revisions')
          /\ ReportTrue(report', revisions', loadedOnce')
          /\ \A s \in Setters : SetterTrue(setters'[s], revisions', loadedOnce')
      BY <2>1, <2>2, <2>3, <2>4, <2>5
    <2> QED BY <2>1, <2>6 DEF WaitInv
  <1>7. CASE SendReport
    <2> DEFINE rt == LET marked == [revisions EXCEPT ![report.version].status =
                                       IF report.ok THEN "loaded" ELSE "failed"]
                     IN  IF report.ok THEN SupersedeBefore(marked, report.version) ELSE marked
    <2>1. /\ report # NoReport /\ report' = NoReport /\ UNCHANGED <<applied, loadedOnce, setters>>
          /\ revisions' = rt \/ revisions' = revisions
      BY <1>7 DEF SendReport
    <2>2. RowsGrow(revisions, rt) /\ RowsTrue(rt, loadedOnce)
      BY <1>0, <2>1, ReportMarks DEF WaitInv
    <2> HIDE DEF rt
    <2>3. PICK rs : revisions' = rs /\ RowsGrow(revisions, rs) /\ RowsTrue(rs, loadedOnce)
      BY <1>0, <2>1, <2>2
    <2>4. \A s \in Setters : SetterTrue(setters[s], rs, loadedOnce)
      BY <1>0, <2>3, SetterKept DEF WaitInv
    <2>5. applied \in 1..Len(rs)
      <3>1. applied \in 1..Len(revisions) /\ Len(rs) \in Nat /\ Len(revisions) <= Len(rs)
        BY <2>3 DEF WaitInv, RowsGrow
      <3> QED BY <1>0, <3>1
    <2>6. ReportTrue(NoReport, rs, loadedOnce)
      BY DEF ReportTrue
    <2>7. /\ RowsTrue(revisions', loadedOnce') /\ applied' \in 1..Len(revisions')
          /\ ReportTrue(report', revisions', loadedOnce')
          /\ \A s \in Setters : SetterTrue(setters'[s], revisions', loadedOnce')
      BY <2>1, <2>3, <2>4, <2>5, <2>6
    <2> QED BY <2>1, <2>7 DEF WaitInv
  <1>8. CASE UNCHANGED waitVars
    BY <1>8 DEF waitVars, WaitInv
  <1> QED BY <1>1, <1>3, <1>4, <1>5, <1>6, <1>7, <1>8 DEF WaitNext

\* What `policy set --wait` says of its revision is so, for any number of
\* commands, however their calls, the sandbox's polls and its reports, lost or
\* late, interleave.
THEOREM WaitTellsTheTruth == WaitSpec => []WaitSound
  <1>1. WaitInit => WaitInv
    <2> SUFFICES ASSUME WaitInit
                 PROVE  WaitInv
      OBVIOUS
    <2>1. PICK p \in SetPolicies \ BadPolicies : revisions = <<[policy |-> p, status |-> "loaded"]>>
      BY DEF WaitInit
    <2>2. [policy |-> p, status |-> "loaded"] \in WaitRows
      BY DEF WaitRows
    <2>3. /\ revisions \in Seq(WaitRows) /\ Len(revisions) = 1
          /\ revisions[1] = [policy |-> p, status |-> "loaded"]
      BY <2>1, <2>2
    <2>4. RowsTrue(revisions, loadedOnce)
      BY <2>3, WaitAssumption DEF WaitInit, RowsTrue
    <2>5. SetterTrue(Resting, revisions, loadedOnce) /\ Resting \in SetterRecs
      BY DEF SetterTrue, Resting, SetterRecs
    <2>6. ReportTrue(report, revisions, loadedOnce)
      BY DEF ReportTrue, WaitInit
    <2> QED BY <2>3, <2>4, <2>5, <2>6 DEF WaitInit, WaitInv
  <1>2. WaitInv /\ [WaitNext]_waitVars => WaitInv'
    BY WaitStep
  <1>3. WaitInv => WaitSound
    <2> SUFFICES ASSUME WaitInv
                 PROVE  WaitTypeOK /\ WordIsTrue
      BY DEF WaitSound
    <2>1. revisions \in Seq(WaitRows) /\ Len(revisions) \in Nat
      BY DEF WaitInv, RowsTrue
    <2>2. \A i \in DOMAIN revisions : revisions[i] \in WaitRows
      BY <2>1
    <2>3. report \in [version : 0..Len(revisions), ok : BOOLEAN]
      <3>1. CASE report = NoReport
        BY <2>1, <3>1 DEF NoReport
      <3>2. CASE report \in [version : 1..Len(revisions), ok : BOOLEAN]
        BY <2>1, <3>2
      <3> QED BY <3>1, <3>2 DEF WaitInv, ReportTrue
    <2>4. WaitTypeOK
      BY <2>2, <2>3 DEF WaitInv, RowsTrue, WaitRows, WaitTypeOK, SetterRecs
    <2>5. WordIsTrue
      BY DEF WaitInv, SetterTrue, WordIsTrue, LatestVersion
    <2> QED BY <2>4, <2>5
  <1> QED BY <1>1, <1>2, <1>3, PTL DEF WaitSpec

-----------------------------------------------------------------------------
(* GatewaySettings: records under a mutex that deletions and readers do    *)
(* not take.                                                               *)

GVals == GlobalValues \cup GlobalPolicies \cup {NoValue}
BVals == BoxValues \cup {NoValue}
GlobalKeys == [AllKeys -> GVals]
BoxKeys == [SetKeys -> BVals]
GRecs == [keys : GlobalKeys, rev : 0..MaxSetRev]
SRecs == [name : SetNames \cup {""}, keys : BoxKeys, rev : 0..MaxSetRev]
GRevs == [policy : GlobalPolicies, status : {"pending", "loaded", "superseded"}]
Holding == {"latest", "revise", "mark", "older", "load", "loadbox", "save"}
Asks ==
    [pc : {"idle", "lock"} \cup Holding, op : {"none", "global", "sandbox", "policy"},
     key : AllKeys, val : GVals \cup BVals, name : SetNames \cup {""}, id : 0..MaxSetIds,
     g : GRecs, s : SRecs]
Reads ==
    [pc : {"idle", "global", "sandbox", "done"}, id : 0..MaxSetIds, g : GlobalKeys,
     got : [SetKeys -> GVals \cup BVals], inForce : [SetKeys -> SUBSET (GVals \cup BVals)]]

\* A request has the key, value and sandbox its kind calls for.
AskOK(a) ==
    /\ a \in Asks
    /\ a.op = "policy" => a.key = PolicyKey /\ a.val \in GlobalPolicies
    /\ a.op = "global" => a.val \in GVals
    /\ a.op = "sandbox" => /\ a.key \in SetKeys /\ a.val \in BVals /\ a.id \in 1..MaxSetIds
                           /\ a.name \in SetNames
    /\ a.pc \in {"latest", "revise", "mark", "older"} => a.op = "policy"
    /\ a.pc = "loadbox" => a.op = "sandbox"
    /\ a.pc # "idle" => a.op # "none"

\* While a handler is about to write a sandbox's value of a key, the key is not
\* managed globally.
KeyFree(a, gk) == a.pc \in {"loadbox", "save"} /\ a.op = "sandbox" => gk[a.key] = NoValue

\* The record it read is the one in the store, or that has been deleted since,
\* and then whoever reads this sandbox has seen the global values of now.
Snapshot(a, gk, ss, r) ==
    a.pc = "save" /\ a.op = "sandbox" =>
        a.s = ss[a.id] \/ (r.pc = "sandbox" /\ r.id = a.id => r.g = gk)

\* What a reader has seen, or would see next, was in force since its begin.
ReaderTrue(r, gk, ss) ==
    /\ r \in Reads
    /\ r.pc \in {"global", "sandbox"} => r.id \in 1..MaxSetIds
    /\ r.pc = "idle" => r.id = 0
    /\ r.pc = "global" =>
         \A k \in SetKeys : MergeEffective(gk, ss[r.id].keys)[k] \in r.inForce[k]
    /\ r.pc = "sandbox" =>
         \A k \in SetKeys : IF r.g[k] # NoValue THEN r.g[k] \in r.inForce[k]
                            ELSE ss[r.id].keys[k] \in r.inForce[k]
    /\ r.pc = "done" => \A k \in SetKeys : r.got[k] \in r.inForce[k]

StoreTypes ==
    /\ gset \in GRecs /\ sset \in [1..MaxSetIds -> SRecs]
    /\ lastBox \in 0..MaxSetIds /\ boxes \in [SetNames -> 0..lastBox]
    /\ gpol \in Seq(GRevs) /\ smutex \in SetCallers \cup {NoCaller}

AsksTrue ==
    /\ ask \in [SetCallers -> Asks]
    /\ \A c \in SetCallers :
          /\ AskOK(ask[c])
          /\ ask[c].pc \in Holding => smutex = c
          /\ KeyFree(ask[c], gset.keys)
          /\ Snapshot(ask[c], gset.keys, sset, reader)

SetInv == StoreTypes /\ AsksTrue /\ ReaderTrue(reader, gset.keys, sset)

LEMMA SettingsBounds ==
    /\ MaxSetIds \in Nat /\ MaxSetRev \in Nat
    /\ 0 \in 0..MaxSetIds /\ \A i \in 1..MaxSetIds : i \in 0..MaxSetIds
  BY SettingsAssumption

LEMMA EmptyTypes ==
    /\ NoRecord \in SRecs /\ NoAsk \in Asks /\ NoReader \in Reads
    /\ AskOK(NoAsk) /\ NoAsk.pc = "idle" /\ NoReader.pc = "idle" /\ NoReader.id = 0
    /\ [k \in AllKeys |-> NoValue] \in GlobalKeys /\ NoRecord.keys \in BoxKeys
  <1>1. /\ [k \in AllKeys |-> NoValue] \in GlobalKeys /\ [k \in SetKeys |-> NoValue] \in BoxKeys
        /\ 0 \in 0..MaxSetRev /\ 0 \in 0..MaxSetIds
    BY SettingsAssumption DEF GlobalKeys, BoxKeys, GVals, BVals
  <1>2. NoRecord \in SRecs /\ NoRecord.keys \in BoxKeys
    BY <1>1 DEF NoRecord, SRecs
  <1>3. [keys |-> [k \in AllKeys |-> NoValue], rev |-> 0] \in GRecs
    BY <1>1 DEF GRecs
  <1>4. PolicyKey \in AllKeys /\ NoValue \in GVals
    BY DEF AllKeys, GVals
  <1>5. NoAsk \in Asks /\ NoAsk.pc = "idle" /\ NoAsk.op = "none"
    BY <1>1, <1>2, <1>3, <1>4 DEF NoAsk, Asks
  <1>6. AskOK(NoAsk)
    BY <1>5 DEF AskOK
  <1>7. [k \in SetKeys |-> NoValue] \in [SetKeys -> GVals \cup BVals]
    BY <1>4
  <1>8. [k \in SetKeys |-> {}] \in [SetKeys -> SUBSET (GVals \cup BVals)]
    OBVIOUS
  <1>9. NoReader \in Reads /\ NoReader.pc = "idle" /\ NoReader.id = 0
    BY <1>1, <1>7, <1>8 DEF NoReader, Reads
  <1> QED BY <1>1, <1>2, <1>5, <1>6, <1>9

LEMMA MergeValue ==
    ASSUME NEW gk \in GlobalKeys, NEW sk \in BoxKeys, NEW k \in SetKeys
    PROVE  /\ gk[k] # NoValue => MergeEffective(gk, sk)[k] = gk[k]
           /\ gk[k] = NoValue => MergeEffective(gk, sk)[k] = sk[k]
           /\ MergeEffective(gk, sk)[k] \in GVals \cup BVals
  <1>1. MergeEffective(gk, sk)[k] = IF gk[k] # NoValue THEN gk[k] ELSE sk[k]
    BY DEF MergeEffective
  <1>2. gk[k] \in GVals /\ sk[k] \in BVals
    BY DEF GlobalKeys, BoxKeys, AllKeys
  <1> QED BY <1>1, <1>2

\* A reader that is under way gets the values now in force added, and that is
\* all that happens to it.
LEMMA WatchedAdds ==
    ASSUME NEW r \in Reads, NEW gk \in GlobalKeys, NEW sk \in BoxKeys
    PROVE  LET w == Watched(r, gk, sk)
           IN  /\ w \in Reads /\ w.pc = r.pc /\ w.id = r.id /\ w.g = r.g /\ w.got = r.got
               /\ \A k \in SetKeys :
                    /\ r.inForce[k] \subseteq w.inForce[k]
                    /\ r.pc # "idle" => MergeEffective(gk, sk)[k] \in w.inForce[k]
  <1>1. CASE r.pc = "idle"
    BY <1>1 DEF Watched
  <1>2. CASE r.pc # "idle"
    <2> DEFINE f == [k \in SetKeys |-> r.inForce[k] \cup {MergeEffective(gk, sk)[k]}]
               w == [r EXCEPT !.inForce = f]
    <2>1. Watched(r, gk, sk) = w
      BY <1>2 DEF Watched
    <2>2. \A k \in SetKeys : f[k] = r.inForce[k] \cup {MergeEffective(gk, sk)[k]}
      OBVIOUS
    <2>3. f \in [SetKeys -> SUBSET (GVals \cup BVals)]
      <3>1. \A k \in SetKeys : r.inForce[k] \cup {MergeEffective(gk, sk)[k]} \in SUBSET (GVals \cup BVals)
        BY MergeValue DEF Reads
      <3> QED BY <3>1
    <2> HIDE DEF f
    <2>4. w \in Reads /\ w.pc = r.pc /\ w.id = r.id /\ w.g = r.g /\ w.got = r.got /\ w.inForce = f
      BY <2>3 DEF Reads
    <2> HIDE DEF w
    <2> QED BY <2>1, <2>2, <2>4
  <1> QED BY <1>1, <1>2

\* A step of one request that leaves the store's records and the reader alone.
LEMMA AskStep ==
    ASSUME SetInv, NEW c \in SetCallers, NEW a, AskOK(a), NEW m \in SetCallers \cup {NoCaller},
           KeyFree(a, gset.keys), Snapshot(a, gset.keys, sset, reader),
           a.pc \in Holding => m = c, m = smutex \/ smutex \in {c, NoCaller},
           ask' = [ask EXCEPT ![c] = a], smutex' = m, gpol' \in Seq(GRevs),
           UNCHANGED <<gset, sset, boxes, lastBox, reader>>
    PROVE  SetInv'
  <1>1. \A d \in SetCallers : ask'[d] = IF d = c THEN a ELSE ask[d]
    BY DEF SetInv, AsksTrue
  <1>2. a \in Asks /\ NoCaller \notin SetCallers
    BY SettingsAssumption DEF AskOK
  <1>3. ask' \in [SetCallers -> Asks]
    BY <1>2 DEF SetInv, AsksTrue
  <1>4. ASSUME NEW d \in SetCallers
        PROVE  /\ AskOK(ask'[d])
               /\ ask'[d].pc \in Holding => m = d
               /\ KeyFree(ask'[d], gset.keys)
               /\ Snapshot(ask'[d], gset.keys, sset, reader)
    <2>1. CASE d = c
      BY <1>1, <2>1
    <2>2. CASE d # c
      <3>1. /\ AskOK(ask[d])
            /\ ask[d].pc \in Holding => smutex = d
            /\ KeyFree(ask[d], gset.keys)
            /\ Snapshot(ask[d], gset.keys, sset, reader)
        BY DEF SetInv, AsksTrue
      <3>2. ask'[d] = ask[d]
        BY <1>1, <2>2
      <3> QED BY <1>2, <2>2, <3>1, <3>2
    <2> QED BY <2>1, <2>2
  <1>5. AsksTrue'
    <2>1. \A d \in SetCallers :
             /\ AskOK(ask'[d])
             /\ ask'[d].pc \in Holding => smutex' = d
             /\ KeyFree(ask'[d], gset'.keys)
             /\ Snapshot(ask'[d], gset'.keys, sset', reader')
      BY <1>4
    <2> QED BY <1>3, <2>1 DEF AsksTrue
  <1>6. StoreTypes'
    BY DEF SetInv, StoreTypes
  <1> QED BY <1>5, <1>6 DEF SetInv

LEMMA AnswerStep ==
    ASSUME SetInv, NEW c \in SetCallers, Answer(c), gpol' \in Seq(GRevs),
           UNCHANGED <<gset, sset, boxes, lastBox, reader>>
    PROVE  SetInv'
  <1>1. AskOK(NoAsk) /\ NoAsk.pc = "idle"
    BY EmptyTypes
  <1>2. KeyFree(NoAsk, gset.keys) /\ Snapshot(NoAsk, gset.keys, sset, reader)
    BY <1>1 DEF KeyFree, Snapshot
  <1>3. PICK m \in SetCallers \cup {NoCaller} : smutex' = m /\ (m = smutex \/ smutex = c)
    BY DEF Answer, SetInv, StoreTypes
  <1>4. NoAsk.pc \notin Holding /\ ask' = [ask EXCEPT ![c] = NoAsk]
    BY <1>1 DEF Holding, Answer
  <1> QED BY <1>1, <1>2, <1>3, <1>4, AskStep

\* A request that goes on to another place, the mutex held as before.
LEMMA MoveStep ==
    ASSUME SetInv, NEW c \in SetCallers, NEW n \in Holding, Step(c, n),
           ask[c].pc # "idle", NEW m \in SetCallers \cup {NoCaller}, smutex' = m, m = c,
           smutex \in {c, NoCaller}, gpol' \in Seq(GRevs),
           n \in {"latest", "revise", "mark", "older"} => ask[c].op = "policy",
           n = "loadbox" => ask[c].op = "sandbox" /\ gset.keys[ask[c].key] = NoValue,
           n # "save", UNCHANGED <<gset, sset, boxes, lastBox, reader>>
    PROVE  SetInv'
  <1> DEFINE a == [ask[c] EXCEPT !.pc = n]
  <1>1. ask' = [ask EXCEPT ![c] = a]
    BY DEF Step
  <1>2. AskOK(ask[c]) /\ ask[c] \in Asks
    BY DEF SetInv, AsksTrue
  <1>3. /\ a \in Asks /\ a.pc = n /\ a.op = ask[c].op /\ a.key = ask[c].key /\ a.val = ask[c].val
        /\ a.id = ask[c].id /\ a.name = ask[c].name
    BY <1>2 DEF Asks
  <1> HIDE DEF a
  <1>4. AskOK(a)
    BY <1>2, <1>3 DEF AskOK, Holding
  <1>5. KeyFree(a, gset.keys) /\ Snapshot(a, gset.keys, sset, reader)
    BY <1>3 DEF KeyFree, Snapshot
  <1> QED BY <1>1, <1>4, <1>5, AskStep

\* The holder of the mutex answers: no handler is in its critical section, and
\* nothing is left to be said of the records the others have read.
LEMMA ReleaseStep ==
    ASSUME SetInv, NEW c \in SetCallers, Answer(c), ask[c].pc \in Holding
    PROVE  AsksTrue' /\ smutex' = NoCaller
  <1>1. smutex = c /\ smutex' = NoCaller
    BY DEF SetInv, AsksTrue, Answer
  <1>2. \A d \in SetCallers : ask'[d] = IF d = c THEN NoAsk ELSE ask[d]
    BY DEF SetInv, AsksTrue, Answer
  <1>3. NoAsk \in Asks /\ AskOK(NoAsk) /\ NoAsk.pc \notin Holding
    BY EmptyTypes DEF Holding
  <1>4. ask' \in [SetCallers -> Asks]
    BY <1>3 DEF SetInv, AsksTrue, Answer
  <1>5. \A d \in SetCallers : AskOK(ask'[d]) /\ ask'[d].pc \notin Holding
    BY <1>1, <1>2, <1>3 DEF SetInv, AsksTrue
  <1>6. \A d \in SetCallers :
           /\ AskOK(ask'[d])
           /\ ask'[d].pc \in Holding => smutex' = d
           /\ KeyFree(ask'[d], gset'.keys)
           /\ Snapshot(ask'[d], gset'.keys, sset', reader')
    BY <1>5 DEF KeyFree, Snapshot, Holding
  <1> QED BY <1>1, <1>4, <1>6 DEF AsksTrue

\* A step outside the handlers: what it does to the records they have read and
\* to the reader is to be shown, the rest is as before.
LEMMA ReadStep ==
    ASSUME SetInv, UNCHANGED <<gset, gpol, smutex, ask>>,
           lastBox' \in 0..MaxSetIds, boxes' \in [SetNames -> 0..lastBox'],
           NEW ss \in [1..MaxSetIds -> SRecs], sset' = ss,
           NEW r, reader' = r, ReaderTrue(r, gset.keys, ss),
           \A c \in SetCallers : Snapshot(ask[c], gset.keys, ss, r)
    PROVE  SetInv'
  <1>1. StoreTypes'
    BY DEF SetInv, StoreTypes
  <1>2. \A d \in SetCallers :
           /\ AskOK(ask'[d])
           /\ ask'[d].pc \in Holding => smutex' = d
           /\ KeyFree(ask'[d], gset'.keys)
           /\ Snapshot(ask'[d], gset'.keys, sset', reader')
    BY DEF SetInv, AsksTrue
  <1>3. AsksTrue'
    BY <1>2 DEF SetInv, AsksTrue
  <1>4. ReaderTrue(reader', gset'.keys, sset')
    OBVIOUS
  <1> QED BY <1>1, <1>3, <1>4 DEF SetInv

LEMMA ResetReader ==
    ASSUME NEW gk, NEW ss
    PROVE  ReaderTrue(NoReader, gk, ss) /\ \A a : Snapshot(a, gk, ss, NoReader)
  BY EmptyTypes DEF ReaderTrue, Snapshot

LEMMA BoxIds ==
    ASSUME SetInv, NEW n \in SetNames
    PROVE  boxes[n] \in Nat /\ boxes[n] <= lastBox /\ (boxes[n] # 0 => boxes[n] \in 1..MaxSetIds)
  <1>1. boxes \in [SetNames -> 0..lastBox] /\ lastBox \in 0..MaxSetIds
    BY DEF SetInv, StoreTypes
  <1>2. boxes[n] \in 0..lastBox
    BY <1>1
  <1> QED BY <1>1, <1>2, SettingsAssumption

\* Requests
LEMMA RequestStep ==
    ASSUME SetInv, NEW c \in SetCallers, NEW op \in {"global", "sandbox", "policy"},
           NEW key \in AllKeys, NEW val \in GVals \cup BVals, NEW n \in SetNames \cup {""},
           op = "policy" => key = PolicyKey /\ val \in GlobalPolicies,
           op = "global" => val \in GVals,
           op = "sandbox" => key \in SetKeys /\ val \in BVals /\ n \in SetNames,
           Request(c, op, key, val, n)
    PROVE  SetInv'
  <1> DEFINE id == IF op = "sandbox" THEN boxes[n] ELSE 0
             a == [NoAsk EXCEPT !.pc = "lock", !.op = op, !.key = key, !.val = val, !.name = n, !.id = id]
  <1>1. ask' = [ask EXCEPT ![c] = a]
    BY DEF Request
  <1>2. op = "sandbox" => boxes[n] \in 1..MaxSetIds
    <2> HIDE DEF a, id
    <2> SUFFICES ASSUME op = "sandbox" PROVE boxes[n] \in 1..MaxSetIds
      OBVIOUS
    <2>1. n \in SetNames /\ boxes[n] # 0
      BY DEF Request
    <2> QED BY <2>1, BoxIds
  <1> HIDE DEF a
  <1>3. id \in 0..MaxSetIds /\ (op = "sandbox" => id \in 1..MaxSetIds)
    <2>1. 0 \in 0..MaxSetIds /\ \A i \in 1..MaxSetIds : i \in 0..MaxSetIds
      BY SettingsBounds
    <2>2. CASE op = "sandbox"
      BY <1>2, <2>1, <2>2
    <2>3. CASE op # "sandbox"
      BY <2>1, <2>3
    <2> QED BY <2>2, <2>3
  <1> HIDE DEF id
  <1>4. NoAsk \in Asks
    BY EmptyTypes
  <1>5. /\ a \in Asks /\ a.pc = "lock" /\ a.op = op /\ a.key = key /\ a.val = val
        /\ a.name = n /\ a.id = id
    BY <1>3, <1>4 DEF Asks, a
  <1>6. AskOK(a)
    BY <1>3, <1>5 DEF AskOK
  <1>7. a.pc \notin Holding /\ KeyFree(a, gset.keys) /\ Snapshot(a, gset.keys, sset, reader)
    BY <1>5 DEF KeyFree, Snapshot, Holding
  <1>8. /\ smutex' = smutex /\ gpol' \in Seq(GRevs) /\ smutex \in SetCallers \cup {NoCaller}
        /\ UNCHANGED <<gset, sset, boxes, lastBox, reader>>
    BY DEF Request, SetInv, StoreTypes
  <1> QED BY <1>1, <1>6, <1>7, <1>8, AskStep

LEMMA CommandStep ==
    ASSUME SetInv, NEW c \in SetCallers,
           \/ GatewaySettingSet(c) \/ GatewaySettingDelete(c) \/ SandboxSettingSet(c)
           \/ SandboxSettingDelete(c) \/ SandboxPolicySetGlobal(c) \/ PolicyDeleteGlobal(c)
    PROVE  SetInv'
  <1>1. CASE GatewaySettingSet(c)
    <2>1. PICK key \in SetKeys, val \in GlobalValues : Request(c, "global", key, val, "")
      BY <1>1 DEF GatewaySettingSet, ParseSettingValue
    <2>2. key \in AllKeys /\ val \in GVals
      BY DEF AllKeys, GVals
    <2> QED BY <2>1, <2>2, RequestStep
  <1>2. CASE GatewaySettingDelete(c)
    <2>1. PICK key \in SetKeys : Request(c, "global", key, NoValue, "")
      BY <1>2 DEF GatewaySettingDelete
    <2>2. key \in AllKeys /\ NoValue \in GVals
      BY DEF AllKeys, GVals
    <2> QED BY <2>1, <2>2, RequestStep
  <1>3. CASE SandboxSettingSet(c)
    <2>1. PICK key \in SetKeys, val \in BoxValues, n \in SetNames : Request(c, "sandbox", key, val, n)
      BY <1>3 DEF SandboxSettingSet, ParseSettingValue
    <2>2. key \in AllKeys /\ val \in BVals
      BY DEF AllKeys, BVals
    <2> QED BY <2>1, <2>2, RequestStep
  <1>4. CASE SandboxSettingDelete(c)
    <2>1. PICK key \in SetKeys, n \in SetNames : Request(c, "sandbox", key, NoValue, n)
      BY <1>4 DEF SandboxSettingDelete
    <2>2. key \in AllKeys /\ NoValue \in BVals
      BY DEF AllKeys, BVals
    <2> QED BY <2>1, <2>2, RequestStep
  <1>5. CASE SandboxPolicySetGlobal(c)
    <2>1. PICK val \in GlobalPolicies : Request(c, "policy", PolicyKey, val, "")
      BY <1>5 DEF SandboxPolicySetGlobal
    <2>2. PolicyKey \in AllKeys /\ val \in GVals
      BY DEF AllKeys, GVals
    <2> QED BY <2>1, <2>2, RequestStep
  <1>6. CASE PolicyDeleteGlobal(c)
    <2>1. PolicyKey \in AllKeys /\ NoValue \in GVals
      BY DEF AllKeys, GVals
    <2> QED BY <1>6, <2>1, RequestStep DEF PolicyDeleteGlobal
  <1> QED BY <1>1, <1>2, <1>3, <1>4, <1>5, <1>6
\* The handler's steps up to the save

LEMMA RevisionsKept ==
    ASSUME NEW g \in Seq(GRevs), NEW n \in Int
    PROVE  /\ \A p \in GlobalPolicies : Append(g, [policy |-> p, status |-> "pending"]) \in Seq(GRevs)
           /\ [g EXCEPT ![Len(g)].status = "loaded"] \in Seq(GRevs)
           /\ [i \in DOMAIN g |-> IF i <= n THEN [g[i] EXCEPT !.status = "superseded"] ELSE g[i]]
                 \in Seq(GRevs)
  <1>1. \A p \in GlobalPolicies : [policy |-> p, status |-> "pending"] \in GRevs
    BY DEF GRevs
  <1>2. \A i \in DOMAIN g : g[i] \in GRevs
    OBVIOUS
  <1>3. \A i \in DOMAIN g, st \in {"loaded", "superseded"} : [g[i] EXCEPT !.status = st] \in GRevs
    BY <1>2 DEF GRevs
  <1>4. Len(g) \in Nat /\ DOMAIN g = 1..Len(g)
    OBVIOUS
  <1>5. [i \in DOMAIN g |-> IF i <= n THEN [g[i] EXCEPT !.status = "superseded"] ELSE g[i]] \in Seq(GRevs)
    <2> DEFINE h == [i \in 1..Len(g) |-> IF i <= n THEN [g[i] EXCEPT !.status = "superseded"] ELSE g[i]]
    <2>1. h \in [1..Len(g) -> GRevs]
      BY <1>2, <1>3, <1>4
    <2> HIDE DEF h
    <2>2. h \in Seq(GRevs)
      BY <2>1, <1>4, SeqDef
    <2> QED BY <1>4, <2>2 DEF h
  <1>6. [g EXCEPT ![Len(g)].status = "loaded"] \in Seq(GRevs)
    <2> DEFINE h == [g EXCEPT ![Len(g)].status = "loaded"]
    <2>1. h \in [1..Len(g) -> GRevs]
      <3>1. \A i \in 1..Len(g) : h[i] = IF i = Len(g) THEN [g[i] EXCEPT !.status = "loaded"] ELSE g[i]
        BY <1>4
      <3>2. DOMAIN h = 1..Len(g) /\ h = [i \in 1..Len(g) |-> h[i]]
        BY <1>4
      <3>3. \A i \in 1..Len(g) : h[i] \in GRevs
        BY <1>2, <1>3, <1>4, <3>1
      <3> HIDE DEF h
      <3> QED BY <3>2, <3>3
    <2> HIDE DEF h
    <2>2. h \in Seq(GRevs)
      BY <2>1, <1>4, SeqDef
    <2> QED BY <2>2 DEF h
  <1> QED BY <1>1, <1>5, <1>6

LEMMA HandlerStep ==
    ASSUME SetInv, NEW c \in SetCallers,
           \/ Lock(c) \/ StoreFails(c) \/ GetLatestGlobal(c) \/ PutGlobalRevision(c)
           \/ MarkLoaded(c) \/ SupersedeGlobal(c) \/ LoadGlobal(c) \/ LoadSandbox(c)
    PROVE  SetInv'
  <1>1. /\ AskOK(ask[c]) /\ ask[c] \in Asks /\ gpol \in Seq(GRevs) /\ Len(gpol) \in Nat
        /\ smutex \in SetCallers \cup {NoCaller}
    BY DEF SetInv, AsksTrue, StoreTypes
  <1>2. ask[c].pc \in Holding => smutex = c
    BY DEF SetInv, AsksTrue
  <1>3. CASE Lock(c)
    <2> DEFINE n == IF ask[c].op = "policy" THEN "latest" ELSE "load"
    <2>1. /\ n \in Holding /\ n # "save" /\ n # "loadbox"
          /\ n \in {"latest", "revise", "mark", "older"} => ask[c].op = "policy"
      BY DEF Holding
    <2>2. /\ Step(c, n) /\ smutex' = c /\ smutex \in {c, NoCaller} /\ ask[c].pc # "idle"
          /\ gpol' \in Seq(GRevs) /\ UNCHANGED <<gset, sset, boxes, lastBox, reader>>
      BY <1>1, <1>3 DEF Lock
    <2> HIDE DEF n
    <2> QED BY <2>1, <2>2, MoveStep
  <1>4. CASE StoreFails(c)
    BY <1>1, <1>4, AnswerStep DEF StoreFails
  <1>5. CASE GetLatestGlobal(c)
    <2>1. PICK n \in {"load", "revise"} : Step(c, n)
      BY <1>5 DEF GetLatestGlobal
    <2>2. /\ smutex' = c /\ smutex = c /\ ask[c].pc # "idle" /\ ask[c].op = "policy"
          /\ gpol' \in Seq(GRevs) /\ UNCHANGED <<gset, sset, boxes, lastBox, reader>>
      BY <1>1, <1>2, <1>5 DEF GetLatestGlobal, Holding, AskOK
    <2>3. n \in Holding
      BY DEF Holding
    <2> QED BY <2>1, <2>2, <2>3, MoveStep
  <1>6. CASE PutGlobalRevision(c)
    <2>1. /\ smutex' = c /\ smutex = c /\ ask[c].pc # "idle" /\ ask[c].op = "policy"
          /\ UNCHANGED <<gset, sset, boxes, lastBox, reader>> /\ Step(c, "mark")
      BY <1>1, <1>2, <1>6 DEF PutGlobalRevision, Holding, AskOK
    <2>2. gpol' \in Seq(GRevs)
      BY <1>1, <1>6, <2>1, RevisionsKept, 0 \in Int DEF PutGlobalRevision, AskOK
    <2>3. "mark" \in Holding
      BY DEF Holding
    <2> QED BY <2>1, <2>2, <2>3, MoveStep
  <1>7. CASE MarkLoaded(c)
    <2>1. /\ smutex' = c /\ smutex = c /\ ask[c].pc # "idle" /\ ask[c].op = "policy"
          /\ UNCHANGED <<gset, sset, boxes, lastBox, reader>> /\ Step(c, "older")
      BY <1>1, <1>2, <1>7 DEF MarkLoaded, Holding, AskOK
    <2>2. gpol' \in Seq(GRevs)
      BY <1>1, <1>7, RevisionsKept, 0 \in Int DEF MarkLoaded
    <2>3. "older" \in Holding
      BY DEF Holding
    <2> QED BY <2>1, <2>2, <2>3, MoveStep
  <1>8. CASE SupersedeGlobal(c)
    <2>1. /\ smutex' = c /\ smutex = c /\ ask[c].pc # "idle" /\ ask[c].op = "policy"
          /\ UNCHANGED <<gset, sset, boxes, lastBox, reader>> /\ Step(c, "load")
      BY <1>1, <1>2, <1>8 DEF SupersedeGlobal, Holding, AskOK
    <2>2. gpol' \in Seq(GRevs)
      <3>1. Supersede(Len(gpol) - 1) \in Seq(GRevs)
        <4>1. Len(gpol) - 1 \in Int
          BY <1>1
        <4> QED BY <1>1, <4>1, RevisionsKept DEF Supersede
      <3> QED BY <1>1, <1>8, <3>1 DEF SupersedeGlobal
    <2>3. "load" \in Holding
      BY DEF Holding
    <2> QED BY <2>1, <2>2, <2>3, MoveStep
  <1>9. CASE LoadGlobal(c)
    <2>1. /\ smutex = c /\ ask[c].pc # "idle" /\ ask[c].op # "none" /\ gpol' \in Seq(GRevs)
          /\ UNCHANGED <<gset, sset, boxes, lastBox, reader>>
      BY <1>1, <1>2, <1>9 DEF LoadGlobal, Holding, AskOK
    <2>2. CASE Answer(c)
      BY <2>1, <2>2, AnswerStep
    <2>3. CASE ask[c].op = "sandbox" /\ gset.keys[ask[c].key] = NoValue
      <3>1. Step(c, "loadbox") /\ smutex' = c
        BY <1>9, <2>1, <2>3 DEF LoadGlobal
      <3>2. "loadbox" \in Holding
        BY DEF Holding
      <3> QED BY <2>1, <2>3, <3>1, <3>2, MoveStep
    <2>4. CASE ask[c].op # "sandbox"
      <3> DEFINE a == [ask[c] EXCEPT !.g = gset, !.pc = "save"]
      <3>1. ask' = [ask EXCEPT ![c] = a] /\ smutex' = c
        BY <1>9, <2>1, <2>4 DEF LoadGlobal, SetInv, AsksTrue
      <3>2. gset \in GRecs
        BY DEF SetInv, StoreTypes
      <3>3. /\ a \in Asks /\ a.pc = "save" /\ a.op = ask[c].op /\ a.key = ask[c].key
            /\ a.val = ask[c].val /\ a.id = ask[c].id /\ a.name = ask[c].name
        BY <1>1, <3>2 DEF Asks, Holding
      <3> HIDE DEF a
      <3>4. AskOK(a) /\ a.pc \in Holding
        BY <1>1, <2>1, <3>3 DEF AskOK, Holding
      <3>5. KeyFree(a, gset.keys) /\ Snapshot(a, gset.keys, sset, reader)
        BY <2>4, <3>3 DEF KeyFree, Snapshot
      <3> QED BY <2>1, <3>1, <3>4, <3>5, AskStep
    <2> QED BY <1>9, <2>2, <2>3, <2>4 DEF LoadGlobal
  <1>10. CASE LoadSandbox(c)
    <2>1. /\ smutex = c /\ smutex' = c /\ ask[c].op = "sandbox" /\ gpol' \in Seq(GRevs)
          /\ UNCHANGED <<gset, sset, boxes, lastBox, reader>>
      BY <1>1, <1>2, <1>10 DEF LoadSandbox, Holding, AskOK
    <2> DEFINE a == [ask[c] EXCEPT !.s = sset[ask[c].id], !.pc = "save"]
    <2>2. ask' = [ask EXCEPT ![c] = a]
      BY <1>10 DEF LoadSandbox, SetInv, AsksTrue
    <2>3. sset[ask[c].id] \in SRecs
      BY <1>1, <2>1 DEF SetInv, StoreTypes, AskOK
    <2>4. /\ a \in Asks /\ a.pc = "save" /\ a.op = ask[c].op /\ a.key = ask[c].key
          /\ a.val = ask[c].val /\ a.id = ask[c].id /\ a.name = ask[c].name /\ a.s = sset[ask[c].id]
      BY <1>1, <2>3 DEF Asks, Holding
    <2> HIDE DEF a
    <2>5. AskOK(a) /\ a.pc \in Holding
      BY <1>1, <2>1, <2>4 DEF AskOK, Holding
    <2>6. gset.keys[ask[c].key] = NoValue
      BY <1>10, <2>1 DEF LoadSandbox, SetInv, AsksTrue, KeyFree
    <2>7. KeyFree(a, gset.keys) /\ Snapshot(a, gset.keys, sset, reader)
      BY <2>4, <2>6 DEF KeyFree, Snapshot
    <2> QED BY <2>1, <2>2, <2>5, <2>7, AskStep
  <1> QED BY <1>3, <1>4, <1>5, <1>6, <1>7, <1>8, <1>9, <1>10

\* The saves, in the critical section: no other handler relies on what is
\* written, and a reader under way gets the new values counted.

LEMMA UpsertValue ==
    ASSUME NEW K, NEW V, NEW k \in K, NEW v \in V, NEW rec, rec.keys \in [K -> V]
    PROVE  LET u == Upsert(rec, k, v)
           IN  \A j \in K : u.keys[j] = IF j = k THEN v ELSE rec.keys[j]
  BY DEF Upsert

LEMMA UpsertGlobal ==
    ASSUME NEW rec \in GRecs, NEW k \in AllKeys, NEW v \in GVals, Upsert(rec, k, v).rev <= MaxSetRev
    PROVE  Upsert(rec, k, v) \in GRecs
  <1>1. CASE rec.keys[k] = v
    BY <1>1 DEF Upsert
  <1>2. CASE rec.keys[k] # v
    <2>1. rec.keys \in GlobalKeys /\ rec.rev \in Nat /\ rec = [keys |-> rec.keys, rev |-> rec.rev]
      BY SettingsAssumption DEF GRecs
    <2> DEFINE ks == [rec.keys EXCEPT ![k] = v]
    <2>2. ks \in GlobalKeys
      BY <2>1 DEF GlobalKeys
    <2>3. Upsert(rec, k, v) = [rec EXCEPT !.keys = ks, !.rev = rec.rev + 1]
      BY <1>2, <2>1 DEF Upsert
    <2> HIDE DEF ks
    <2>4. Upsert(rec, k, v) = [keys |-> ks, rev |-> rec.rev + 1]
      BY <2>1, <2>3
    <2>5. rec.rev + 1 \in 0..MaxSetRev
      BY <2>1, <2>4, SettingsAssumption
    <2> QED BY <2>2, <2>4, <2>5 DEF GRecs
  <1> QED BY <1>1, <1>2

LEMMA UpsertSandbox ==
    ASSUME NEW rec \in SRecs, NEW k \in SetKeys, NEW v \in BVals, NEW n \in SetNames,
           Upsert(rec, k, v).rev <= MaxSetRev
    PROVE  LET u == [Upsert(rec, k, v) EXCEPT !.name = n]
           IN  /\ u \in SRecs
               /\ \A j \in SetKeys : u.keys[j] = IF j = k THEN v ELSE rec.keys[j]
  <1>1. /\ rec.keys \in BoxKeys /\ rec.rev \in Nat
        /\ rec = [name |-> rec.name, keys |-> rec.keys, rev |-> rec.rev]
    <2>1. rec.keys \in BoxKeys /\ rec.rev \in 0..MaxSetRev
      BY DEF SRecs
    <2>2. rec = [name |-> rec.name, keys |-> rec.keys, rev |-> rec.rev]
      BY DEF SRecs
    <2>3. rec.rev \in Nat
      BY <2>1, SettingsBounds
    <2> QED BY <2>1, <2>2, <2>3
  <1>2. CASE rec.keys[k] = v
    <2>1. Upsert(rec, k, v) = rec
      BY <1>2 DEF Upsert
    <2>2. [rec EXCEPT !.name = n] \in SRecs /\ [rec EXCEPT !.name = n].keys = rec.keys
      BY DEF SRecs
    <2> QED BY <1>2, <2>1, <2>2
  <1>3. CASE rec.keys[k] # v
    <2> DEFINE ks == [rec.keys EXCEPT ![k] = v]
    <2>1. ks \in BoxKeys /\ \A j \in SetKeys : ks[j] = IF j = k THEN v ELSE rec.keys[j]
      BY <1>1 DEF BoxKeys
    <2>2. Upsert(rec, k, v) = [rec EXCEPT !.keys = ks, !.rev = rec.rev + 1]
      BY <1>1, <1>3 DEF Upsert
    <2> HIDE DEF ks
    <2>3. Upsert(rec, k, v) = [name |-> rec.name, keys |-> ks, rev |-> rec.rev + 1]
      BY <1>1, <2>2
    <2>4. rec.rev + 1 \in 0..MaxSetRev
      BY <1>1, <2>3, SettingsAssumption
    <2>5. [Upsert(rec, k, v) EXCEPT !.name = n] = [name |-> n, keys |-> ks, rev |-> rec.rev + 1]
      BY <2>3
    <2>6. [name |-> n, keys |-> ks, rev |-> rec.rev + 1] \in SRecs
      BY <2>1, <2>4 DEF SRecs
    <2> QED BY <2>1, <2>5, <2>6
  <1> QED BY <1>2, <1>3

\* A reader after a change of either record, if it is given the values now in
\* force: all that is left to see is that a sandbox value it may still read was.
LEMMA WatchedTrue ==
    ASSUME NEW r \in Reads, NEW gk \in GlobalKeys, NEW ss \in [1..MaxSetIds -> SRecs],
           NEW gn \in GlobalKeys, NEW sn \in [1..MaxSetIds -> SRecs], NEW sk \in BoxKeys,
           ReaderTrue(r, gk, ss), r.id # 0 => sk = sn[r.id].keys,
           r.pc = "sandbox" =>
             \A k \in SetKeys : r.g[k] = NoValue =>
                \/ sn[r.id].keys[k] = ss[r.id].keys[k]
                \/ MergeEffective(gn, sk)[k] = sn[r.id].keys[k]
    PROVE  ReaderTrue(Watched(r, gn, sk), gn, sn)
  <1> DEFINE w == Watched(r, gn, sk)
  <1> SUFFICES ReaderTrue(w, gn, sn)
    OBVIOUS
  <1>1. /\ w \in Reads /\ w.pc = r.pc /\ w.id = r.id /\ w.g = r.g /\ w.got = r.got
        /\ \A k \in SetKeys :
             /\ r.inForce[k] \subseteq w.inForce[k]
             /\ r.pc # "idle" => MergeEffective(gn, sk)[k] \in w.inForce[k]
    BY WatchedAdds
  <1> HIDE DEF w
  <1>2. CASE r.pc = "idle"
    BY <1>1, <1>2 DEF ReaderTrue
  <1>3. CASE r.pc = "global"
    <2>1. r.id \in 1..MaxSetIds /\ sk = sn[r.id].keys
      BY <1>3, SettingsAssumption DEF ReaderTrue
    <2> QED BY <1>1, <1>3, <2>1 DEF ReaderTrue
  <1>4. CASE r.pc = "sandbox"
    <2>1. r.id \in 1..MaxSetIds
      BY <1>4 DEF ReaderTrue
    <2>2. ASSUME NEW k \in SetKeys
          PROVE  IF w.g[k] # NoValue THEN w.g[k] \in w.inForce[k]
                 ELSE sn[w.id].keys[k] \in w.inForce[k]
      <3>1. CASE r.g[k] # NoValue
        BY <1>1, <1>4, <3>1 DEF ReaderTrue
      <3>2. CASE r.g[k] = NoValue
        <4>1. ss[r.id].keys[k] \in r.inForce[k]
          BY <1>4, <3>2 DEF ReaderTrue
        <4> QED BY <1>1, <1>4, <3>2, <4>1
      <3> QED BY <3>1, <3>2
    <2> QED BY <1>1, <1>4, <2>1, <2>2 DEF ReaderTrue
  <1>5. CASE r.pc = "done"
    BY <1>1, <1>5 DEF ReaderTrue
  <1> QED BY <1>2, <1>3, <1>4, <1>5 DEF Reads

LEMMA SaveGlobalStep ==
    ASSUME SetInv, NEW c \in SetCallers, SaveGlobalSettings(c)
    PROVE  SetInv'
  <1> DEFINE rec == Upsert(ask[c].g, ask[c].key, ask[c].val)
             sk == IF reader.id = 0 THEN NoRecord.keys ELSE sset[reader.id].keys
  <1>1. /\ ask[c].pc = "save" /\ ask[c].op # "sandbox" /\ rec.rev <= MaxSetRev /\ Answer(c)
        /\ \/ gset' = rec /\ reader' = Watched(reader, rec.keys, sk)
           \/ gset' = gset /\ reader' = reader
        /\ gpol' = gpol \/ gpol' = Supersede(Len(gpol))
        /\ UNCHANGED <<sset, boxes, lastBox>>
    BY DEF SaveGlobalSettings, SaveGlobal
  <1>2. AskOK(ask[c]) /\ ask[c] \in Asks /\ "save" \in Holding
    BY DEF SetInv, AsksTrue, Holding
  <1>3. ask[c].g \in GRecs /\ ask[c].key \in AllKeys /\ ask[c].val \in GVals
    <2>1. ask[c].op \in {"global", "policy"} /\ ask[c].g \in GRecs /\ ask[c].key \in AllKeys
      BY <1>1, <1>2 DEF AskOK, Asks
    <2> QED BY <1>2, <2>1 DEF AskOK, GVals
  <1>4. rec \in GRecs
    BY <1>1, <1>3, UpsertGlobal
  <1>5. AsksTrue' /\ smutex' = NoCaller
    BY <1>1, <1>2, ReleaseStep
  <1>6. /\ gset \in GRecs /\ gset.keys \in GlobalKeys /\ rec.keys \in GlobalKeys
        /\ sset \in [1..MaxSetIds -> SRecs] /\ gpol \in Seq(GRevs) /\ Len(gpol) \in Int
    BY <1>4 DEF SetInv, StoreTypes, GRecs
  <1>7. gpol' \in Seq(GRevs)
    BY <1>1, <1>6, RevisionsKept DEF Supersede
  <1> HIDE DEF rec
  <1>8. StoreTypes'
    BY <1>1, <1>4, <1>5, <1>7 DEF SetInv, StoreTypes
  <1>9. ReaderTrue(reader, gset.keys, sset) /\ reader \in Reads
    BY DEF SetInv, ReaderTrue
  <1>10. reader.id \in 0..MaxSetIds
    BY <1>9 DEF Reads
  <1>11. sk \in BoxKeys /\ (reader.id # 0 => sk = sset[reader.id].keys)
    <2>1. CASE reader.id = 0
      BY <2>1, EmptyTypes
    <2>2. CASE reader.id # 0
      <3>1. reader.id \in 1..MaxSetIds
        BY <1>10, <2>2, SettingsBounds
      <3>2. sset[reader.id] \in SRecs
        BY <1>6, <3>1
      <3> QED BY <2>2, <3>2 DEF SRecs
    <2> QED BY <2>1, <2>2
  <1> HIDE DEF sk
  <1>12. ReaderTrue(Watched(reader, rec.keys, sk), rec.keys, sset)
    BY <1>6, <1>9, <1>11, WatchedTrue
  <1>13. ReaderTrue(reader', gset'.keys, sset')
    BY <1>1, <1>9, <1>12
  <1> QED BY <1>5, <1>8, <1>13 DEF SetInv

\* Of the saved record, one key changes, and it is not managed globally; the
\* other keys are those of the store, or the reader has seen this global record.
LEMMA SaveSandboxStep ==
    ASSUME SetInv, NEW c \in SetCallers, SaveSandboxSettings(c)
    PROVE  SetInv'
  <1> DEFINE a == ask[c]
             u == Upsert(a.s, a.key, a.val)
             rec == [u EXCEPT !.name = a.name]
  <1>1. /\ a.pc = "save" /\ a.op = "sandbox" /\ rec.rev <= MaxSetRev /\ Answer(c)
        /\ \/ /\ sset' = [sset EXCEPT ![a.id] = rec]
              /\ reader' = IF reader.id = a.id THEN Watched(reader, gset.keys, rec.keys) ELSE reader
           \/ sset' = sset /\ reader' = reader
        /\ UNCHANGED <<gset, boxes, lastBox, gpol>>
    BY DEF SaveSandboxSettings, SaveSandbox
  <1>2. /\ AskOK(a) /\ a \in Asks /\ "save" \in Holding
        /\ KeyFree(a, gset.keys) /\ Snapshot(a, gset.keys, sset, reader)
    BY DEF SetInv, AsksTrue, Holding
  <1>3. /\ a.s \in SRecs /\ a.key \in SetKeys /\ a.val \in BVals /\ a.name \in SetNames
        /\ a.id \in 1..MaxSetIds
    BY <1>1, <1>2 DEF AskOK, Asks
  <1>4. gset.keys[a.key] = NoValue
    BY <1>1, <1>2 DEF KeyFree
  <1>5. a.s = sset[a.id] \/ (reader.pc = "sandbox" /\ reader.id = a.id => reader.g = gset.keys)
    BY <1>1, <1>2 DEF Snapshot
  <1>6. AsksTrue' /\ smutex' = NoCaller
    BY <1>1, <1>2, ReleaseStep
  <1> HIDE DEF a
  <1>7. u.rev <= MaxSetRev
    <2>1. rec.rev = u.rev
      <3>1. CASE a.s.keys[a.key] = a.val
        BY <1>3, <3>1 DEF Upsert, SRecs
      <3>2. CASE a.s.keys[a.key] # a.val
        BY <1>3, <3>2 DEF Upsert, SRecs
      <3> QED BY <3>1, <3>2
    <2> QED BY <1>1, <2>1
  <1>8. /\ rec \in SRecs
        /\ \A j \in SetKeys : rec.keys[j] = IF j = a.key THEN a.val ELSE a.s.keys[j]
    BY <1>3, <1>7, UpsertSandbox
  <1> HIDE DEF rec, u
  <1>9. /\ gset.keys \in GlobalKeys /\ sset \in [1..MaxSetIds -> SRecs] /\ rec.keys \in BoxKeys
        /\ ReaderTrue(reader, gset.keys, sset) /\ reader \in Reads
    BY <1>8 DEF SetInv, StoreTypes, GRecs, SRecs, ReaderTrue
  <1>10. sset' \in [1..MaxSetIds -> SRecs]
    BY <1>1, <1>3, <1>8, <1>9
  <1>11. StoreTypes'
    BY <1>1, <1>6, <1>10 DEF SetInv, StoreTypes
  <1>12. ReaderTrue(reader', gset.keys, sset')
    <2>1. CASE sset' = sset /\ reader' = reader
      BY <1>9, <2>1
    <2>2. CASE /\ sset' = [sset EXCEPT ![a.id] = rec] /\ reader.id # a.id /\ reader' = reader
      <3>1. \A i \in 1..MaxSetIds : i # a.id => sset'[i] = sset[i]
        BY <1>9, <2>2
      <3>2. /\ reader.pc \in {"global", "sandbox"} => reader.id \in 1..MaxSetIds
        BY <1>9 DEF ReaderTrue
      <3> QED BY <1>9, <2>2, <3>1, <3>2 DEF ReaderTrue
    <2>3. CASE /\ sset' = [sset EXCEPT ![a.id] = rec] /\ reader.id = a.id
               /\ reader' = Watched(reader, gset.keys, rec.keys)
      <3> DEFINE sn == [sset EXCEPT ![a.id] = rec]
      <3>1. sn[a.id] = rec /\ sn \in [1..MaxSetIds -> SRecs]
        BY <1>3, <1>9, <1>10, <2>3
      <3> HIDE DEF sn
      <3>2. ASSUME reader.pc = "sandbox", NEW k \in SetKeys, reader.g[k] = NoValue
            PROVE  \/ sn[reader.id].keys[k] = sset[reader.id].keys[k]
                   \/ MergeEffective(gset.keys, rec.keys)[k] = sn[reader.id].keys[k]
        <4>1. sn[reader.id].keys[k] = rec.keys[k]
          BY <2>3, <3>1
        <4>2. gset.keys[k] = NoValue => MergeEffective(gset.keys, rec.keys)[k] = rec.keys[k]
          BY <1>9, MergeValue
        <4>3. CASE k = a.key
          BY <1>4, <4>1, <4>2, <4>3
        <4>4. CASE k # a.key /\ a.s = sset[a.id]
          BY <1>8, <2>3, <4>1, <4>4
        <4>5. CASE reader.g = gset.keys
          BY <3>2, <4>1, <4>2, <4>5
        <4> QED BY <1>5, <2>3, <3>2, <4>3, <4>4, <4>5
      <3>3. ReaderTrue(Watched(reader, gset.keys, rec.keys), gset.keys, sn)
        BY <1>9, <2>3, <3>1, <3>2, WatchedTrue
      <3> QED BY <2>3, <3>3 DEF sn
    <2> QED BY <1>1, <2>1, <2>2, <2>3
  <1>13. ReaderTrue(reader', gset'.keys, sset')
    BY <1>1, <1>12
  <1> QED BY <1>6, <1>11, <1>13 DEF SetInv

\* Sandboxes come and go
LEMMA SandboxStep ==
    ASSUME SetInv, NEW n \in SetNames, CreateSandbox(n) \/ DeleteSettings(n) \/ SandboxGone(n)
    PROVE  SetInv'
  <1>1. /\ sset \in [1..MaxSetIds -> SRecs] /\ lastBox \in 0..MaxSetIds
        /\ boxes \in [SetNames -> 0..lastBox] /\ ReaderTrue(reader, gset.keys, sset)
        /\ reader \in Reads /\ lastBox \in Nat
    BY SettingsBounds DEF SetInv, StoreTypes, ReaderTrue
  <1>2. \A c \in SetCallers : Snapshot(ask[c], gset.keys, sset, reader)
    BY DEF SetInv, AsksTrue
  <1>3. CASE CreateSandbox(n)
    <2>1. lastBox' \in 0..MaxSetIds /\ lastBox' = lastBox + 1
      BY <1>1, <1>3, SettingsBounds DEF CreateSandbox
    <2>2. \A i \in 0..lastBox : i \in 0..(lastBox + 1)
      BY <1>1
    <2>3. boxes' \in [SetNames -> 0..lastBox']
      BY <1>1, <1>3, <2>1, <2>2 DEF CreateSandbox
    <2>4. UNCHANGED <<gset, sset, gpol, smutex, ask, reader>>
      BY <1>3 DEF CreateSandbox
    <2> QED BY <1>1, <1>2, <2>1, <2>3, <2>4, ReadStep
  <1>4. CASE SandboxGone(n)
    <2>1. boxes' \in [SetNames -> 0..lastBox]
      BY <1>1, <1>4 DEF SandboxGone
    <2>2. UNCHANGED <<gset, sset, lastBox, gpol, smutex, ask, reader>>
      BY <1>4 DEF SandboxGone
    <2> QED BY <1>1, <1>2, <2>1, <2>2, ReadStep
  <1>5. CASE DeleteSettings(n)
    <2> DEFINE b == boxes[n]
               ss == [sset EXCEPT ![b] = NoRecord]
               r == IF reader.id = b THEN NoReader ELSE reader
    <2>1. b \in 1..MaxSetIds /\ sset' = ss /\ reader' = r
      BY <1>5, BoxIds DEF DeleteSettings
    <2>2. NoRecord \in SRecs /\ NoReader.pc = "idle"
      BY EmptyTypes
    <2> HIDE DEF b
    <2>3. ss \in [1..MaxSetIds -> SRecs] /\ \A i \in 1..MaxSetIds : i # b => ss[i] = sset[i]
      BY <1>1, <2>1, <2>2
    <2> HIDE DEF ss
    <2>4. ReaderTrue(r, gset.keys, ss)
      <3>1. CASE reader.id = b
        BY <3>1, ResetReader
      <3>2. CASE reader.id # b
        BY <1>1, <2>3, <3>2 DEF ReaderTrue
      <3> QED BY <3>1, <3>2
    <2>5. ASSUME NEW c \in SetCallers
          PROVE  Snapshot(ask[c], gset.keys, ss, r)
      <3>1. AskOK(ask[c]) /\ Snapshot(ask[c], gset.keys, sset, reader)
        BY DEF SetInv, AsksTrue
      <3>2. CASE reader.id = b
        BY <3>2, ResetReader
      <3>3. CASE reader.id # b
        BY <2>3, <3>1, <3>3 DEF Snapshot, AskOK
      <3> QED BY <3>2, <3>3
    <2>6. UNCHANGED <<gset, boxes, lastBox, gpol, smutex, ask>>
      BY <1>5 DEF DeleteSettings
    <2> HIDE DEF r
    <2> QED BY <1>1, <2>1, <2>3, <2>4, <2>5, <2>6, ReadStep
  <1> QED BY <1>3, <1>4, <1>5

LEMMA RestartStep ==
    ASSUME SetInv, Restart
    PROVE  SetInv'
  <1>1. /\ ask' = [c \in SetCallers |-> NoAsk] /\ smutex' = NoCaller /\ reader' = NoReader
        /\ UNCHANGED <<gset, sset, boxes, lastBox, gpol>>
    BY DEF Restart
  <1>2. StoreTypes'
    BY <1>1 DEF SetInv, StoreTypes
  <1>3. NoAsk \in Asks /\ AskOK(NoAsk) /\ NoAsk.pc = "idle" /\ NoAsk.pc \notin Holding
    BY EmptyTypes DEF Holding
  <1>4. \A c \in SetCallers :
           /\ AskOK(ask'[c])
           /\ ask'[c].pc \in Holding => smutex' = c
           /\ KeyFree(ask'[c], gset'.keys)
           /\ Snapshot(ask'[c], gset'.keys, sset', reader')
    BY <1>1, <1>3 DEF KeyFree, Snapshot
  <1>5. ask' \in [SetCallers -> Asks]
    BY <1>1, <1>3
  <1>6. ReaderTrue(reader', gset'.keys, sset')
    BY <1>1, ResetReader
  <1> QED BY <1>2, <1>4, <1>5, <1>6 DEF SetInv, AsksTrue

\* The two loads of a read
LEMMA ReaderStep ==
    ASSUME SetInv,
           \/ \E n \in SetNames : ConfigBegin(n)
           \/ ConfigGlobal \/ ConfigSandbox \/ GatewayConfig \/ ConfigReturned
    PROVE  SetInv'
  <1>1. /\ gset.keys \in GlobalKeys /\ sset \in [1..MaxSetIds -> SRecs]
        /\ lastBox \in 0..MaxSetIds /\ boxes \in [SetNames -> 0..lastBox]
        /\ ReaderTrue(reader, gset.keys, sset) /\ reader \in Reads
    BY DEF SetInv, StoreTypes, GRecs, ReaderTrue
  <1>2. UNCHANGED <<gset, sset, boxes, lastBox, gpol, smutex, ask>>
    BY DEF ConfigBegin, ConfigGlobal, ConfigSandbox, GatewayConfig, ConfigReturned
  <1>3. \A i \in 1..MaxSetIds : sset[i].keys \in BoxKeys
    BY <1>1 DEF SRecs
  <1>4. \A c \in SetCallers : Snapshot(ask[c], gset.keys, sset, reader)
    BY DEF SetInv, AsksTrue
  <1>5. NoReader \in Reads /\ NoReader.pc = "idle" /\ NoReader.id = 0
    BY EmptyTypes
  <1>6. SUFFICES /\ ReaderTrue(reader', gset.keys, sset)
                 /\ \A c \in SetCallers : Snapshot(ask[c], gset.keys, sset, reader')
    BY <1>1, <1>2, ReadStep
  <1>7. CASE \E n \in SetNames : ConfigBegin(n)
    <2>1. PICK n \in SetNames : ConfigBegin(n)
      BY <1>7
    <2> DEFINE b == boxes[n]
               m == MergeEffective(gset.keys, sset[b].keys)
               f == [k \in SetKeys |-> {m[k]}]
               r == [NoReader EXCEPT !.pc = "global", !.id = b, !.inForce = f]
    <2>2. b \in 1..MaxSetIds /\ reader' = r
      BY <2>1, BoxIds DEF ConfigBegin
    <2> HIDE DEF b
    <2>3. \A k \in SetKeys : m[k] \in GVals \cup BVals
      BY <1>1, <1>3, <2>2, MergeValue
    <2> HIDE DEF m
    <2>4. f \in [SetKeys -> SUBSET (GVals \cup BVals)] /\ \A k \in SetKeys : f[k] = {m[k]}
      BY <2>3
    <2> HIDE DEF f
    <2>5. b \in 0..MaxSetIds
      BY <2>2, SettingsBounds
    <2>6. r \in Reads /\ r.pc = "global" /\ r.id = b /\ r.inForce = f
      BY <1>5, <2>4, <2>5 DEF Reads
    <2> HIDE DEF r
    <2>7. ReaderTrue(r, gset.keys, sset)
      BY <2>2, <2>4, <2>6 DEF ReaderTrue, m
    <2> QED BY <2>2, <2>6, <2>7 DEF Snapshot
  <1>8. CASE ConfigGlobal
    <2> DEFINE r == [reader EXCEPT !.pc = "sandbox", !.g = gset.keys]
    <2>1. reader' = r /\ reader.pc = "global"
      BY <1>8 DEF ConfigGlobal
    <2>2. r \in Reads /\ r.pc = "sandbox" /\ r.id = reader.id /\ r.g = gset.keys /\ r.inForce = reader.inForce
      BY <1>1 DEF Reads
    <2> HIDE DEF r
    <2>3. reader.id \in 1..MaxSetIds
      BY <1>1, <2>1 DEF ReaderTrue
    <2>4. ASSUME NEW k \in SetKeys
          PROVE  IF gset.keys[k] # NoValue THEN gset.keys[k] \in reader.inForce[k]
                 ELSE sset[reader.id].keys[k] \in reader.inForce[k]
      <3>1. MergeEffective(gset.keys, sset[reader.id].keys)[k] \in reader.inForce[k]
        BY <1>1, <2>1 DEF ReaderTrue
      <3> QED BY <1>1, <1>3, <2>3, <3>1, MergeValue
    <2>5. ReaderTrue(r, gset.keys, sset)
      BY <2>2, <2>3, <2>4 DEF ReaderTrue
    <2> QED BY <2>1, <2>2, <2>5 DEF Snapshot
  <1>9. CASE ConfigSandbox
    <2> DEFINE m == MergeEffective(reader.g, sset[reader.id].keys)
               r == [reader EXCEPT !.pc = "done", !.g = NoReader.g, !.got = m]
    <2>1. reader' = r /\ reader.pc = "sandbox"
      BY <1>9 DEF ConfigSandbox
    <2>2. reader.id \in 1..MaxSetIds /\ reader.g \in GlobalKeys /\ NoReader.g \in GlobalKeys
      BY <1>1, <1>5, <2>1 DEF ReaderTrue, Reads
    <2>3. \A k \in SetKeys : /\ m[k] \in GVals \cup BVals
                             /\ m[k] = IF reader.g[k] # NoValue THEN reader.g[k]
                                       ELSE sset[reader.id].keys[k]
      BY <1>3, <2>2, MergeValue
    <2>4. m \in [SetKeys -> GVals \cup BVals]
      BY <2>3 DEF MergeEffective
    <2> HIDE DEF m
    <2>5. r \in Reads /\ r.pc = "done" /\ r.got = m /\ r.inForce = reader.inForce
      BY <1>1, <2>2, <2>4 DEF Reads
    <2> HIDE DEF r
    <2>6. \A k \in SetKeys : m[k] \in reader.inForce[k]
      BY <1>1, <2>1, <2>3 DEF ReaderTrue
    <2>7. ReaderTrue(r, gset.keys, sset)
      BY <2>5, <2>6 DEF ReaderTrue
    <2> QED BY <2>1, <2>5, <2>7 DEF Snapshot
  <1>10. CASE GatewayConfig
    <2> DEFINE g == MaterializeGlobal(gset.keys)
               f == [k \in SetKeys |-> {gset.keys[k]}]
               r == [NoReader EXCEPT !.pc = "done", !.got = g, !.inForce = f]
    <2>1. reader' = r
      BY <1>10 DEF GatewayConfig
    <2>2. \A k \in SetKeys : gset.keys[k] \in GVals \cup BVals
      BY <1>1 DEF GlobalKeys, AllKeys
    <2>3. /\ g \in [SetKeys -> GVals \cup BVals] /\ f \in [SetKeys -> SUBSET (GVals \cup BVals)]
          /\ \A k \in SetKeys : g[k] \in f[k]
      BY <2>2 DEF MaterializeGlobal
    <2> HIDE DEF g, f
    <2>4. r \in Reads /\ r.pc = "done" /\ r.got = g /\ r.inForce = f
      BY <1>5, <2>3 DEF Reads
    <2> HIDE DEF r
    <2>5. ReaderTrue(r, gset.keys, sset)
      BY <2>3, <2>4 DEF ReaderTrue
    <2> QED BY <2>1, <2>4, <2>5 DEF Snapshot
  <1>11. CASE ConfigReturned
    BY <1>11, ResetReader DEF ConfigReturned
  <1> QED BY <1>7, <1>8, <1>9, <1>10, <1>11

\* However UpdateConfig, DeleteSandbox and GetSandboxConfig interleave, and
\* wherever a store call fails or the gateway restarts, the records are well
\* formed and each value GetSandboxConfig and GetGatewayConfig return was the
\* key's value in force at some moment of that call.
THEOREM SettingsWereInForce == SetSpec => []SettingsSound
  <1>1. SetInit => SetInv
    <2> SUFFICES ASSUME SetInit PROVE SetInv
      OBVIOUS
    <2> DEFINE g == [k \in AllKeys |-> NoValue]
    <2>1. NoRecord \in SRecs /\ NoAsk \in Asks /\ AskOK(NoAsk) /\ NoAsk.pc = "idle" /\ g \in GlobalKeys
      BY EmptyTypes
    <2>2. /\ gset = [keys |-> g, rev |-> 0] /\ sset = [i \in 1..MaxSetIds |-> NoRecord]
          /\ boxes = [n \in SetNames |-> 0] /\ lastBox = 0 /\ gpol = <<>> /\ smutex = NoCaller
          /\ ask = [c \in SetCallers |-> NoAsk] /\ reader = NoReader
      BY DEF SetInit
    <2> HIDE DEF g
    <2>3. gset \in GRecs
      <3>1. 0 \in 0..MaxSetRev
        BY SettingsBounds
      <3> QED BY <2>1, <2>2, <3>1 DEF GRecs
    <2>4. StoreTypes
      BY <2>1, <2>2, <2>3, SettingsBounds DEF StoreTypes
    <2>5. AsksTrue
      BY <2>1, <2>2 DEF AsksTrue, KeyFree, Snapshot, Holding
    <2> QED BY <2>2, <2>4, <2>5, ResetReader DEF SetInv
  <1>2. SetInv /\ [SetNext]_setVars => SetInv'
    <2> SUFFICES ASSUME SetInv, [SetNext]_setVars PROVE SetInv'
      OBVIOUS
    <2>1. CASE UNCHANGED setVars
      BY <2>1 DEF setVars, SetInv, StoreTypes, AsksTrue
    <2>2. CASE SetNext
      BY <2>2, CommandStep, HandlerStep, SaveGlobalStep, SaveSandboxStep, SandboxStep, RestartStep,
         ReaderStep DEF SetNext
    <2> QED BY <2>1, <2>2
  <1>3. SetInv => SettingsSound
    <2> SUFFICES ASSUME SetInv PROVE SetTypeOK /\ EffectiveWasInForce
      BY DEF SettingsSound
    <2>1. gset.rev \in 0..MaxSetRev /\ \A k \in AllKeys : gset.keys[k] \in GVals
      BY DEF SetInv, StoreTypes, GRecs, GlobalKeys
    <2>2. \A i \in DOMAIN sset : sset[i].rev \in 0..MaxSetRev /\ sset[i].name \in SetNames \cup {""}
      BY DEF SetInv, StoreTypes, SRecs
    <2>3. /\ \A n \in SetNames : boxes[n] \in 0..lastBox
          /\ smutex \in SetCallers \cup {NoCaller}
      BY DEF SetInv, StoreTypes
    <2>4. \A i \in DOMAIN gpol : gpol[i].status \in {"pending", "loaded", "superseded"}
      <3>1. \A i \in DOMAIN gpol : gpol[i] \in GRevs
        BY DEF SetInv, StoreTypes
      <3> QED BY <3>1 DEF GRevs
    <2>5. SetTypeOK
      BY <2>1, <2>2, <2>3, <2>4 DEF SetTypeOK, GVals
    <2>6. EffectiveWasInForce
      BY DEF SetInv, ReaderTrue, EffectiveWasInForce
    <2> QED BY <2>5, <2>6
  <1> QED BY <1>1, <1>2, <1>3, PTL DEF SetSpec

-----------------------------------------------------------------------------
(* ExecSession: one request, its transport, and the command's process.     *)

Codes == ExitCodes \cup {0, 1}
BeforeSend == {"idle", "proxy", "connect", "auth", "channel", "send"}
ExecPcs == BeforeSend \cup {"stdin", "wait", "join", "done"}
ReqRecs ==
    [pc : ExecPcs, attempt : 0..(ExecAttempts - 1), tty : BOOLEAN, timed : BOOLEAN,
     seen : {<<>>} \cup {<<k>> : k \in Codes}, got : Nat,
     final : {"none", "err", "exit", "timeout"}, code : Codes \cup {124}]
Msgs == [kind : {"data", "exit", "close"}, code : Codes]
ChildRecs ==
    [st : {"none", "running", "zombie", "reaped", "over"}, code : Codes, managed : BOOLEAN, held : BOOLEAN]
PipeRecs == [wrote : 0..MaxChunks, read : 0..MaxChunks, done : BOOLEAN]
Pipes == [Streams -> PipeRecs]
ExiterRecs == [pc : {"none", "wait", "readers", "report"}, code : Codes]

\* Data messages, and after the first e of them k others: exit status and close,
\* or the close alone at the head.
Shape(w, k, e) ==
    /\ k \in 0..2 /\ e \in Nat /\ e + k <= Len(w)
    /\ k = 0 => e = 0
    /\ k = 1 => e = 0 /\ w[1].kind = "close"
    /\ k = 2 => w[e + 1].kind = "exit" /\ w[e + 2].kind = "close"
    /\ \A i \in 1..Len(w) : i <= e \/ e + k < i => w[i].kind = "data"

Total(p) == p["stdout"].read + p["stderr"].read
Reported(n, x) == n = 1 /\ x.pc = "none"

\* Every chunk that was read and not received is on its way or lost, and none is
\* lost while the connection holds; nothing follows the close of a channel whose
\* readers have all ended.
Flow(r, w, p, rep, h) ==
    \E k \in 0..2, e \in Nat :
        /\ Shape(w, k, e)
        /\ k > 0 => rep
        /\ k > 0 /\ ~h => e + k = Len(w)
        /\ r.got + Len(w) <= Total(p) + k
        /\ r.pc \in {"stdin", "wait"} /\ ~h => r.got + Len(w) = Total(p) + k

ExecTypes ==
    /\ req \in ReqRecs /\ conn \in {"none", "up", "down"} /\ wire \in Seq(Msgs)
    /\ child \in ChildRecs /\ pipe \in Pipes /\ exiter \in ExiterRecs
    /\ asked \in BOOLEAN /\ starts \in {0, 1} /\ hurt \in BOOLEAN
    /\ fwd \in {"none", "connecting", "open", "closed"}

\* Until the command is handed over nothing has happened in the sandbox, and it
\* is handed over once.
Phases ==
    /\ req.pc \in BeforeSend => ~asked /\ starts = 0
    /\ asked => starts = 0
    /\ starts = 0 => /\ exiter.pc = "none" /\ child.st = "none" /\ ~child.held /\ pipe = EmptyPipe
                     /\ wire = <<>> /\ req.got = 0
    /\ req.pc \in {"stdin", "wait"} /\ ~hurt => conn = "up"
    /\ req.pc # "done" => req.final = "none"

ReadersOf(tty) == IF tty THEN {"stdout"} ELSE Streams
Drained(tty, p) == \A s \in ReadersOf(tty) : p[s].done

PipesTrue(tty, p, st, x, n, h) ==
    /\ \A s \in Streams : /\ p[s].read <= p[s].wrote
                          /\ p[s].done => p[s].read = p[s].wrote /\ st \in {"zombie", "reaped", "over"}
                          /\ s \notin ReadersOf(tty) => p[s].wrote = 0
    /\ (x.pc = "report" \/ Reported(n, x)) /\ ~h => Drained(tty, p)

\* An exit event that is to be trusted follows the report and all of the output.
OverTrue(r, p, rep, h) ==
    (r.pc = "join" \/ r.final = "exit") /\ ~h => rep /\ r.got = Total(p)

ExecInv ==
    /\ ExecTypes /\ Phases
    /\ PipesTrue(req.tty, pipe, child.st, exiter, starts, hurt)
    /\ OverTrue(req, pipe, Reported(starts, exiter), hurt)
    /\ Flow(req, wire, pipe, Reported(starts, exiter), hurt)

\* Messages
LEMMA ShapeData ==
    ASSUME NEW w \in Seq(Msgs), NEW k \in 0..2, NEW e \in Nat, Shape(w, k, e), NEW m \in Msgs,
           m.kind = "data"
    PROVE  Shape(Append(w, m), k, e) /\ Len(Append(w, m)) = Len(w) + 1
  <1> DEFINE v == Append(w, m)
  <1>1. /\ Len(w) \in Nat /\ Len(v) = Len(w) + 1 /\ v[Len(w) + 1] = m
        /\ \A i \in 1..Len(w) : v[i] = w[i]
    OBVIOUS
  <1> HIDE DEF v
  <1>2. e + k <= Len(v) /\ e + k <= Len(w)
    BY <1>1 DEF Shape
  <1>3. ASSUME NEW i \in 1..Len(v), i <= e \/ e + k < i
        PROVE  v[i].kind = "data"
    <2>1. CASE i = Len(w) + 1
      BY <1>1, <2>1
    <2>2. CASE i # Len(w) + 1
      <3>1. i \in 1..Len(w)
        BY <1>1, <2>2
      <3> QED BY <1>1, <1>3, <3>1 DEF Shape
    <2> QED BY <2>1, <2>2
  <1>4. k = 1 => 1 \in 1..Len(w)
    BY <1>1, <1>2
  <1>5. k = 2 => e + 1 \in 1..Len(w) /\ e + 2 \in 1..Len(w)
    BY <1>1, <1>2
  <1>6. Shape(v, k, e)
    BY <1>1, <1>2, <1>3, <1>4, <1>5 DEF Shape
  <1> QED BY <1>1, <1>6 DEF v

LEMMA ShapeReport ==
    ASSUME NEW w \in Seq(Msgs), NEW e \in Nat, Shape(w, 0, e), NEW x \in Msgs, NEW y \in Msgs,
           x.kind = "exit", y.kind = "close"
    PROVE  /\ Shape(w \o <<x, y>>, 2, Len(w)) /\ Len(w \o <<x, y>>) = Len(w) + 2
           /\ w \o <<x, y>> \in Seq(Msgs)
  <1> DEFINE v == w \o <<x, y>>
  <1>1. <<x, y>> \in Seq(Msgs) /\ Len(<<x, y>>) = 2 /\ <<x, y>>[1] = x /\ <<x, y>>[2] = y
    OBVIOUS
  <1>2. /\ v \in Seq(Msgs) /\ Len(w) \in Nat /\ Len(v) = Len(w) + 2
        /\ v[Len(w) + 1] = x /\ v[Len(w) + 2] = y
        /\ \A i \in 1..Len(w) : v[i] = w[i]
    BY <1>1, ConcatProperties
  <1> HIDE DEF v
  <1>3. ASSUME NEW i \in 1..Len(v), i <= Len(w) \/ Len(w) + 2 < i
        PROVE  v[i].kind = "data"
    <2>1. i \in 1..Len(w)
      BY <1>2, <1>3
    <2>2. e = 0 /\ e + 0 < i
      BY <2>1 DEF Shape
    <2> QED BY <1>2, <2>1, <2>2 DEF Shape
  <1>4. Shape(v, 2, Len(w))
    BY <1>2, <1>3 DEF Shape
  <1> QED BY <1>2, <1>4 DEF v

\* What is received is the next chunk, the status, or the close that follows it.
LEMMA ShapeTail ==
    ASSUME NEW w \in Seq(Msgs), w # <<>>, NEW k \in 0..2, NEW e \in Nat, Shape(w, k, e)
    PROVE  /\ Head(w) \in Msgs /\ Tail(w) \in Seq(Msgs) /\ Len(Tail(w)) = Len(w) - 1 /\ Len(w) \in Nat
           /\ \/ Head(w).kind = "data" /\ k = 0 /\ Shape(Tail(w), 0, 0)
              \/ Head(w).kind = "data" /\ k = 2 /\ e - 1 \in Nat /\ Shape(Tail(w), 2, e - 1)
              \/ Head(w).kind = "exit" /\ k = 2 /\ e = 0 /\ Shape(Tail(w), 1, 0)
              \/ Head(w).kind = "close" /\ k = 1 /\ e = 0 /\ Shape(Tail(w), 0, 0)
  <1> DEFINE v == Tail(w)
  <1>1. /\ Head(w) = w[1] /\ w[1] \in Msgs /\ v \in Seq(Msgs) /\ Len(w) \in Nat /\ Len(w) >= 1
        /\ Len(v) = Len(w) - 1 /\ \A i \in 1..Len(v) : v[i] = w[i + 1]
    <2>1. Len(w) \in Nat /\ Len(w) >= 1
      OBVIOUS
    <2> QED BY <2>1
  <1> HIDE DEF v
  <1>2. CASE k = 0
    <2>1. e = 0 /\ w[1].kind = "data"
      BY <1>1, <1>2 DEF Shape
    <2>2. \A i \in 1..Len(v) : v[i].kind = "data"
      BY <1>1, <1>2, <2>1 DEF Shape
    <2>3. Shape(v, 0, 0)
      BY <1>1, <2>2 DEF Shape
    <2> QED BY <1>1, <1>2, <2>1, <2>3 DEF v
  <1>3. CASE k = 1
    <2>1. e = 0 /\ w[1].kind = "close"
      BY <1>3 DEF Shape
    <2>2. \A i \in 1..Len(v) : v[i].kind = "data"
      BY <1>1, <1>3, <2>1 DEF Shape
    <2>3. Shape(v, 0, 0)
      BY <1>1, <2>2 DEF Shape
    <2> QED BY <1>1, <1>3, <2>1, <2>3 DEF v
  <1>4. CASE k = 2 /\ e = 0
    <2>1. w[1].kind = "exit" /\ w[2].kind = "close" /\ Len(w) >= 2
      BY <1>1, <1>4 DEF Shape
    <2>2. 1 \in 1..Len(v) /\ v[1].kind = "close"
      BY <1>1, <2>1
    <2>3. \A i \in 1..Len(v) : 1 < i => v[i].kind = "data"
      BY <1>1, <1>4 DEF Shape
    <2>4. Shape(v, 1, 0)
      BY <1>1, <2>2, <2>3 DEF Shape
    <2> QED BY <1>1, <1>4, <2>1, <2>4 DEF v
  <1>5. CASE k = 2 /\ e # 0
    <2>1. e - 1 \in Nat /\ e + 2 <= Len(w) /\ w[1].kind = "data"
      BY <1>1, <1>5 DEF Shape
    <2>2. v[e].kind = "exit" /\ v[e + 1].kind = "close"
      BY <1>1, <1>5, <2>1 DEF Shape
    <2>3. \A i \in 1..Len(v) : i <= e - 1 \/ e + 1 < i => v[i].kind = "data"
      BY <1>1, <1>5, <2>1 DEF Shape
    <2>4. Shape(v, 2, e - 1)
      <3>1. (e - 1) + 1 = e /\ (e - 1) + 2 = e + 1 /\ (e - 1) + 2 <= Len(v)
        BY <1>1, <2>1
      <3> QED BY <1>1, <2>1, <2>2, <2>3, <3>1 DEF Shape
    <2> QED BY <1>1, <1>5, <2>1, <2>4 DEF v
  <1> QED BY <1>2, <1>3, <1>4, <1>5

LEMMA ShapeEmpty == Shape(<<>>, 0, 0) /\ \A k, e : Shape(<<>>, k, e) => k = 0
  BY DEF Shape

LEMMA EmptyStart ==
    /\ EmptyPipe \in Pipes /\ Total(EmptyPipe) = 0 /\ NoReq \in ReqRecs /\ NoChild \in ChildRecs
    /\ \A s \in Streams : EmptyPipe[s].wrote = 0 /\ EmptyPipe[s].read = 0 /\ ~EmptyPipe[s].done
    /\ "stdout" \in Streams /\ "stderr" \in Streams
  <1>1. "stdout" \in Streams /\ "stderr" \in Streams
    BY DEF Streams
  <1>2. \A s \in Streams : EmptyPipe[s] = [wrote |-> 0, read |-> 0, done |-> FALSE]
    BY DEF EmptyPipe
  <1>3. [wrote |-> 0, read |-> 0, done |-> FALSE] \in PipeRecs
    BY ExecAssumption DEF PipeRecs
  <1>4. EmptyPipe \in Pipes
    BY <1>3 DEF EmptyPipe, Pipes, PipeRecs
  <1>5. Total(EmptyPipe) = 0
    BY <1>1, <1>2 DEF Total
  <1>6. 0 \in 0..(ExecAttempts - 1) /\ 0 \in Codes
    BY ExecAssumption DEF Codes
  <1>7. NoReq \in ReqRecs
    BY <1>6 DEF NoReq, ReqRecs, ExecPcs, BeforeSend
  <1>8. NoChild \in ChildRecs
    BY <1>6 DEF NoChild, ChildRecs
  <1> QED BY <1>1, <1>2, <1>4, <1>5, <1>7, <1>8

LEMMA TotalBound ==
    ASSUME NEW p \in Pipes
    PROVE  /\ Total(p) \in Nat /\ Total(p) <= 2 * MaxChunks
           /\ \A s \in Streams : /\ p[s].read \in 0..MaxChunks /\ p[s].wrote \in 0..MaxChunks
                                 /\ p[s].read \in Nat /\ p[s].wrote \in Nat /\ p[s].done \in BOOLEAN
  <1>1. \A s \in Streams : p[s].read \in 0..MaxChunks /\ p[s].wrote \in 0..MaxChunks /\ p[s].done \in BOOLEAN
    BY DEF Pipes, PipeRecs
  <1>2. p["stdout"].read \in 0..MaxChunks /\ p["stderr"].read \in 0..MaxChunks
    BY <1>1 DEF Streams
  <1> QED BY <1>1, <1>2, ExecAssumption DEF Total

\* Before the command runs the pipes are empty, whoever reads them.
LEMMA QuietPipes ==
    ASSUME NEW tty, NEW st, NEW x, NEW h, x.pc = "none"
    PROVE  PipesTrue(tty, EmptyPipe, st, x, 0, h)
  BY EmptyStart DEF PipesTrue, Reported

\* A step of the gateway's task: it receives nothing, and the sandbox is left
\* alone but for the request it may hand over.
LEMMA TaskStep ==
    ASSUME ExecInv, NEW r \in ReqRecs, req' = r, r.got = req.got,
           r.tty = req.tty \/ starts = 0,
           conn' \in {"none", "up", "down"}, wire' \in {wire, <<>>},
           UNCHANGED <<child, pipe, exiter, starts, hurt, fwd>>,
           NEW ak \in BOOLEAN, asked' = ak, ak => starts = 0,
           r.pc \in BeforeSend => req.pc \in BeforeSend /\ ~ak,
           r.pc # "done" => r.final = "none",
           r.pc \in {"stdin", "wait"} /\ ~hurt =>
              conn' = "up" /\ wire' = wire /\ (req.pc \in {"stdin", "wait"} \/ starts = 0),
           (r.pc = "join" \/ r.final = "exit") /\ ~hurt => req.pc = "join" \/ req.final = "exit"
    PROVE  ExecInv'
  <1>1. /\ req \in ReqRecs /\ wire \in Seq(Msgs) /\ pipe \in Pipes /\ starts \in {0, 1}
        /\ req.got \in Nat /\ Total(pipe) \in Nat /\ Len(wire) \in Nat
    BY TotalBound DEF ExecInv, ExecTypes, ReqRecs
  <1>2. ExecTypes'
    <2>1. wire' \in Seq(Msgs)
      <3>1. <<>> \in Seq(Msgs)
        OBVIOUS
      <3> QED BY <1>1, <3>1
    <2>2. req' \in ReqRecs /\ asked' \in BOOLEAN /\ conn' \in {"none", "up", "down"}
      OBVIOUS
    <2>3. /\ child' = child /\ pipe' = pipe /\ exiter' = exiter /\ starts' = starts /\ hurt' = hurt
          /\ fwd' = fwd
      OBVIOUS
    <2>4. /\ child \in ChildRecs /\ pipe \in Pipes /\ exiter \in ExiterRecs /\ starts \in {0, 1}
          /\ hurt \in BOOLEAN /\ fwd \in {"none", "connecting", "open", "closed"}
      BY DEF ExecInv, ExecTypes
    <2>5. /\ child' \in ChildRecs /\ pipe' \in Pipes /\ exiter' \in ExiterRecs /\ starts' \in {0, 1}
          /\ hurt' \in BOOLEAN /\ fwd' \in {"none", "connecting", "open", "closed"}
      BY <2>3, <2>4
    <2> QED BY <2>1, <2>2, <2>5 DEF ExecTypes
  <1>3. Phases'
    BY DEF ExecInv, Phases
  <1>4. PipesTrue(r.tty, pipe, child.st, exiter, starts, hurt)
    <2>1. CASE starts = 0
      BY <2>1, QuietPipes DEF ExecInv, Phases
    <2>2. CASE starts # 0
      BY <2>2 DEF ExecInv
    <2> QED BY <2>1, <2>2
  <1>5. OverTrue(r, pipe, Reported(starts, exiter), hurt)
    BY DEF ExecInv, OverTrue
  <1>6. Flow(r, wire', pipe, Reported(starts, exiter), hurt)
    <2> DEFINE rep == Reported(starts, exiter)
    <2>1. PICK k \in 0..2, e \in Nat :
             /\ Shape(wire, k, e)
             /\ k > 0 => rep
             /\ k > 0 /\ ~hurt => e + k = Len(wire)
             /\ req.got + Len(wire) <= Total(pipe) + k
             /\ req.pc \in {"stdin", "wait"} /\ ~hurt => req.got + Len(wire) = Total(pipe) + k
      BY DEF ExecInv, Flow
    <2> HIDE DEF rep
    <2>2. CASE starts = 0
      <3>1. wire = <<>> /\ pipe = EmptyPipe /\ req.got = 0 /\ wire' = <<>> /\ Len(<<>>) = 0
        BY <2>2 DEF ExecInv, Phases
      <3>2. Shape(<<>>, 0, 0) /\ Total(EmptyPipe) = 0
        BY ShapeEmpty, EmptyStart
      <3>3. 0 \in 0..2 /\ 0 \in Nat /\ ~(0 > 0) /\ r.got + Len(wire') = Total(pipe) + 0
        BY <3>1, <3>2
      <3>4. r.got + Len(wire') <= Total(pipe) + 0
        BY <3>1, <3>2
      <3> QED BY <3>1, <3>2, <3>3, <3>4 DEF Flow
    <2>3. CASE starts # 0 /\ wire' = wire
      BY <2>1, <2>3 DEF Flow, rep
    <2>4. CASE starts # 0 /\ wire' = <<>> /\ wire' # wire
      <3>1. Len(wire) >= k /\ Len(<<>>) = 0
        BY <1>1, <2>1 DEF Shape
      <3>2. r.got + Len(wire') <= Total(pipe) + 0
        BY <1>1, <2>1, <2>4, <3>1
      <3>3. ~(r.pc \in {"stdin", "wait"} /\ ~hurt)
        BY <2>4
      <3>4. Shape(wire', 0, 0) /\ 0 \in 0..2 /\ 0 \in Nat /\ ~(0 > 0)
        BY <2>4, ShapeEmpty
      <3> QED BY <3>2, <3>3, <3>4 DEF Flow
    <2> QED BY <2>2, <2>3, <2>4
  <1>7. /\ PipesTrue(req'.tty, pipe', child'.st, exiter', starts', hurt')
        /\ OverTrue(req', pipe', Reported(starts', exiter'), hurt')
        /\ Flow(req', wire', pipe', Reported(starts', exiter'), hurt')
    BY <1>4, <1>5, <1>6
  <1> QED BY <1>2, <1>3, <1>7 DEF ExecInv, Reported

\* A step that fails ends the task with the error, or, before the command is
\* handed over, is tried again.
LEMMA FailedTask ==
    ASSUME ExecInv, req.pc # "done", RetryOrFail \/ EndErr
    PROVE  /\ req' \in ReqRecs /\ req'.got = req.got /\ req'.tty = req.tty
           /\ req'.pc \in {"proxy", "done"} /\ (req'.pc = "proxy" => RetryOrFail /\ ~EndErr)
           /\ req'.final # "exit" /\ (req'.pc # "done" => req'.final = "none")
  <1>1. req \in ReqRecs /\ req.attempt \in 0..(ExecAttempts - 1) /\ ExecAttempts \in Nat /\ req.attempt \in Nat
    BY ExecAssumption DEF ExecInv, ExecTypes, ReqRecs
  <1>2. CASE EndErr
    <2>1. req' = [req EXCEPT !.pc = "done", !.final = "err"]
      BY <1>2 DEF EndErr
    <2> QED BY <1>1, <2>1 DEF ReqRecs, ExecPcs, BeforeSend
  <1>3. CASE RetryOrFail /\ ~EndErr
    <2> DEFINE a == req.attempt + 1
    <2>1. a < ExecAttempts /\ req' = [req EXCEPT !.pc = "proxy", !.attempt = a]
      BY <1>3 DEF RetryOrFail
    <2>2. a \in 0..(ExecAttempts - 1)
      BY <1>1, <2>1
    <2> HIDE DEF a
    <2>3. /\ req' \in ReqRecs /\ req'.got = req.got /\ req'.tty = req.tty /\ req'.pc = "proxy"
          /\ req'.final = req.final
      BY <1>1, <2>1, <2>2 DEF ReqRecs, ExecPcs, BeforeSend
    <2>4. req.final = "none"
      BY DEF ExecInv, Phases
    <2> QED BY <1>3, <2>3, <2>4
  <1> QED BY <1>2, <1>3

\* The gateway's own steps but for the receipt of a message.
TaskActions ==
    \/ HandleExec \/ StartForward \/ ConnectTransport \/ Authenticate \/ OpenChannel \/ SendExec
    \/ SendStdin \/ ChannelGone \/ FinishExec \/ ExecTimeout

\* A step that moves the task on, or fails, without having delivered the command.
LEMMA EarlyStep ==
    ASSUME ExecInv, req.pc \in BeforeSend \ {"idle"}, conn' \in {"none", "up", "down"},
           wire' \in {wire, <<>>}, UNCHANGED <<child, pipe, exiter, starts, hurt, fwd, asked>>,
           \/ RetryOrFail \/ EndErr
           \/ \E to \in {"connect", "auth", "channel", "send"} : req' = [req EXCEPT !.pc = to]
    PROVE  ExecInv'
  <1>1. req \in ReqRecs /\ req.final = "none" /\ req.pc # "done" /\ ~asked /\ asked \in BOOLEAN
    BY DEF ExecInv, ExecTypes, Phases, BeforeSend
  <1>2. /\ req' \in ReqRecs /\ req'.got = req.got /\ req'.tty = req.tty
        /\ req'.pc \in BeforeSend \cup {"done"}
        /\ (req'.pc # "done" => req'.final = "none") /\ req'.final # "exit"
    <2>1. CASE RetryOrFail \/ EndErr
      BY <1>1, <2>1, FailedTask DEF BeforeSend
    <2>2. CASE \E to \in {"connect", "auth", "channel", "send"} : req' = [req EXCEPT !.pc = to]
      BY <1>1, <2>2 DEF ReqRecs, ExecPcs, BeforeSend
    <2> QED BY <2>1, <2>2
  <1>3. ~(req'.pc \in {"stdin", "wait"}) /\ req'.pc # "join"
    BY <1>2 DEF BeforeSend
  <1> QED BY <1>1, <1>2, <1>3, TaskStep

\* A step after the command may have been handed over never tries again.
LEMMA LateStep ==
    ASSUME ExecInv, req.pc # "done", NEW to \in {"join", "done", "wait"}, NEW f, NEW c \in Codes \cup {124},
           f = "none" \/ (to = "done" /\ f \in {"err", "exit", "timeout"}),
           req' = [req EXCEPT !.pc = to, !.final = f, !.code = c],
           conn' \in {"none", "up", "down"}, wire' \in {wire, <<>>},
           UNCHANGED <<child, pipe, exiter, starts, hurt, fwd, asked>>,
           to = "wait" => req.pc = "stdin" /\ conn' = "up" /\ wire' = wire,
           (to = "join" \/ f = "exit") /\ ~hurt => req.pc = "join"
    PROVE  ExecInv'
  <1>1. req \in ReqRecs /\ asked \in BOOLEAN /\ (asked => starts = 0)
    BY DEF ExecInv, ExecTypes, Phases
  <1>2. /\ req' \in ReqRecs /\ req'.got = req.got /\ req'.tty = req.tty /\ req'.pc = to /\ req'.final = f
    BY <1>1 DEF ReqRecs, ExecPcs, BeforeSend
  <1>3. req'.pc \notin BeforeSend /\ (req'.pc # "done" => req'.final = "none")
    BY <1>2 DEF BeforeSend
  <1>4. req'.pc \in {"stdin", "wait"} /\ ~hurt =>
           conn' = "up" /\ wire' = wire /\ (req.pc \in {"stdin", "wait"} \/ starts = 0)
    BY <1>2
  <1>5. (req'.pc = "join" \/ req'.final = "exit") /\ ~hurt => req.pc = "join" \/ req.final = "exit"
    BY <1>2
  <1> QED BY <1>1, <1>2, <1>3, <1>4, <1>5, TaskStep

LEMMA TaskKeeps ==
    ASSUME ExecInv, TaskActions
    PROVE  ExecInv'
  <1>1. /\ req \in ReqRecs /\ conn \in {"none", "up", "down"} /\ hurt \in BOOLEAN /\ asked \in BOOLEAN
        /\ req.seen \in {<<>>} \cup {<<k>> : k \in Codes} /\ req.code \in Codes \cup {124}
        /\ (req.pc # "done" => req.final = "none")
    BY DEF ExecInv, ExecTypes, Phases, ReqRecs
  <1>2. CASE HandleExec
    <2>1. PICK tty, timed \in BOOLEAN : req' = [NoReq EXCEPT !.pc = "proxy", !.tty = tty, !.timed = timed]
      BY <1>2 DEF HandleExec
    <2>2. req.pc = "idle" /\ starts = 0 /\ ~asked /\ req.got = 0
      BY <1>2 DEF HandleExec, AtExec, ExecInv, Phases, BeforeSend
    <2>3. req' \in ReqRecs /\ req'.pc = "proxy" /\ req'.got = 0 /\ req'.final = "none"
      <3>1. req' = [pc |-> "proxy", attempt |-> 0, tty |-> tty, timed |-> timed, seen |-> <<>>, got |-> 0,
                    final |-> "none", code |-> 0]
        BY <2>1 DEF NoReq
      <3>2. 0 \in 0..(ExecAttempts - 1) /\ 0 \in Codes \cup {124} /\ 0 \in Nat /\ "proxy" \in ExecPcs
        BY ExecAssumption DEF Codes, ExecPcs, BeforeSend
      <3>3. req' \in ReqRecs
        BY <3>1, <3>2, Zenon DEF ReqRecs
      <3> QED BY <3>1, <3>3
    <2>4. UNCHANGED <<conn, wire, child, pipe, exiter, asked, starts, hurt, fwd>>
      BY <1>2 DEF HandleExec, sandboxVars
    <2> QED BY <1>1, <2>2, <2>3, <2>4, TaskStep DEF BeforeSend
  <1>3. CASE StartForward
    BY <1>3, EarlyStep DEF StartForward, AtExec, sandboxVars, BeforeSend
  <1>4. CASE ConnectTransport
    <2>1. CASE conn' = "up" /\ ExecStep("connect", "auth")
      BY <1>4, <2>1, EarlyStep DEF ConnectTransport, AtExec, ExecStep, sandboxVars, BeforeSend
    <2>2. CASE StepFails("transport")
      BY <1>4, <2>2, EarlyStep DEF ConnectTransport, AtExec, StepFails, sandboxVars, BeforeSend
    <2> QED BY <1>4, <2>1, <2>2 DEF ConnectTransport
  <1>5. CASE Authenticate
    <2>1. CASE conn = "up" /\ ExecStep("auth", "channel") /\ UNCHANGED conn
      BY <1>5, <2>1, EarlyStep DEF Authenticate, AtExec, ExecStep, sandboxVars, BeforeSend
    <2>2. CASE StepFails("reply") \/ StepFails("denied")
      BY <1>5, <2>2, EarlyStep DEF Authenticate, AtExec, StepFails, sandboxVars, BeforeSend
    <2> QED BY <1>5, <2>1, <2>2 DEF Authenticate
  <1>6. CASE OpenChannel
    <2>1. CASE conn = "up" /\ ExecStep("channel", "send") /\ UNCHANGED conn
      BY <1>6, <2>1, EarlyStep DEF OpenChannel, AtExec, ExecStep, sandboxVars, BeforeSend
    <2>2. CASE StepFails("reply") \/ StepFails("sent")
      BY <1>6, <2>2, EarlyStep DEF OpenChannel, AtExec, StepFails, sandboxVars, BeforeSend
    <2> QED BY <1>6, <2>1, <2>2 DEF OpenChannel
  <1>7. CASE SendExec
    <2>1. CASE conn = "up" /\ ExecStep("send", "stdin") /\ asked' = TRUE /\ UNCHANGED conn
      <3>1. req.pc = "send" /\ req' = [req EXCEPT !.pc = "stdin"] /\ starts = 0
        BY <2>1 DEF ExecStep, ExecInv, Phases, BeforeSend
      <3>2. /\ req' \in ReqRecs /\ req'.pc = "stdin" /\ req'.got = req.got /\ req'.final = "none"
            /\ req'.pc \notin BeforeSend
        BY <1>1, <3>1 DEF ReqRecs, ExecPcs, BeforeSend
      <3>3. UNCHANGED <<wire, child, pipe, exiter, starts, fwd, hurt>>
        BY <1>7 DEF SendExec
      <3> QED BY <1>1, <2>1, <3>1, <3>2, <3>3, TaskStep
    <2>2. CASE StepFails("sent") /\ UNCHANGED asked
      BY <1>7, <2>2, EarlyStep DEF SendExec, AtExec, StepFails, BeforeSend
    <2> QED BY <1>7, <2>1, <2>2 DEF SendExec
  <1>8. CASE SendStdin
    <2>1. req.pc = "stdin" /\ UNCHANGED <<wire, child, pipe, exiter, asked, starts, fwd, hurt>>
      BY <1>8 DEF SendStdin, AtExec, sandboxVars
    <2>2. CASE conn = "up" /\ ExecStep("stdin", "wait") /\ UNCHANGED conn
      <3>1. req' = [req EXCEPT !.pc = "wait", !.final = "none", !.code = req.code]
        BY <1>1, <2>1, <2>2 DEF ExecStep, ReqRecs
      <3> QED BY <1>1, <2>1, <2>2, <3>1, LateStep
    <2>3. CASE StepFails("sent")
      <3>1. conn' = "down" /\ EndErr
        BY <2>3 DEF StepFails, Retryable
      <3>2. req' = [req EXCEPT !.pc = "done", !.final = "err", !.code = req.code]
        BY <1>1, <3>1 DEF EndErr, ReqRecs
      <3> QED BY <1>1, <2>1, <3>1, <3>2, LateStep
    <2> QED BY <1>8, <2>2, <2>3 DEF SendStdin
  <1>9. CASE ChannelGone
    <2>1. /\ req.pc = "wait" /\ UNCHANGED <<conn, wire, child, pipe, exiter, asked, starts, fwd, hurt>>
          /\ conn = "down" /\ req' = [req EXCEPT !.pc = "join"]
      BY <1>9 DEF ChannelGone, AtExec, ExecStep, sandboxVars
    <2>2. hurt
      BY <2>1 DEF ExecInv, Phases
    <2>3. req' = [req EXCEPT !.pc = "join", !.final = "none", !.code = req.code]
      BY <1>1, <2>1 DEF ReqRecs
    <2>4. /\ conn' \in {"none", "up", "down"} /\ wire' \in {wire, <<>>} /\ req.code \in Codes \cup {124}
          /\ UNCHANGED <<child, pipe, exiter, starts, hurt, fwd, asked>> /\ req.pc # "done"
      BY <1>1, <2>1
    <2> QED BY <2>2, <2>3, <2>4, LateStep
  <1>10. CASE FinishExec
    <2> DEFINE c == IF req.seen = <<>> THEN 1 ELSE req.seen[1]
    <2>1. /\ req.pc = "join" /\ UNCHANGED <<wire, child, pipe, exiter, asked, starts, fwd, hurt>>
          /\ conn' = "down" /\ req' = [req EXCEPT !.pc = "done", !.final = "exit", !.code = c]
      BY <1>10 DEF FinishExec, AtExec, sandboxVars
    <2>2. c \in Codes
      <3>1. CASE req.seen = <<>>
        BY <3>1 DEF Codes
      <3>2. CASE req.seen # <<>>
        BY <1>1, <3>2
      <3> QED BY <3>1, <3>2
    <2> HIDE DEF c
    <2> QED BY <1>1, <2>1, <2>2, LateStep
  <1>11. CASE ExecTimeout
    <2>1. /\ req.pc # "done" /\ UNCHANGED <<child, pipe, exiter, asked, starts, fwd, hurt>>
          /\ conn' = "down" /\ wire' = <<>>
          /\ req' = [req EXCEPT !.pc = "done", !.final = "timeout", !.code = 124]
      BY <1>11 DEF ExecTimeout, sandboxVars
    <2>2. /\ conn' \in {"none", "up", "down"} /\ wire' \in {wire, <<>>} /\ 124 \in Codes \cup {124}
          /\ UNCHANGED <<child, pipe, exiter, starts, hurt, fwd, asked>>
      BY <2>1
    <2> QED BY <2>1, <2>2, LateStep
  <1> QED BY <1>2, <1>3, <1>4, <1>5, <1>6, <1>7, <1>8, <1>9, <1>10, <1>11 DEF TaskActions

\* A step after the command has started, given what it does to the pipes, the
\* messages and the connection's history.
LEMMA StartedStep ==
    ASSUME ExecInv, starts = 1, UNCHANGED <<conn, asked, starts, fwd>>,
           NEW r \in ReqRecs, req' = r, r.tty = req.tty,
           r.pc = req.pc \/ (req.pc = "wait" /\ r.pc = "join"), r.final = req.final,
           NEW w \in Seq(Msgs), wire' = w, NEW c \in ChildRecs, child' = c,
           NEW p \in Pipes, pipe' = p, NEW x \in ExiterRecs, exiter' = x,
           NEW h \in BOOLEAN, hurt' = h, hurt => h,
           PipesTrue(req.tty, p, c.st, x, 1, h), OverTrue(r, p, Reported(1, x), h),
           Flow(r, w, p, Reported(1, x), h)
    PROVE  ExecInv'
  <1>1. ExecTypes'
    <2>1. /\ conn \in {"none", "up", "down"} /\ asked \in BOOLEAN /\ starts \in {0, 1}
          /\ fwd \in {"none", "connecting", "open", "closed"}
      BY DEF ExecInv, ExecTypes
    <2>2. /\ conn' = conn /\ asked' = asked /\ starts' = starts /\ fwd' = fwd
      OBVIOUS
    <2>3. /\ conn' \in {"none", "up", "down"} /\ asked' \in BOOLEAN /\ starts' \in {0, 1}
          /\ fwd' \in {"none", "connecting", "open", "closed"}
      BY <2>1, <2>2
    <2>4. /\ req' \in ReqRecs /\ wire' \in Seq(Msgs) /\ child' \in ChildRecs /\ pipe' \in Pipes
          /\ exiter' \in ExiterRecs /\ hurt' \in BOOLEAN
      OBVIOUS
    <2> QED BY <2>3, <2>4 DEF ExecTypes
  <1>2. Phases'
    <2>1. Phases /\ 1 # 0
      BY DEF ExecInv
    <2>2. starts' = 1 /\ asked' = asked /\ conn' = conn /\ req' = r /\ hurt' = h
      OBVIOUS
    <2>3. r.pc \notin BeforeSend /\ ~asked
      BY <2>1 DEF Phases, BeforeSend
    <2>4. (r.pc \in {"stdin", "wait"} /\ ~h => conn = "up") /\ (r.pc # "done" => r.final = "none")
      BY <2>1 DEF Phases
    <2> QED BY <2>1, <2>2, <2>3, <2>4 DEF Phases
  <1>3. /\ PipesTrue(req'.tty, pipe', child'.st, exiter', starts', hurt')
        /\ OverTrue(req', pipe', Reported(starts', exiter'), hurt')
        /\ Flow(req', wire', pipe', Reported(starts', exiter'), hurt')
    <2>1. /\ req' = r /\ r.tty = req.tty /\ pipe' = p /\ child' = c /\ exiter' = x /\ starts' = 1
          /\ hurt' = h /\ wire' = w
      OBVIOUS
    <2> QED BY <2>1
  <1> QED BY <1>1, <1>2, <1>3 DEF ExecInv, Reported

\* A step of the sandbox that reads and sends nothing.
LEMMA QuietStep ==
    ASSUME ExecInv, starts = 1, UNCHANGED <<req, conn, wire, asked, starts, fwd>>,
           NEW c \in ChildRecs, child' = c,
           NEW p \in Pipes, pipe' = p, NEW x \in ExiterRecs, exiter' = x,
           NEW h \in BOOLEAN, hurt' = h, hurt => h,
           Total(p) = Total(pipe), Reported(1, exiter) => Reported(1, x),
           PipesTrue(req.tty, p, c.st, x, 1, h)
    PROVE  ExecInv'
  <1>1. /\ req \in ReqRecs /\ wire \in Seq(Msgs) /\ OverTrue(req, pipe, Reported(1, exiter), hurt)
        /\ Flow(req, wire, pipe, Reported(1, exiter), hurt)
    BY DEF ExecInv, ExecTypes
  <1>2. OverTrue(req, p, Reported(1, x), h)
    BY <1>1 DEF OverTrue
  <1>3. Flow(req, wire, p, Reported(1, x), h)
    BY <1>1 DEF Flow
  <1>4. req' = req /\ wire' = wire /\ UNCHANGED <<conn, asked, starts, fwd>>
    OBVIOUS
  <1> QED BY <1>1, <1>2, <1>3, <1>4, StartedStep

\* The gateway takes the next message.
LEMMA ReceiptKeeps ==
    ASSUME ExecInv, ReceiveMessage
    PROVE  ExecInv'
  <1> DEFINE m == Head(wire)
             v == Tail(wire)
             rep == Reported(1, exiter)
  <1>1. /\ req.pc = "wait" /\ wire # <<>> /\ wire' = v
        /\ req' = CASE m.kind = "data"  -> [req EXCEPT !.got = @ + 1]
                    [] m.kind = "exit"  -> [req EXCEPT !.seen = <<m.code>>]
                    [] m.kind = "close" -> [req EXCEPT !.pc = "join"]
        /\ UNCHANGED <<conn, child, pipe, exiter, asked, starts, fwd, hurt>>
    BY DEF ReceiveMessage, AtExec, sandboxVars
  <1>2. /\ starts = 1 /\ req \in ReqRecs /\ wire \in Seq(Msgs) /\ child \in ChildRecs /\ pipe \in Pipes
        /\ exiter \in ExiterRecs /\ hurt \in BOOLEAN /\ req.got \in Nat
        /\ req.final = "none" /\ req.pc = "wait"
    BY <1>1 DEF ExecInv, ExecTypes, Phases, ReqRecs
  <1>3. PipesTrue(req.tty, pipe, child.st, exiter, 1, hurt) /\ Total(pipe) \in Nat
    BY <1>2, TotalBound DEF ExecInv
  <1>4. PICK k \in 0..2, e \in Nat :
           /\ Shape(wire, k, e)
           /\ k > 0 => rep
           /\ k > 0 /\ ~hurt => e + k = Len(wire)
           /\ req.got + Len(wire) <= Total(pipe) + k
           /\ ~hurt => req.got + Len(wire) = Total(pipe) + k
    BY <1>1, <1>2 DEF ExecInv, Flow
  <1>5. /\ m \in Msgs /\ v \in Seq(Msgs) /\ Len(v) = Len(wire) - 1 /\ Len(wire) \in Nat
        /\ \/ m.kind = "data" /\ k = 0 /\ Shape(v, 0, 0)
           \/ m.kind = "data" /\ k = 2 /\ e - 1 \in Nat /\ Shape(v, 2, e - 1)
           \/ m.kind = "exit" /\ k = 2 /\ e = 0 /\ Shape(v, 1, 0)
           \/ m.kind = "close" /\ k = 1 /\ e = 0 /\ Shape(v, 0, 0)
    BY <1>1, <1>2, <1>4, ShapeTail
  <1>6. UNCHANGED <<conn, asked, starts, fwd>> /\ child' = child /\ pipe' = pipe /\ exiter' = exiter /\ hurt' = hurt
    BY <1>1
  <1>7. m.code \in Codes
    BY <1>5 DEF Msgs
  <1> HIDE DEF m, v, rep
  <1>8. CASE m.kind = "data"
    <2>1. req' = [req EXCEPT !.got = req.got + 1]
      BY <1>1, <1>8
    <2>2. /\ req' \in ReqRecs /\ req'.tty = req.tty /\ req'.pc = "wait" /\ req'.final = "none"
          /\ req'.got = req.got + 1
      BY <1>2, <2>1 DEF ReqRecs
    <2>3. PICK f \in Nat : Shape(v, k, f) /\ (k > 0 => k = 2 /\ f = e - 1)
      BY <1>5, <1>8
    <2>4. /\ k > 0 /\ ~hurt => f + k = Len(v)
          /\ req'.got + Len(v) <= Total(pipe) + k
          /\ ~hurt => req'.got + Len(v) = Total(pipe) + k
      <3> DEFINE g == req.got
                 l == Len(wire)
                 n == Len(v)
                 t == Total(pipe)
      <3>1. g \in Nat /\ l \in Nat /\ n = l - 1 /\ t \in Nat /\ req'.got = g + 1
        BY <1>2, <1>3, <1>5, <2>2
      <3>2. (k > 0 /\ ~hurt => e + k = l) /\ g + l <= t + k /\ (~hurt => g + l = t + k)
        BY <1>4
      <3> HIDE DEF g, l, n, t
      <3>3. k > 0 /\ ~hurt => f + k = n
        BY <2>3, <3>1, <3>2
      <3>4. g + 1 + n <= t + k /\ (~hurt => g + 1 + n = t + k)
        BY <3>1, <3>2
      <3> QED BY <3>1, <3>3, <3>4 DEF g, l, n, t
    <2>5. Flow(req', v, pipe, rep, hurt)
      BY <1>4, <2>3, <2>4 DEF Flow
    <2>6. OverTrue(req', pipe, rep, hurt)
      BY <2>2 DEF OverTrue
    <2> QED BY <1>1, <1>2, <1>3, <1>5, <1>6, <2>2, <2>5, <2>6, StartedStep DEF rep
  <1>9. CASE m.kind = "exit"
    <2>1. req' = [req EXCEPT !.seen = <<m.code>>]
      BY <1>1, <1>9
    <2>2. /\ req' \in ReqRecs /\ req'.tty = req.tty /\ req'.pc = "wait" /\ req'.final = "none"
          /\ req'.got = req.got
      BY <1>2, <1>7, <2>1 DEF ReqRecs
    <2>3. Shape(v, 1, 0) /\ k = 2 /\ e = 0
      BY <1>5, <1>9
    <2>4. /\ ~hurt => 0 + 1 = Len(v)
          /\ req'.got + Len(v) <= Total(pipe) + 1
          /\ ~hurt => req'.got + Len(v) = Total(pipe) + 1
      BY <1>2, <1>3, <1>4, <1>5, <2>2, <2>3
    <2>5. Flow(req', v, pipe, rep, hurt)
      <3>1. 1 \in 0..2 /\ 0 \in Nat /\ rep
        BY <1>4, <2>3
      <3> QED BY <2>3, <2>4, <3>1 DEF Flow
    <2>6. OverTrue(req', pipe, rep, hurt)
      BY <2>2 DEF OverTrue
    <2> QED BY <1>1, <1>2, <1>3, <1>5, <1>6, <2>2, <2>5, <2>6, StartedStep DEF rep
  <1>10. CASE m.kind = "close"
    <2>1. req' = [req EXCEPT !.pc = "join"]
      BY <1>1, <1>10
    <2>2. /\ req' \in ReqRecs /\ req'.tty = req.tty /\ req'.pc = "join" /\ req'.final = "none"
          /\ req'.got = req.got
      BY <1>2, <2>1 DEF ReqRecs, ExecPcs, BeforeSend
    <2>3. Shape(v, 0, 0) /\ k = 1 /\ e = 0
      BY <1>5, <1>10
    <2>4. req'.got + Len(v) <= Total(pipe) + 0
      BY <1>2, <1>3, <1>4, <1>5, <2>2, <2>3
    <2>5. Flow(req', v, pipe, rep, hurt)
      <3>1. 0 \in 0..2 /\ 0 \in Nat /\ ~(0 > 0) /\ req'.pc \notin {"stdin", "wait"}
        BY <2>2
      <3> QED BY <2>3, <2>4, <3>1 DEF Flow
    <2>6. ~hurt => rep /\ req'.got = Total(pipe)
      <3> SUFFICES ASSUME ~hurt PROVE rep /\ req'.got = Total(pipe)
        OBVIOUS
      <3>1. 1 = Len(wire) /\ rep /\ req.got + Len(wire) = Total(pipe) + 1
        BY <1>4, <2>3
      <3>2. req.got + 1 = Total(pipe) + 1
        BY <3>1
      <3>3. req.got = Total(pipe)
        BY <1>2, <1>3, <3>2
      <3> QED BY <2>2, <3>1, <3>3
    <2>7. OverTrue(req', pipe, rep, hurt)
      BY <2>6 DEF OverTrue
    <2> QED BY <1>1, <1>2, <1>3, <1>5, <1>6, <2>2, <2>5, <2>7, StartedStep DEF rep
  <1>11. m.kind \in {"data", "exit", "close"}
    BY <1>5 DEF Msgs
  <1> QED BY <1>8, <1>9, <1>10, <1>11

\* The connection is gone: what was on its way may be lost, and the history says so.
LEMMA BreakStep ==
    ASSUME ExecInv, conn' = "down", hurt' = TRUE, wire' \in {wire, <<>>}, NEW ak \in BOOLEAN, asked' = ak,
           ak => asked, UNCHANGED <<req, child, pipe, exiter, starts, fwd>>
    PROVE  ExecInv'
  <1>1. /\ req \in ReqRecs /\ wire \in Seq(Msgs) /\ pipe \in Pipes /\ starts \in {0, 1}
        /\ req.got \in Nat /\ Total(pipe) \in Nat /\ Len(wire) \in Nat
    BY TotalBound DEF ExecInv, ExecTypes, ReqRecs
  <1>2. ExecTypes'
    <2>1. wire' \in Seq(Msgs)
      <3>1. <<>> \in Seq(Msgs)
        OBVIOUS
      <3> QED BY <1>1, <3>1
    <2>2. conn' \in {"none", "up", "down"} /\ asked' \in BOOLEAN /\ hurt' \in BOOLEAN
      OBVIOUS
    <2>3. /\ req' = req /\ child' = child /\ pipe' = pipe /\ exiter' = exiter /\ starts' = starts /\ fwd' = fwd
      OBVIOUS
    <2>4. /\ child \in ChildRecs /\ exiter \in ExiterRecs /\ fwd \in {"none", "connecting", "open", "closed"}
      BY DEF ExecInv, ExecTypes
    <2>5. /\ req' \in ReqRecs /\ child' \in ChildRecs /\ pipe' \in Pipes /\ exiter' \in ExiterRecs
          /\ starts' \in {0, 1} /\ fwd' \in {"none", "connecting", "open", "closed"}
      BY <1>1, <2>3, <2>4
    <2> QED BY <2>1, <2>2, <2>5 DEF ExecTypes
  <1>3. Phases'
    BY DEF ExecInv, Phases
  <1>4. PipesTrue(req.tty, pipe, child.st, exiter, starts, TRUE)
    BY DEF ExecInv, PipesTrue
  <1>5. OverTrue(req, pipe, Reported(starts, exiter), TRUE)
    BY DEF OverTrue
  <1>6. Flow(req, wire', pipe, Reported(starts, exiter), TRUE)
    <2>1. PICK k \in 0..2, e \in Nat :
             /\ Shape(wire, k, e)
             /\ k > 0 => Reported(starts, exiter)
             /\ req.got + Len(wire) <= Total(pipe) + k
      BY DEF ExecInv, Flow
    <2>2. CASE wire' = wire
      BY <2>1, <2>2 DEF Flow
    <2>3. CASE wire' = <<>>
      <3>1. Len(wire) >= k /\ Len(<<>>) = 0
        BY <1>1, <2>1 DEF Shape
      <3>2. req.got + Len(wire') <= Total(pipe) + 0
        BY <1>1, <2>1, <2>3, <3>1
      <3>3. Shape(wire', 0, 0) /\ 0 \in 0..2 /\ 0 \in Nat /\ ~(0 > 0)
        BY <2>3, ShapeEmpty
      <3> QED BY <3>2, <3>3 DEF Flow
    <2> QED BY <2>2, <2>3
  <1>7. /\ PipesTrue(req'.tty, pipe', child'.st, exiter', starts', hurt')
        /\ OverTrue(req', pipe', Reported(starts', exiter'), hurt')
        /\ Flow(req', wire', pipe', Reported(starts', exiter'), hurt')
    BY <1>4, <1>5, <1>6
  <1> QED BY <1>2, <1>3, <1>7 DEF ExecInv, Reported

\* The command starts, once, with empty pipes.
LEMMA SpawnKeeps ==
    ASSUME ExecInv, SpawnChild
    PROVE  ExecInv'
  <1>1. /\ asked /\ asked' = FALSE /\ UNCHANGED <<req, wire, fwd>>
        /\ starts = 0 /\ req.pc \notin BeforeSend /\ wire = <<>> /\ req.got = 0 /\ exiter.pc = "none"
    BY DEF SpawnChild, ExecInv, Phases
  <1>2. CASE conn' = "down" /\ hurt' = TRUE /\ UNCHANGED <<child, starts, pipe, exiter>>
    BY <1>1, <1>2, BreakStep
  <1>3. CASE /\ \E held \in BOOLEAN : child' = [NoChild EXCEPT !.st = "running", !.held = held]
             /\ starts' = starts + 1 /\ pipe' = EmptyPipe /\ exiter' = [pc |-> "wait", code |-> 0]
             /\ UNCHANGED <<conn, hurt>>
    <2> DEFINE x == [pc |-> "wait", code |-> 0]
    <2>1. x \in ExiterRecs /\ x.pc = "wait"
      BY DEF ExiterRecs, Codes
    <2>2. child' \in ChildRecs /\ child'.st = "running"
      <3>1. PICK held \in BOOLEAN : child' = [NoChild EXCEPT !.st = "running", !.held = held]
        BY <1>3
      <3>2. child' = [st |-> "running", code |-> 0, managed |-> FALSE, held |-> held]
        BY <3>1 DEF NoChild
      <3>3. 0 \in Codes
        BY DEF Codes
      <3>4. child' \in ChildRecs
        BY <3>2, <3>3, Zenon DEF ChildRecs
      <3> QED BY <3>2, <3>4
    <2>3. exiter' = x /\ pipe' = EmptyPipe /\ starts' = 1 /\ conn' = conn /\ hurt' = hurt
      BY <1>1, <1>3
    <2> HIDE DEF x
    <2>4. ExecTypes'
      <3>1. /\ req \in ReqRecs /\ conn \in {"none", "up", "down"} /\ wire \in Seq(Msgs) /\ hurt \in BOOLEAN
            /\ fwd \in {"none", "connecting", "open", "closed"}
        BY DEF ExecInv, ExecTypes
      <3>2. req' = req /\ wire' = wire /\ fwd' = fwd
        BY <1>1
      <3>3. /\ req' \in ReqRecs /\ conn' \in {"none", "up", "down"} /\ wire' \in Seq(Msgs) /\ hurt' \in BOOLEAN
            /\ fwd' \in {"none", "connecting", "open", "closed"}
        BY <2>3, <3>1, <3>2
      <3>4. /\ child' \in ChildRecs /\ pipe' \in Pipes /\ exiter' \in ExiterRecs /\ asked' \in BOOLEAN
            /\ starts' \in {0, 1}
        BY <1>1, <2>1, <2>2, <2>3, EmptyStart
      <3> QED BY <3>3, <3>4 DEF ExecTypes
    <2>5. Phases'
      <3>1. Phases
        BY DEF ExecInv
      <3> QED BY <1>1, <2>3, <3>1 DEF Phases
    <2>6. ~Reported(1, x) /\ ~Reported(0, exiter)
      BY <2>1 DEF Reported
    <2>7. PipesTrue(req.tty, EmptyPipe, "running", x, 1, hurt)
      BY <2>1, <2>6, EmptyStart DEF PipesTrue
    <2>8. OverTrue(req, EmptyPipe, Reported(1, x), hurt)
      <3>1. OverTrue(req, pipe, Reported(0, exiter), hurt)
        BY <1>1 DEF ExecInv
      <3> QED BY <2>6, <3>1 DEF OverTrue
    <2>9. Flow(req, wire, EmptyPipe, Reported(1, x), hurt)
      <3>1. Shape(wire, 0, 0) /\ Total(EmptyPipe) = 0 /\ Len(wire) = 0
        BY <1>1, ShapeEmpty, EmptyStart
      <3>2. /\ 0 \in 0..2 /\ 0 \in Nat /\ ~(0 > 0) /\ req.got + Len(wire) = Total(EmptyPipe) + 0
            /\ req.got + Len(wire) <= Total(EmptyPipe) + 0
        BY <1>1, <3>1
      <3> QED BY <3>1, <3>2 DEF Flow
    <2>10. /\ PipesTrue(req'.tty, pipe', child'.st, exiter', starts', hurt')
           /\ OverTrue(req', pipe', Reported(starts', exiter'), hurt')
           /\ Flow(req', wire', pipe', Reported(starts', exiter'), hurt')
      <3>1. req' = req /\ wire' = wire
        BY <1>1
      <3> QED BY <2>2, <2>3, <2>7, <2>8, <2>9, <3>1
    <2> QED BY <2>4, <2>5, <2>10 DEF ExecInv, Reported
  <1> QED BY <1>2, <1>3 DEF SpawnChild

\* The process and its exit thread, the pipes left alone.
ProcessActions ==
    RegisterManagedChild \/ ChildExits \/ ReleasePipe \/ ReapOrphan \/ WaitChild \/ WaitReaders

LEMMA ProcessKeeps ==
    ASSUME ExecInv, ProcessActions
    PROVE  ExecInv'
  <1>1. /\ starts = 1 /\ child \in ChildRecs /\ pipe \in Pipes /\ exiter \in ExiterRecs /\ hurt \in BOOLEAN
        /\ PipesTrue(req.tty, pipe, child.st, exiter, 1, hurt) /\ child.code \in Codes
    <2>1. starts # 0
      BY DEF ProcessActions, RegisterManagedChild, ChildExits, ReleasePipe, ReapOrphan, WaitChild,
             WaitReaders, ExecInv, Phases
    <2> QED BY <2>1 DEF ExecInv, ExecTypes, ChildRecs
  <1>2. ASSUME NEW c \in ChildRecs, child' = c, c.st = child.st \/ c.st \in {"zombie", "reaped", "over"},
               UNCHANGED <<req, conn, wire, pipe, exiter, asked, starts, hurt, fwd>>
        PROVE  ExecInv'
    <2>1. PipesTrue(req.tty, pipe, c.st, exiter, 1, hurt)
      BY <1>1, <1>2 DEF PipesTrue
    <2>2. pipe' = pipe /\ exiter' = exiter /\ hurt' = hurt /\ UNCHANGED <<req, conn, wire, asked, starts, fwd>>
      BY <1>2
    <2> QED BY <1>1, <1>2, <2>1, <2>2, QuietStep
  <1>3. CASE RegisterManagedChild
    <2>1. child' = [child EXCEPT !.managed = TRUE]
      BY <1>3 DEF RegisterManagedChild
    <2>2. child' \in ChildRecs /\ child'.st = child.st
      BY <1>1, <2>1 DEF ChildRecs
    <2> QED BY <1>2, <1>3, <2>2 DEF RegisterManagedChild
  <1>4. CASE ChildExits
    <2>1. PICK code \in ExitCodes : child' = [child EXCEPT !.st = "zombie", !.code = code]
      BY <1>4 DEF ChildExits
    <2>2. code \in Codes
      BY DEF Codes
    <2>3. child' \in ChildRecs /\ child'.st = "zombie"
      BY <1>1, <2>1, <2>2 DEF ChildRecs
    <2> QED BY <1>2, <1>4, <2>3 DEF ChildExits
  <1>5. CASE ReleasePipe
    <2>1. child' = [child EXCEPT !.held = FALSE]
      BY <1>5 DEF ReleasePipe
    <2>2. child' \in ChildRecs /\ child'.st = child.st
      BY <1>1, <2>1 DEF ChildRecs
    <2> QED BY <1>2, <1>5, <2>2 DEF ReleasePipe
  <1>6. CASE ReapOrphan
    <2>1. child' = [child EXCEPT !.st = "reaped"]
      BY <1>6 DEF ReapOrphan
    <2>2. child' \in ChildRecs /\ child'.st = "reaped"
      BY <1>1, <2>1 DEF ChildRecs
    <2> QED BY <1>2, <1>6, <2>2 DEF ReapOrphan
  <1>7. CASE WaitChild
    <2> DEFINE k == IF child.st = "reaped" THEN 1 ELSE child.code
               x == [pc |-> "readers", code |-> k]
    <2>1. /\ exiter' = x /\ child' = [child EXCEPT !.st = "over", !.managed = FALSE]
          /\ exiter.pc = "wait" /\ UNCHANGED <<req, conn, wire, asked, starts, fwd>>
          /\ pipe' = pipe /\ hurt' = hurt
      BY <1>7 DEF WaitChild
    <2>2. k \in Codes
      BY <1>1 DEF Codes
    <2> HIDE DEF k
    <2>3. x \in ExiterRecs /\ x.pc = "readers"
      BY <2>2 DEF ExiterRecs
    <2> HIDE DEF x
    <2>4. child' \in ChildRecs /\ child'.st = "over"
      BY <1>1, <2>1 DEF ChildRecs
    <2>5. ~Reported(1, exiter) /\ ~Reported(1, x) /\ x.pc # "report"
      BY <2>1, <2>3 DEF Reported
    <2>6. PipesTrue(req.tty, pipe, "over", x, 1, hurt)
      BY <1>1, <2>5 DEF PipesTrue
    <2> QED BY <1>1, <2>1, <2>3, <2>4, <2>5, <2>6, QuietStep
  <1>8. CASE WaitReaders
    <2>1. /\ exiter' = [exiter EXCEPT !.pc = "report"] /\ exiter.pc = "readers"
          /\ UNCHANGED <<req, conn, wire, asked, starts, fwd>> /\ child' = child /\ pipe' = pipe
          /\ (ReadersDone /\ hurt' = hurt) \/ (~ReadersDone /\ hurt' = TRUE)
      BY <1>8 DEF WaitReaders
    <2>2. exiter' \in ExiterRecs /\ exiter'.pc = "report"
      BY <1>1, <2>1 DEF ExiterRecs
    <2>3. hurt' \in BOOLEAN /\ (hurt => hurt') /\ (~hurt' => Drained(req.tty, pipe))
      BY <1>1, <2>1 DEF ReadersDone, Readers, Drained, ReadersOf
    <2>4. PipesTrue(req.tty, pipe, child.st, exiter', 1, hurt')
      BY <1>1, <2>3 DEF PipesTrue
    <2>5. ~Reported(1, exiter)
      BY <2>1 DEF Reported
    <2> QED BY <1>1, <2>1, <2>2, <2>3, <2>4, <2>5, QuietStep
  <1> QED BY <1>3, <1>4, <1>5, <1>6, <1>7, <1>8 DEF ProcessActions

\* One pipe changes: a chunk is written or read, or its reader ends.
LEMMA PipeChange ==
    ASSUME NEW p \in Pipes, NEW s \in Streams,
           NEW b \in PipeRecs,
           NEW q, \A u \in Streams : q[u] = IF u = s THEN b ELSE p[u]
    PROVE  Total(q) = Total(p) + b.read - p[s].read
  <1>1. /\ b.read \in Nat /\ p["stdout"].read \in Nat /\ p["stderr"].read \in Nat
        /\ s = "stdout" \/ s = "stderr"
    <2>1. \A u \in Streams : p[u].read \in Nat
      BY TotalBound
    <2> QED BY <2>1, ExecAssumption DEF Streams, PipeRecs
  <1>2. Total(q) = Total(p) + b.read - p[s].read
    <2>1. CASE s = "stdout"
      <3>1. q["stdout"] = b /\ q["stderr"] = p["stderr"]
        BY <2>1, EmptyStart
      <3> QED BY <1>1, <2>1, <3>1 DEF Total
    <2>2. CASE s = "stderr"
      <3>1. q["stderr"] = b /\ q["stdout"] = p["stdout"]
        BY <2>2, EmptyStart
      <3> QED BY <1>1, <2>2, <3>1 DEF Total
    <2> QED BY <1>1, <2>1, <2>2
  <1> QED BY <1>2

\* As long as a reader is at work, nothing has been reported that is to be trusted.
LEMMA NotDrained ==
    ASSUME ExecInv, starts = 1, NEW s \in Streams, s \in Readers, ~pipe[s].done, ~hurt
    PROVE  ~Reported(1, exiter) /\ exiter.pc # "report" /\ req.pc # "join" /\ req.final # "exit"
  <1>1. ~Drained(req.tty, pipe)
    BY DEF Drained, Readers, ReadersOf
  <1>2. ~Reported(1, exiter) /\ exiter.pc # "report"
    BY <1>1 DEF ExecInv, PipesTrue
  <1> QED BY <1>2 DEF ExecInv, OverTrue

\* The streams: the command writes, its readers forward and end.
LEMMA StreamKeeps ==
    ASSUME ExecInv, ChildWrites \/ \E s \in Streams : ReadChunk(s) \/ ReaderEnds(s)
    PROVE  ExecInv'
  <1>1. /\ starts = 1 /\ child \in ChildRecs /\ pipe \in Pipes /\ exiter \in ExiterRecs /\ hurt \in BOOLEAN
        /\ PipesTrue(req.tty, pipe, child.st, exiter, 1, hurt) /\ req \in ReqRecs /\ wire \in Seq(Msgs)
        /\ req.got \in Nat /\ conn \in {"none", "up", "down"}
    <2>1. starts # 0
      <3> SUFFICES ASSUME starts = 0 PROVE FALSE
        OBVIOUS
      <3>1. child.st = "none" /\ pipe = EmptyPipe
        BY DEF ExecInv, Phases
      <3>2. \A s \in Streams : EmptyPipe[s].read = 0 /\ EmptyPipe[s].wrote = 0
        BY EmptyStart
      <3> QED BY <3>1, <3>2 DEF ChildWrites, ReadChunk, ReaderEnds
    <2> QED BY <2>1 DEF ExecInv, ExecTypes, ReqRecs
  <1>2. Readers = ReadersOf(req.tty) /\ \A s \in Readers : s \in Streams
    BY DEF Readers, ReadersOf, Streams
  <1>3. \A s \in Streams : /\ pipe[s] \in PipeRecs
                           /\ pipe[s].read \in 0..MaxChunks /\ pipe[s].wrote \in 0..MaxChunks
                           /\ pipe[s].read <= pipe[s].wrote
    BY <1>1 DEF Pipes, PipeRecs, PipesTrue
  <1>4. Total(pipe) \in Nat /\ MaxChunks \in Nat
    BY <1>1, TotalBound, ExecAssumption
  <1>5. CASE ChildWrites
    <2>1. PICK s \in Readers : pipe[s].wrote < MaxChunks /\ pipe' = [pipe EXCEPT ![s].wrote = @ + 1]
      BY <1>5 DEF ChildWrites
    <2>2. s \in Streams
      BY <1>2
    <2> DEFINE n == pipe[s].wrote + 1
               b == [pipe[s] EXCEPT !.wrote = n]
    <2>3. n \in 0..MaxChunks /\ pipe[s].read <= n
      BY <1>3, <1>4, <2>1, <2>2
    <2>4. pipe' = [pipe EXCEPT ![s] = b]
      BY <1>1, <2>1, <2>2 DEF Pipes, PipeRecs
    <2> HIDE DEF n
    <2>5. /\ b \in PipeRecs
          /\ b.read = pipe[s].read /\ b.wrote = n /\ b.done = pipe[s].done
      BY <1>3, <2>2, <2>3 DEF PipeRecs
    <2> HIDE DEF b
    <2>6. /\ pipe' \in Pipes /\ Total(pipe') = Total(pipe) + b.read - pipe[s].read
          /\ \A u \in Streams : pipe'[u] = IF u = s THEN b ELSE pipe[u]
      <3>1. pipe \in Pipes /\ s \in Streams /\ b \in PipeRecs
        BY <1>1, <2>2, <2>5
      <3>2. pipe' \in Pipes /\ \A u \in Streams : pipe'[u] = IF u = s THEN b ELSE pipe[u]
        BY <2>4, <3>1 DEF Pipes
      <3>3. Total(pipe') = Total(pipe) + b.read - pipe[s].read
        BY <3>1, <3>2, PipeChange
      <3> QED BY <3>2, <3>3
    <2>7. Total(pipe') = Total(pipe)
      BY <1>3, <1>4, <2>2, <2>5, <2>6
    <2>8. child.st = "running" /\ \A u \in Streams : ~pipe[u].done
      BY <1>1, <1>5 DEF ChildWrites, PipesTrue
    <2>9. ~hurt => ~Reported(1, exiter) /\ exiter.pc # "report"
      BY <1>1, <2>2, <2>8, NotDrained
    <2>10. PipesTrue(req.tty, pipe', child.st, exiter, 1, hurt)
      <3>1. ASSUME NEW u \in Streams
            PROVE  /\ pipe'[u].read <= pipe'[u].wrote /\ ~pipe'[u].done
                   /\ u \notin ReadersOf(req.tty) => pipe'[u].wrote = 0
        <4>1. CASE u = s
          BY <1>2, <2>2, <2>3, <2>5, <2>6, <2>8, <4>1
        <4>2. CASE u # s
          BY <1>1, <2>6, <2>8, <4>2 DEF PipesTrue
        <4> QED BY <4>1, <4>2
      <3> QED BY <2>9, <3>1 DEF PipesTrue
    <2>11. child' = child /\ exiter' = exiter /\ hurt' = hurt /\ UNCHANGED <<req, conn, wire, asked, starts, fwd>>
      BY <1>5 DEF ChildWrites
    <2> QED BY <1>1, <2>6, <2>7, <2>10, <2>11, QuietStep
  <1>6. ASSUME NEW s \in Streams, ReaderEnds(s)
        PROVE  ExecInv'
    <2>1. /\ pipe[s].read = pipe[s].wrote /\ child.st \in {"zombie", "reaped", "over"}
          /\ pipe' = [pipe EXCEPT ![s].done = TRUE]
          /\ child' = child /\ exiter' = exiter /\ hurt' = hurt /\ UNCHANGED <<req, conn, wire, asked, starts, fwd>>
      BY <1>6 DEF ReaderEnds
    <2> DEFINE b == [pipe[s] EXCEPT !.done = TRUE]
    <2>2. pipe' = [pipe EXCEPT ![s] = b]
      BY <1>1, <2>1 DEF Pipes, PipeRecs
    <2>3. /\ b \in PipeRecs
          /\ b.read = pipe[s].read /\ b.wrote = pipe[s].wrote /\ b.done = TRUE
      BY <1>3 DEF PipeRecs
    <2> HIDE DEF b
    <2>4. /\ pipe' \in Pipes /\ Total(pipe') = Total(pipe) + b.read - pipe[s].read
          /\ \A u \in Streams : pipe'[u] = IF u = s THEN b ELSE pipe[u]
      <3>1. pipe \in Pipes /\ s \in Streams /\ b \in PipeRecs
        BY <1>1, <2>3
      <3>2. pipe' \in Pipes /\ \A u \in Streams : pipe'[u] = IF u = s THEN b ELSE pipe[u]
        BY <2>2, <3>1 DEF Pipes
      <3>3. Total(pipe') = Total(pipe) + b.read - pipe[s].read
        BY <3>1, <3>2, PipeChange
      <3> QED BY <3>2, <3>3
    <2>5. Total(pipe') = Total(pipe)
      BY <1>3, <1>4, <2>3, <2>4
    <2>6. \A u \in Streams : /\ pipe'[u].read = pipe[u].read /\ pipe'[u].wrote = pipe[u].wrote
                             /\ u = s \/ pipe'[u].done = pipe[u].done
                             /\ pipe[u].done => pipe'[u].done
      BY <2>3, <2>4
    <2>7. PipesTrue(req.tty, pipe', child.st, exiter, 1, hurt)
      <3>1. ASSUME NEW u \in Streams
            PROVE  /\ pipe'[u].read <= pipe'[u].wrote
                   /\ pipe'[u].done => pipe'[u].read = pipe'[u].wrote
                                       /\ child.st \in {"zombie", "reaped", "over"}
                   /\ u \notin ReadersOf(req.tty) => pipe'[u].wrote = 0
        BY <1>1, <2>1, <2>6 DEF PipesTrue
      <3>2. Drained(req.tty, pipe) => Drained(req.tty, pipe')
        BY <1>2, <2>6 DEF Drained
      <3> QED BY <1>1, <3>1, <3>2 DEF PipesTrue
    <2> QED BY <1>1, <2>1, <2>4, <2>5, <2>7, QuietStep
  <1>7. ASSUME NEW s \in Streams, ReadChunk(s)
        PROVE  ExecInv'
    <2> DEFINE m == [kind |-> "data", code |-> 0]
    <2>1. /\ s \in Readers /\ pipe[s].read < pipe[s].wrote /\ ~pipe[s].done
          /\ pipe' = [pipe EXCEPT ![s].read = @ + 1]
          /\ wire' = IF conn = "up" THEN Append(wire, m) ELSE wire
          /\ child' = child /\ exiter' = exiter /\ hurt' = hurt /\ req' = req
          /\ UNCHANGED <<conn, asked, starts, fwd>>
      BY <1>7 DEF ReadChunk, SendUp
    <2>2. m \in Msgs /\ m.kind = "data"
      BY DEF Msgs, Codes
    <2> DEFINE n == pipe[s].read + 1
               b == [pipe[s] EXCEPT !.read = n]
    <2> HIDE DEF m
    <2>3. n \in 0..MaxChunks /\ n <= pipe[s].wrote
      BY <1>3, <1>4, <2>1
    <2>4. pipe' = [pipe EXCEPT ![s] = b]
      BY <1>1, <2>1 DEF Pipes, PipeRecs
    <2>5. n = pipe[s].read + 1
      OBVIOUS
    <2> HIDE DEF n
    <2>6. /\ b \in PipeRecs
          /\ b.read = n /\ b.wrote = pipe[s].wrote /\ b.done = pipe[s].done
      BY <1>3, <2>3 DEF PipeRecs
    <2> HIDE DEF b
    <2>7. /\ pipe' \in Pipes /\ Total(pipe') = Total(pipe) + b.read - pipe[s].read
          /\ \A u \in Streams : pipe'[u] = IF u = s THEN b ELSE pipe[u]
      <3>1. pipe \in Pipes /\ s \in Streams /\ b \in PipeRecs
        BY <1>1, <2>6
      <3>2. pipe' \in Pipes /\ \A u \in Streams : pipe'[u] = IF u = s THEN b ELSE pipe[u]
        BY <2>4, <3>1 DEF Pipes
      <3>3. Total(pipe') = Total(pipe) + b.read - pipe[s].read
        BY <3>1, <3>2, PipeChange
      <3> QED BY <3>2, <3>3
    <2>8. Total(pipe') = Total(pipe) + 1
      BY <1>3, <1>4, <2>5, <2>6, <2>7
    <2>9. ~hurt => ~Reported(1, exiter) /\ exiter.pc # "report" /\ req.pc # "join" /\ req.final # "exit"
      BY <1>1, <2>1, NotDrained
    <2>10. PipesTrue(req.tty, pipe', child.st, exiter, 1, hurt)
      <3>1. ASSUME NEW u \in Streams
            PROVE  /\ pipe'[u].read <= pipe'[u].wrote
                   /\ pipe'[u].done => pipe'[u].read = pipe'[u].wrote
                                       /\ child.st \in {"zombie", "reaped", "over"}
                   /\ u \notin ReadersOf(req.tty) => pipe'[u].wrote = 0
        <4>1. CASE u = s
          BY <1>2, <2>1, <2>3, <2>6, <2>7, <4>1
        <4>2. CASE u # s
          BY <1>1, <2>7, <4>2 DEF PipesTrue
        <4> QED BY <4>1, <4>2
      <3> QED BY <2>9, <3>1 DEF PipesTrue
    <2>11. OverTrue(req, pipe', Reported(1, exiter), hurt)
      BY <2>9 DEF OverTrue
    <2>12. wire' \in Seq(Msgs) /\ Flow(req, wire', pipe', Reported(1, exiter), hurt)
      <3>1. PICK k \in 0..2, e \in Nat :
               /\ Shape(wire, k, e)
               /\ k > 0 => Reported(1, exiter)
               /\ req.got + Len(wire) <= Total(pipe) + k
               /\ req.pc \in {"stdin", "wait"} /\ ~hurt => req.got + Len(wire) = Total(pipe) + k
        BY <1>1 DEF ExecInv, Flow
      <3>2. k > 0 /\ ~hurt => FALSE
        BY <2>9, <3>1
      <3>3. Len(wire) \in Nat
        BY <1>1
      <3>4. CASE conn = "up"
        <4>1. wire' = Append(wire, m)
          BY <2>1, <3>4
        <4>2. Shape(wire', k, e) /\ Len(wire') = Len(wire) + 1 /\ wire' \in Seq(Msgs)
          BY <1>1, <2>2, <3>1, <4>1, ShapeData
        <4>3. /\ req.got + Len(wire') <= Total(pipe') + k
              /\ req.pc \in {"stdin", "wait"} /\ ~hurt => req.got + Len(wire') = Total(pipe') + k
          BY <1>1, <1>4, <2>8, <3>1, <3>3, <4>2
        <4> QED BY <3>1, <3>2, <4>2, <4>3 DEF Flow
      <3>5. CASE conn # "up"
        <4>1. wire' = wire
          BY <2>1, <3>5
        <4>2. req.got + Len(wire') <= Total(pipe') + k
          BY <1>1, <1>4, <2>8, <3>1, <3>3, <4>1
        <4>3. ~(req.pc \in {"stdin", "wait"} /\ ~hurt)
          BY <3>5 DEF ExecInv, Phases
        <4> QED BY <1>1, <3>1, <3>2, <4>1, <4>2, <4>3 DEF Flow
      <3> QED BY <3>4, <3>5
    <2> QED BY <1>1, <2>1, <2>7, <2>10, <2>11, <2>12, StartedStep
  <1> QED BY <1>5, <1>6, <1>7

\* The exit thread reports: after all of the output, or with the history marked.
LEMMA ReportKeeps ==
    ASSUME ExecInv, ReportExit
    PROVE  ExecInv'
  <1> DEFINE x == [kind |-> "exit", code |-> exiter.code]
             y == [kind |-> "close", code |-> 0]
             w == IF conn = "up" THEN wire \o <<x, y>> ELSE wire
             z == [exiter EXCEPT !.pc = "none"]
  <1>1. /\ exiter.pc = "report" /\ wire' = w /\ exiter' = z
        /\ req' = req /\ child' = child /\ pipe' = pipe /\ hurt' = hurt /\ UNCHANGED <<conn, asked, starts, fwd>>
    BY DEF ReportExit
  <1>2. /\ starts = 1 /\ child \in ChildRecs /\ pipe \in Pipes /\ exiter \in ExiterRecs /\ hurt \in BOOLEAN
        /\ PipesTrue(req.tty, pipe, child.st, exiter, 1, hurt) /\ req \in ReqRecs /\ wire \in Seq(Msgs)
        /\ req.got \in Nat
    <2>1. starts # 0
      BY <1>1 DEF ExecInv, Phases
    <2> QED BY <2>1 DEF ExecInv, ExecTypes, ReqRecs
  <1>3. x \in Msgs /\ y \in Msgs /\ x.kind = "exit" /\ y.kind = "close" /\ z \in ExiterRecs /\ z.pc = "none"
    BY <1>2 DEF Msgs, ExiterRecs, Codes
  <1> HIDE DEF x, y, z
  <1>4. Total(pipe) \in Nat /\ Len(wire) \in Nat
    BY <1>2, TotalBound
  <1>5. ~Reported(1, exiter) /\ Reported(1, z)
    BY <1>1, <1>3 DEF Reported
  <1>6. PipesTrue(req.tty, pipe, child.st, z, 1, hurt)
    BY <1>1, <1>2 DEF PipesTrue
  <1>7. OverTrue(req, pipe, Reported(1, z), hurt)
    <2>1. OverTrue(req, pipe, Reported(1, exiter), hurt)
      BY <1>2 DEF ExecInv
    <2> QED BY <1>5, <2>1 DEF OverTrue
  <1>8. PICK e \in Nat :
           /\ Shape(wire, 0, e)
           /\ req.got + Len(wire) <= Total(pipe)
           /\ req.pc \in {"stdin", "wait"} /\ ~hurt => req.got + Len(wire) = Total(pipe)
    <2>1. PICK k \in 0..2, e \in Nat :
             /\ Shape(wire, k, e)
             /\ k > 0 => Reported(1, exiter)
             /\ req.got + Len(wire) <= Total(pipe) + k
             /\ req.pc \in {"stdin", "wait"} /\ ~hurt => req.got + Len(wire) = Total(pipe) + k
      BY <1>2 DEF ExecInv, Flow
    <2>2. k = 0
      BY <1>5, <2>1
    <2> QED BY <1>4, <2>1, <2>2
  <1>9. w \in Seq(Msgs) /\ Flow(req, w, pipe, Reported(1, z), hurt)
    <2>1. CASE conn = "up"
      <3>1. w = wire \o <<x, y>>
        BY <2>1
      <3>2. Shape(w, 2, Len(wire)) /\ Len(w) = Len(wire) + 2 /\ w \in Seq(Msgs)
        BY <1>2, <1>3, <1>8, <3>1, ShapeReport
      <3> HIDE DEF w
      <3>3. /\ Len(wire) + 2 = Len(w) /\ req.got + Len(w) <= Total(pipe) + 2
            /\ req.pc \in {"stdin", "wait"} /\ ~hurt => req.got + Len(w) = Total(pipe) + 2
        BY <1>2, <1>4, <1>8, <3>2
      <3>4. 2 \in 0..2
        OBVIOUS
      <3> QED BY <1>4, <1>5, <3>2, <3>3, <3>4 DEF Flow
    <2>2. CASE conn # "up"
      <3>1. w = wire
        BY <2>2
      <3>2. /\ 0 \in 0..2 /\ ~(0 > 0) /\ req.got + Len(wire) <= Total(pipe) + 0
            /\ req.pc \in {"stdin", "wait"} /\ ~hurt => req.got + Len(wire) = Total(pipe) + 0
        BY <1>4, <1>8
      <3> HIDE DEF w
      <3> QED BY <1>2, <1>8, <3>1, <3>2 DEF Flow
    <2> QED BY <2>1, <2>2
  <1> HIDE DEF w
  <1> QED BY <1>1, <1>2, <1>3, <1>6, <1>7, <1>9, StartedStep

\* Port-forward channels leave the command alone.
LEMMA ForwardKeeps ==
    ASSUME ExecInv, OpenDirectTcpip \/ ConnectInNetns \/ DirectEnds \/ UNCHANGED execVars
    PROVE  ExecInv'
  <1>1. /\ req' = req /\ conn' = conn /\ wire' = wire /\ child' = child /\ pipe' = pipe /\ exiter' = exiter
        /\ asked' = asked /\ starts' = starts /\ hurt' = hurt
    BY DEF OpenDirectTcpip, ConnectInNetns, DirectEnds, execVars
  <1>2. fwd' \in {"none", "connecting", "open", "closed"}
    BY DEF ExecInv, ExecTypes, OpenDirectTcpip, ConnectInNetns, DirectEnds, execVars
  <1>3. ExecTypes'
    <2>1. ExecTypes
      BY DEF ExecInv
    <2> QED BY <1>1, <1>2, <2>1 DEF ExecTypes
  <1>4. Phases'
    <2>1. Phases
      BY DEF ExecInv
    <2> QED BY <1>1, <2>1 DEF Phases
  <1>5. /\ PipesTrue(req'.tty, pipe', child'.st, exiter', starts', hurt')
        /\ OverTrue(req', pipe', Reported(starts', exiter'), hurt')
        /\ Flow(req', wire', pipe', Reported(starts', exiter'), hurt')
    <2>1. /\ PipesTrue(req.tty, pipe, child.st, exiter, starts, hurt)
          /\ OverTrue(req, pipe, Reported(starts, exiter), hurt)
          /\ Flow(req, wire, pipe, Reported(starts, exiter), hurt)
      BY DEF ExecInv
    <2> QED BY <1>1, <2>1
  <1> QED BY <1>3, <1>4, <1>5 DEF ExecInv, Reported

LEMMA ExecStarts == ExecInit => ExecInv
  <1> SUFFICES ASSUME ExecInit PROVE ExecInv
    OBVIOUS
  <1> DEFINE x == [pc |-> "none", code |-> 0]
  <1>1. /\ req = NoReq /\ conn = "none" /\ wire = <<>> /\ child = NoChild /\ pipe = EmptyPipe /\ exiter = x
        /\ asked = FALSE /\ starts = 0 /\ hurt = FALSE /\ fwd = "none"
    BY DEF ExecInit
  <1>2. x \in ExiterRecs /\ x.pc = "none" /\ <<>> \in Seq(Msgs)
    BY DEF ExiterRecs, Codes
  <1> HIDE DEF x
  <1>3. /\ NoReq.pc = "idle" /\ NoReq.got = 0 /\ NoReq.final = "none" /\ NoChild.st = "none" /\ ~NoChild.held
    BY DEF NoReq, NoChild
  <1>4. ExecTypes
    BY <1>1, <1>2, EmptyStart DEF ExecTypes
  <1>5. Phases
    BY <1>1, <1>2, <1>3 DEF Phases, BeforeSend
  <1>6. PipesTrue(NoReq.tty, EmptyPipe, NoChild.st, x, 0, FALSE)
    BY <1>2, QuietPipes
  <1>7. OverTrue(NoReq, EmptyPipe, Reported(0, x), FALSE)
    BY <1>3 DEF OverTrue
  <1>8. Flow(NoReq, <<>>, EmptyPipe, Reported(0, x), FALSE)
    <2>1. Shape(<<>>, 0, 0) /\ Total(EmptyPipe) = 0 /\ Len(<<>>) = 0
      BY ShapeEmpty, EmptyStart
    <2>2. 0 \in 0..2 /\ 0 \in Nat /\ ~(0 > 0) /\ NoReq.got + Len(<<>>) <= Total(EmptyPipe) + 0
      BY <1>3, <2>1
    <2> QED BY <1>3, <2>1, <2>2 DEF Flow
  <1> QED BY <1>1, <1>4, <1>5, <1>6, <1>7, <1>8 DEF ExecInv

\* What the caller is told follows from the invariant.
LEMMA ExecTells == ExecInv => ExecSound
  <1> SUFFICES ASSUME ExecInv PROVE ExecSound
    OBVIOUS
  <1>1. /\ req \in ReqRecs /\ wire \in Seq(Msgs) /\ pipe \in Pipes /\ starts \in {0, 1}
        /\ req.got \in Nat /\ Len(wire) \in Nat /\ req.attempt \in 0..(ExecAttempts - 1)
        /\ req.code \in Codes \cup {124}
    BY DEF ExecInv, ExecTypes, ReqRecs
  <1>2. /\ Total(pipe) \in Nat /\ Total(pipe) <= 2 * MaxChunks /\ MaxChunks \in Nat
        /\ \A s \in Streams : pipe[s].read \in Nat /\ pipe[s].wrote \in Nat
    BY <1>1, TotalBound, ExecAssumption
  <1>3. req.got <= Total(pipe)
    <2>1. PICK k \in 0..2, e \in Nat : Shape(wire, k, e) /\ req.got + Len(wire) <= Total(pipe) + k
      BY DEF ExecInv, Flow
    <2>2. k <= Len(wire)
      BY <1>1, <2>1 DEF Shape
    <2> QED BY <1>1, <1>2, <2>1, <2>2
  <1>4. ExecTypeOK
    <2>1. req.got <= 2 * MaxChunks /\ req.attempt < ExecAttempts
      BY <1>1, <1>2, <1>3, ExecAssumption
    <2>2. req.code \in ExitCodes \cup {0, 1, 124}
      BY <1>1 DEF Codes
    <2>3. /\ conn \in {"none", "up", "down"} /\ fwd \in {"none", "connecting", "open", "closed"}
          /\ child.st \in {"none", "running", "zombie", "reaped", "over"}
          /\ exiter.pc \in {"none", "wait", "readers", "report"}
      BY DEF ExecInv, ExecTypes, ChildRecs, ExiterRecs
    <2>4. pipe \in [Streams -> [wrote : 0..MaxChunks, read : 0..MaxChunks, done : BOOLEAN]]
      BY <1>1 DEF Pipes, PipeRecs
    <2> QED BY <2>1, <2>2, <2>3, <2>4 DEF ExecTypeOK
  <1>5. StartedOnce
    BY <1>1 DEF StartedOnce
  <1>6. OutputBeforeExit
    <2> SUFFICES ASSUME req.final = "exit", ~hurt, starts = 1
                 PROVE  req.got = pipe["stdout"].wrote + pipe["stderr"].wrote
      BY DEF OutputBeforeExit
    <2>1. Reported(1, exiter) /\ req.got = Total(pipe)
      BY DEF ExecInv, OverTrue
    <2>2. Drained(req.tty, pipe) /\ PipesTrue(req.tty, pipe, child.st, exiter, 1, hurt)
      BY <2>1 DEF ExecInv, PipesTrue
    <2>3. ASSUME NEW s \in Streams PROVE pipe[s].read = pipe[s].wrote
      <3>1. CASE s \in ReadersOf(req.tty)
        BY <2>2, <3>1 DEF Drained, PipesTrue
      <3>2. CASE s \notin ReadersOf(req.tty)
        <4>1. pipe[s].wrote = 0 /\ pipe[s].read <= pipe[s].wrote
          BY <2>2, <3>2 DEF PipesTrue
        <4> QED BY <1>2, <4>1
      <3> QED BY <3>1, <3>2
    <2> QED BY <2>1, <2>3, EmptyStart DEF Total
  <1> QED BY <1>4, <1>5, <1>6 DEF ExecSound

\* For any number of attempts, chunks and exit codes: however the transport breaks
\* and is retried (stream_exec_over_ssh) and the command's readers, exit and reaper
\* threads interleave (ssh.rs), the command starts at most once, and an exit event
\* that follows an unbroken connection follows every chunk the command wrote.
THEOREM OutputPrecedesExit == ExecSpec => []ExecSound
  <1>1. ExecInit => ExecInv
    BY ExecStarts
  <1>2. ExecInv /\ [ExecNext]_execVars => ExecInv'
    <2> SUFFICES ASSUME ExecInv, ExecNext \/ UNCHANGED execVars
                 PROVE  ExecInv'
      OBVIOUS
    <2>1. CASE TaskActions
      BY <2>1, TaskKeeps
    <2>2. CASE ReceiveMessage
      BY <2>2, ReceiptKeeps
    <2>3. CASE SpawnChild
      BY <2>3, SpawnKeeps
    <2>4. CASE ProcessActions
      BY <2>4, ProcessKeeps
    <2>5. CASE ChildWrites \/ \E s \in Streams : ReadChunk(s) \/ ReaderEnds(s)
      BY <2>5, StreamKeeps
    <2>6. CASE ReportExit
      BY <2>6, ReportKeeps
    <2>7. CASE OpenDirectTcpip \/ ConnectInNetns \/ DirectEnds \/ UNCHANGED execVars
      BY <2>7, ForwardKeeps
    <2>8. CASE ConnectionBreaks
      <3>1. /\ conn' = "down" /\ wire' = <<>> /\ hurt' = TRUE /\ asked' \in {asked, FALSE}
            /\ UNCHANGED <<req, child, pipe, exiter, starts, fwd>>
        BY <2>8 DEF ConnectionBreaks
      <3>2. asked' \in BOOLEAN /\ (asked' => asked)
        <4>1. asked \in BOOLEAN
          BY DEF ExecInv, ExecTypes
        <4>2. CASE asked' = asked
          BY <4>1, <4>2
        <4>3. CASE asked' = FALSE
          BY <4>3
        <4> QED BY <3>1, <4>2, <4>3
      <3> QED BY <3>1, <3>2, BreakStep
    <2> QED BY <2>1, <2>2, <2>3, <2>4, <2>5, <2>6, <2>7, <2>8 DEF ExecNext, TaskActions, ProcessActions
  <1>3. ExecInv => ExecSound
    BY ExecTells
  <1> QED BY <1>1, <1>2, <1>3, PTL DEF ExecSpec

-----------------------------------------------------------------------------
(* Providers: records that are checked in one call and written in another. *)

ProvRecs == [id : 1..MaxProvId, name : ProvNames, type : ProvTypes, creds : SUBSET CredKeys]
CallRecs ==
    [pc : {"idle", "get", "put", "ok", "exists", "error"}, op : {"", "create", "update"},
     rec : [id : 0..MaxProvId, name : ProvNames \cup {""}, type : ProvTypes \cup {""}, creds : SUBSET CredKeys]]
EnsRecs ==
    [pc : {"idle", "list", "explicit", "inferred", "create", "created", "done", "failed"},
     explicit : {<<>>} \cup {<<n>> : n \in ProvNames}, inferred : {<<>>} \cup {<<t>> : t \in ProvTypes},
     mode : {"auto", "never", "batch"}, offset : Nat, known : SUBSET ProvNames,
     typeName : [ProvTypes -> ProvNames \cup {""}], configured : Seq(ProvNames), try : Nat,
     skipped : SUBSET ProvTypes]

\* Two writes of one id are of one name and one type.
Agree(r, s) == r.id = s.id => r.name = s.name /\ r.type = s.type

StoreTrue(st, last, ev) ==
    /\ st \in Seq(ProvRecs)
    /\ \A i \in DOMAIN st : st[i].id <= last /\ <<st[i].name, st[i].type>> \in ev
    /\ \A i, j \in DOMAIN st : st[i].name = st[j].name \/ st[i].id = st[j].id => i = j

CallTrue(r, st, last) ==
    /\ r \in CallRecs
    /\ r.pc = "get" => r.rec.name \in ProvNames /\ (r.op = "create" => r.rec.type \in ProvTypes)
    /\ r.pc = "put" => /\ r.rec \in ProvRecs /\ r.rec.id <= last
                       /\ \A i \in DOMAIN st : Agree(st[i], r.rec)
WritesAgree(cs) == \A c, d \in ProvCallers : cs[c].pc = "put" /\ cs[d].pc = "put" => Agree(cs[c].rec, cs[d].rec)

CallsTrue(cs, st, last) ==
    /\ cs \in [ProvCallers -> CallRecs]
    /\ \A c \in ProvCallers : CallTrue(cs[c], st, last)
    /\ \A c \in Admins : cs[c].pc \in {"idle", "get", "put"}
    /\ WritesAgree(cs)

WantedOf(e) == NormalizeProviderType(Head(IF e.explicit # <<>> THEN e.explicit ELSE e.inferred))

EnsTrue(e, ev) ==
    /\ e \in EnsRecs
    /\ \A t \in ProvTypes : e.typeName[t] # "" => <<e.typeName[t], t>> \in ev \/ t \in e.skipped
    /\ e.pc = "inferred" => e.explicit = <<>>
    /\ e.pc \in {"create", "created"} =>
          IF e.explicit = <<>> THEN e.inferred # <<>> ELSE Head(e.explicit) \in ProvTypes
    /\ e.pc = "done" => \A i \in DOMAIN e.inferred :
          \/ e.inferred[i] \in e.skipped
          \/ \E n \in ToSet(e.configured) : <<n, e.inferred[i]>> \in ev

\* The command line's creation is of the name and the type it waits for.
CreateTrue(e, r, ev) ==
    /\ e.pc # "created" => r.pc = "idle"
    /\ e.pc = "created" =>
          \E n \in ProvNames :
             /\ e.known = {n} /\ (e.explicit # <<>> => n = Head(e.explicit))
             /\ r.pc \in {"get", "put"} => r.op = "create" /\ r.rec.name = n /\ r.rec.type = WantedOf(e)
             /\ r.pc = "ok" => <<n, WantedOf(e)>> \in ev

ProvInv ==
    /\ lastId \in 0..MaxProvId
    /\ StoreTrue(store, lastId, ever)
    /\ CallsTrue(provCalls, store, lastId)
    /\ EnsTrue(ens, ever)
    /\ CreateTrue(ens, provCalls[Cli], ever)

\* The rows a write leaves are the record written and rows that were there.
RowsFrom(st, old, r) == \A i \in DOMAIN st : st[i] = r \/ \E j \in DOMAIN old : st[i] = old[j]

LEMMA ProvBounds == MaxProvId \in Nat /\ 0 \in 0..MaxProvId /\ \A m \in 0..MaxProvId : m \in Nat
  <1>1. MaxProvId \in Nat
    BY ProvidersAssumption
  <1> QED BY <1>1

LEMMA StoreIs ==
    ASSUME NEW last, NEW ev, StoreTrue(store, last, ev)
    PROVE  store \in Seq(ProvRecs) /\ Len(store) \in Nat /\ DOMAIN store = 1..Len(store)
           /\ \A i \in DOMAIN store : store[i] \in ProvRecs
  BY DEF StoreTrue

LEMMA StoreMore ==
    ASSUME NEW st, NEW last \in Nat, NEW more \in Nat, last <= more, NEW ev, StoreTrue(st, last, ev)
    PROVE  StoreTrue(st, more, ev)
  <1>1. \A i \in DOMAIN st : st[i].id \in Nat /\ st[i].id <= last
    <2> TAKE i \in DOMAIN st
    <2>1. st \in Seq(ProvRecs)
      BY DEF StoreTrue
    <2>2. st[i] \in ProvRecs
      BY <2>1
    <2>3. \A m \in 1..MaxProvId : m \in Nat
      BY ProvBounds
    <2>4. st[i].id \in 1..MaxProvId
      BY <2>2 DEF ProvRecs
    <2> QED BY <2>3, <2>4 DEF StoreTrue
  <1>2. \A i \in DOMAIN st : st[i].id <= more
    BY <1>1
  <1> QED BY <1>2 DEF StoreTrue

LEMMA PutStore ==
    ASSUME NEW last, StoreTrue(store, last, ever), NEW r \in ProvRecs, r.id <= last,
           \A i \in DOMAIN store : Agree(store[i], r), PutOk(r), Put(r)
    PROVE  StoreTrue(store', last, ever') /\ RowsFrom(store', store, r) /\ ever \subseteq ever' /\ <<r.name, r.type>> \in ever'
  <1>1. store \in Seq(ProvRecs) /\ Len(store) \in Nat /\ DOMAIN store = 1..Len(store)
        /\ \A i \in DOMAIN store : store[i] \in ProvRecs
    BY StoreIs
  <1>2. ever' = ever \cup {<<r.name, r.type>>}
    BY DEF Put
  <1>3. CASE ById(r.id) # {}
    <2>1. store' = [i \in 1..Len(store) |-> IF store[i].id = r.id THEN r ELSE store[i]]
      BY <1>1, <1>3 DEF Put
    <2>2. DOMAIN store' = 1..Len(store) /\ \A i \in 1..Len(store) : store'[i] = IF store[i].id = r.id THEN r ELSE store[i]
      BY <2>1
    <2>3. store' \in [1..Len(store) -> ProvRecs]
      BY <1>1, <2>1
    <2>4. store' \in Seq(ProvRecs)
      BY <1>1, <2>3, SeqDef
    <2>5. \A i \in DOMAIN store' : store'[i].id = store[i].id /\ store'[i].name = store[i].name /\ store'[i].type = store[i].type
      BY <1>1, <2>2 DEF Agree
    <2>6. \A i \in DOMAIN store' : store'[i].id <= last /\ <<store'[i].name, store'[i].type>> \in ever'
      BY <1>1, <1>2, <2>2, <2>5 DEF StoreTrue
    <2>7. \A i, j \in DOMAIN store' : store'[i].name = store'[j].name \/ store'[i].id = store'[j].id => i = j
      BY <1>1, <2>2, <2>5 DEF StoreTrue
    <2>8. RowsFrom(store', store, r)
      BY <1>1, <2>2 DEF RowsFrom
    <2> QED BY <1>2, <2>4, <2>6, <2>7, <2>8 DEF StoreTrue
  <1>4. CASE ById(r.id) = {}
    <2>1. store' = Append(store, r) /\ ByName(r.name) = {}
      BY <1>4 DEF Put, PutOk
    <2>2. store' \in Seq(ProvRecs) /\ DOMAIN store' = 1..(Len(store) + 1)
      BY <1>1, <2>1
    <2>3. \A i \in 1..Len(store) : store'[i] = store[i] /\ store[i].id # r.id /\ store[i].name # r.name
      BY <1>1, <1>4, <2>1 DEF ById, ByName
    <2>4. store'[Len(store) + 1] = r
      BY <1>1, <2>1
    <2>5. \A i \in 1..(Len(store) + 1) : i \in 1..Len(store) \/ i = Len(store) + 1
      BY <1>1
    <2>6. \A i \in DOMAIN store' : store'[i].id <= last /\ <<store'[i].name, store'[i].type>> \in ever'
      BY <1>1, <1>2, <2>2, <2>3, <2>4, <2>5 DEF StoreTrue
    <2>7. \A i, j \in DOMAIN store' : store'[i].name = store'[j].name \/ store'[i].id = store'[j].id => i = j
      BY <1>1, <2>2, <2>3, <2>4, <2>5 DEF StoreTrue
    <2>8. RowsFrom(store', store, r)
      BY <1>1, <2>2, <2>3, <2>4, <2>5 DEF RowsFrom
    <2> QED BY <1>2, <2>2, <2>6, <2>7, <2>8 DEF StoreTrue
  <1> QED BY <1>3, <1>4

LEMMA DeleteStore ==
    ASSUME NEW last, StoreTrue(store, last, ever), NEW n, DeleteByName(n)
    PROVE  StoreTrue(store', last, ever) /\ \A i \in DOMAIN store' : \E j \in DOMAIN store : store'[i] = store[j]
  <1>1. store \in Seq(ProvRecs) /\ Len(store) \in Nat /\ DOMAIN store = 1..Len(store)
    BY StoreIs
  <1>2. PICK k \in 1..Len(store) : store' = RemoveAt(store, k)
    BY <1>1 DEF DeleteByName, ByName
  <1> DEFINE a == SubSeq(store, 1, k - 1)
             b == SubSeq(store, k + 1, Len(store))
             at(i) == IF i < k THEN i ELSE i + 1
  <1>3. a \in Seq(ProvRecs) /\ Len(a) = k - 1 /\ \A i \in 1..(k - 1) : a[i] = store[i]
    BY <1>1
  <1>4. b \in Seq(ProvRecs) /\ Len(b) = Len(store) - k /\ \A i \in 1..(Len(store) - k) : b[i] = store[k + i]
    <2>1. \A i \in (k + 1)..Len(store) : store[i] \in ProvRecs
      BY <1>1
    <2>2. k + 1 \in Int /\ Len(store) \in Int
      BY <1>1
    <2>3. /\ b \in Seq(ProvRecs)
          /\ Len(b) = IF k + 1 <= Len(store) THEN Len(store) - (k + 1) + 1 ELSE 0
          /\ \A i \in 1..(Len(store) - (k + 1) + 1) : b[i] = store[(k + 1) + i - 1]
      BY <2>1, <2>2, SubSeqProperties
    <2> HIDE DEF b
    <2> DEFINE len == Len(store)
    <2>4. len \in Nat /\ k \in 1..len
      BY <1>1
    <2> HIDE DEF len
    <2>5. len - (k + 1) + 1 = len - k /\ (IF k + 1 <= len THEN len - k ELSE 0) = len - k /\ \A i \in 1..(len - k) : (k + 1) + i - 1 = k + i
      BY <2>4
    <2> QED BY <2>3, <2>5 DEF len
  <1>5. store' = a \o b
    BY <1>2 DEF RemoveAt
  <1> HIDE DEF a, b
  <1>c. /\ store' \in Seq(ProvRecs) /\ Len(store') = Len(a) + Len(b)
        /\ \A i \in 1..(Len(a) + Len(b)) : store'[i] = IF i <= Len(a) THEN a[i] ELSE b[i - Len(a)]
    BY <1>3, <1>4, <1>5, ConcatProperties
  <1>6. store' \in Seq(ProvRecs) /\ DOMAIN store' = 1..(Len(store) - 1)
    <2>1. Len(store') = Len(store) - 1
      BY <1>1, <1>3, <1>4, <1>c
    <2> QED BY <1>c, <2>1
  <1>7. \A i \in 1..(Len(store) - 1) : at(i) \in 1..Len(store)
    BY <1>1
  <1>8. \A i \in 1..(Len(store) - 1) : store'[i] = store[at(i)]
    <2> TAKE i \in 1..(Len(store) - 1)
    <2>1. CASE i < k
      <3>1. i \in 1..Len(a)
        BY <1>3, <2>1
      <3>2. store'[i] = a[i]
        <4>1. i \in 1..(Len(a) + Len(b)) /\ i <= Len(a)
          BY <1>1, <1>3, <1>4, <3>1
        <4> QED BY <1>c, <4>1
      <3> QED BY <1>3, <2>1, <3>1, <3>2
    <2>2. CASE ~(i < k)
      <3>1. i - (k - 1) \in 1..Len(b) /\ i \in 1..(Len(a) + Len(b)) /\ ~(i <= Len(a))
        BY <1>1, <1>3, <1>4, <2>2
      <3>2. store'[i] = b[i - (k - 1)]
        BY <1>3, <1>c, <3>1
      <3>3. b[i - (k - 1)] = store[i + 1]
        BY <1>4, <3>1
      <3> QED BY <2>2, <3>2, <3>3
    <2> QED BY <2>1, <2>2
  <1>9. \A i, j \in 1..(Len(store) - 1) : at(i) = at(j) => i = j
    BY <1>1
  <1> HIDE DEF at
  <1>10. \A i, j \in DOMAIN store' : store'[i].name = store'[j].name \/ store'[i].id = store'[j].id => i = j
    BY <1>1, <1>6, <1>7, <1>8, <1>9 DEF StoreTrue
  <1>11. \A i \in DOMAIN store' : store'[i].id <= last /\ <<store'[i].name, store'[i].type>> \in ever
    BY <1>1, <1>6, <1>7, <1>8 DEF StoreTrue
  <1>12. \A i \in DOMAIN store' : \E j \in DOMAIN store : store'[i] = store[j]
    BY <1>1, <1>6, <1>7, <1>8
  <1> QED BY <1>6, <1>10, <1>11, <1>12 DEF StoreTrue

LEMMA EverGrows ==
    ASSUME NEW e, NEW r, NEW ev, NEW more, ev \subseteq more
    PROVE  /\ EnsTrue(e, ev) => EnsTrue(e, more)
           /\ CreateTrue(e, r, ev) => CreateTrue(e, r, more)
  <1>1. EnsTrue(e, ev) => EnsTrue(e, more)
    <2> SUFFICES ASSUME EnsTrue(e, ev) PROVE EnsTrue(e, more)
      OBVIOUS
    <2>1. e.pc = "done" => \A i \in DOMAIN e.inferred :
            \/ e.inferred[i] \in e.skipped
            \/ \E n \in ToSet(e.configured) : <<n, e.inferred[i]>> \in more
      BY DEF EnsTrue
    <2>2. \A t \in ProvTypes : e.typeName[t] # "" => <<e.typeName[t], t>> \in more \/ t \in e.skipped
      BY DEF EnsTrue
    <2> QED BY <2>1, <2>2 DEF EnsTrue
  <1>2. CreateTrue(e, r, ev) => CreateTrue(e, r, more)
    BY DEF CreateTrue
  <1> QED BY <1>1, <1>2

LEMMA CallsStand ==
    ASSUME NEW cs, NEW st, NEW last \in Nat, CallsTrue(cs, st, last), NEW st2, NEW more \in Nat, last <= more,
           \A c \in ProvCallers : cs[c].pc = "put" => \A i \in DOMAIN st2 : Agree(st2[i], cs[c].rec)
    PROVE  CallsTrue(cs, st2, more)
  <1>1. ASSUME NEW c \in ProvCallers PROVE CallTrue(cs[c], st2, more)
    <2>1. CallTrue(cs[c], st, last)
      BY DEF CallsTrue
    <2>2. cs[c].pc = "put" => cs[c].rec \in ProvRecs /\ cs[c].rec.id <= last
      BY <2>1 DEF CallTrue
    <2>3. \A m \in 1..MaxProvId : m <= last => m <= more
      BY ProvBounds
    <2>4. cs[c].rec \in ProvRecs => cs[c].rec.id \in 1..MaxProvId
      BY DEF ProvRecs
    <2>5. cs[c].pc = "put" => cs[c].rec.id <= more
      BY <2>2, <2>3, <2>4
    <2> QED BY <2>1, <2>5 DEF CallTrue
  <1> QED BY <1>1 DEF CallsTrue

LEMMA CallSet ==
    ASSUME NEW cs, NEW st, NEW last, CallsTrue(cs, st, last), NEW c \in ProvCallers,
           NEW cs2 \in [ProvCallers -> CallRecs], \A d \in ProvCallers : d # c => cs2[d] = cs[d],
           CallTrue(cs2[c], st, last), c \in Admins => cs2[c].pc \in {"idle", "get", "put"},
           cs2[c].pc = "put" => \A d \in ProvCallers : d # c /\ cs[d].pc = "put" => Agree(cs[d].rec, cs2[c].rec)
    PROVE  CallsTrue(cs2, st, last)
  <1>3. \A d \in ProvCallers : CallTrue(cs2[d], st, last)
    BY DEF CallsTrue
  <1>4. \A d \in Admins : cs2[d].pc \in {"idle", "get", "put"}
    BY DEF CallsTrue, ProvCallers
  <1>5. ASSUME NEW a \in ProvCallers, NEW b \in ProvCallers, cs2[a].pc = "put", cs2[b].pc = "put"
        PROVE  Agree(cs2[a].rec, cs2[b].rec)
    <2>1. CASE a # c /\ b # c
      BY <1>5, <2>1 DEF CallsTrue, WritesAgree
    <2>2. CASE a = c /\ b = c
      BY <2>2 DEF Agree
    <2>3. CASE a = c /\ b # c
      BY <1>5, <2>3 DEF Agree
    <2>4. CASE a # c /\ b = c
      BY <1>5, <2>4
    <2> QED BY <2>1, <2>2, <2>3, <2>4
  <1>6. WritesAgree(cs2)
    BY <1>5 DEF WritesAgree
  <1> QED BY <1>3, <1>4, <1>6 DEF CallsTrue

LEMMA DoneCall ==
    ASSUME NEW st, NEW last, CallsTrue(provCalls, st, last), NEW c \in ProvCallers,
           NEW pc \in {"idle", "ok", "exists", "error"}, Done(c, pc)
    PROVE  /\ CallsTrue(provCalls', st, last)
           /\ provCalls'[c].pc = IF c = Cli THEN pc ELSE "idle"
           /\ \A d \in ProvCallers : d # c => provCalls'[d] = provCalls[d]
  <1> DEFINE q == [NoCall EXCEPT !.pc = IF c = Cli THEN pc ELSE "idle"]
  <1>1. provCalls' = [provCalls EXCEPT ![c] = q]
    BY DEF Done
  <1>2. NoRec.id \in 0..MaxProvId
    BY ProvBounds DEF NoRec
  <1>3. q \in CallRecs /\ q.pc = IF c = Cli THEN pc ELSE "idle"
    BY <1>2 DEF NoCall, NoRec, CallRecs
  <1>4. c \in Admins => c # Cli
    BY ProvidersAssumption
  <1> HIDE DEF q
  <1>5. q.pc \notin {"get", "put"} /\ (c \in Admins => q.pc = "idle")
    BY <1>3, <1>4
  <1>6. CallTrue(q, st, last)
    BY <1>3, <1>5 DEF CallTrue
  <1>7. CallsTrue(provCalls', st, last) /\ provCalls'[c] = q /\ \A d \in ProvCallers : d # c => provCalls'[d] = provCalls[d]
    <2>1. q.pc # "put" /\ (c \in Admins => q.pc \in {"idle", "get", "put"})
      BY <1>5
    <2>2. provCalls \in [ProvCallers -> CallRecs]
      BY DEF CallsTrue
    <2>3. provCalls' \in [ProvCallers -> CallRecs] /\ provCalls'[c] = q /\ \A d \in ProvCallers : d # c => provCalls'[d] = provCalls[d]
      BY <1>1, <1>3, <2>2
    <2> QED BY <1>6, <2>1, <2>3, CallSet
  <1> QED BY <1>3, <1>7

Requests == [id : {0}, name : ProvNames, type : ProvTypes \cup {""}, creds : SUBSET CredKeys]

LEMMA SendCall ==
    ASSUME NEW st, NEW last, CallsTrue(provCalls, st, last), NEW c \in ProvCallers, NEW op \in {"create", "update"},
           NEW r \in Requests, op = "create" => r.type \in ProvTypes, Send(c, op, r)
    PROVE  /\ CallsTrue(provCalls', st, last)
           /\ provCalls'[c].pc = "get" /\ provCalls'[c].op = op /\ provCalls'[c].rec = r
           /\ \A d \in ProvCallers : d # c => provCalls'[d] = provCalls[d]
  <1> DEFINE q == [pc |-> "get", op |-> op, rec |-> r]
  <1>1. provCalls' = [provCalls EXCEPT ![c] = q]
    BY DEF Send
  <1>2. 0 \in 0..MaxProvId
    BY ProvBounds
  <1>3. q \in CallRecs /\ q.pc = "get" /\ q.op = op /\ q.rec = r /\ r.name \in ProvNames
    BY <1>2 DEF CallRecs, Requests
  <1> HIDE DEF q
  <1>4. CallTrue(q, st, last)
    BY <1>3 DEF CallTrue
  <1>5. CallsTrue(provCalls', st, last) /\ provCalls'[c] = q /\ \A d \in ProvCallers : d # c => provCalls'[d] = provCalls[d]
    <2>1. q.pc # "put" /\ (c \in Admins => q.pc \in {"idle", "get", "put"})
      BY <1>3
    <2>2. provCalls \in [ProvCallers -> CallRecs]
      BY DEF CallsTrue
    <2>3. provCalls' \in [ProvCallers -> CallRecs] /\ provCalls'[c] = q /\ \A d \in ProvCallers : d # c => provCalls'[d] = provCalls[d]
      BY <1>1, <1>3, <2>2
    <2> QED BY <1>4, <2>1, <2>3, CallSet
  <1> QED BY <1>3, <1>5

LEMMA CliHandled ==
    ASSUME ProvInv, NEW c \in ProvCallers, NEW cs, \A d \in ProvCallers : d # c => cs[d] = provCalls[d],
           c = Cli => provCalls[c].pc # "idle" /\ cs[c].pc \in {"put", "exists", "error"}
                      /\ (cs[c].pc = "put" => cs[c].op = "create" /\ cs[c].rec.name = provCalls[c].rec.name
                                              /\ cs[c].rec.type = provCalls[c].rec.type /\ provCalls[c].pc = "get")
    PROVE  CreateTrue(ens, cs[Cli], ever)
  <1>1. CreateTrue(ens, provCalls[Cli], ever)
    BY DEF ProvInv
  <1>2. CASE c # Cli
    BY <1>1, <1>2 DEF ProvCallers
  <1>3. CASE c = Cli
    <2>1. ens.pc = "created"
      BY <1>1, <1>3 DEF CreateTrue
    <2>2. PICK n \in ProvNames :
             /\ ens.known = {n} /\ (ens.explicit # <<>> => n = Head(ens.explicit))
             /\ provCalls[Cli].pc \in {"get", "put"} =>
                  provCalls[Cli].op = "create" /\ provCalls[Cli].rec.name = n /\ provCalls[Cli].rec.type = WantedOf(ens)
      BY <1>1, <2>1 DEF CreateTrue
    <2>3. cs[Cli].pc \in {"put", "exists", "error"}
          /\ (cs[Cli].pc = "put" => cs[Cli].op = "create" /\ cs[Cli].rec.name = n /\ cs[Cli].rec.type = WantedOf(ens))
      BY <1>3, <2>2
    <2>4. cs[Cli].pc \in {"get", "put"} => cs[Cli].op = "create" /\ cs[Cli].rec.name = n /\ cs[Cli].rec.type = WantedOf(ens)
      BY <2>3
    <2>5. cs[Cli].pc # "ok"
      BY <2>3
    <2> QED BY <2>1, <2>2, <2>4, <2>5 DEF CreateTrue
  <1> QED BY <1>2, <1>3

LEMMA AdminSteps ==
    ASSUME ProvInv, NEW c \in ProvCallers, ProviderCreate(c) \/ ProviderUpdate(c) \/ ProviderDelete(c)
    PROVE  ProvInv'
  <1>1. c \in Admins /\ c # Cli /\ Cli \in ProvCallers
    BY ProvidersAssumption DEF ProviderCreate, ProviderUpdate, ProviderDelete, ProvCallers
  <1>2. CallsTrue(provCalls, store, lastId) /\ StoreTrue(store, lastId, ever) /\ lastId \in Nat
    BY ProvBounds DEF ProvInv
  <1>3. CASE ProviderCreate(c) \/ ProviderUpdate(c)
    <2>2. PICK op \in {"create", "update"}, r \in Requests : (op = "create" => r.type \in ProvTypes) /\ Send(c, op, r)
      <3>1. CASE ProviderCreate(c)
        <4>1. PICK n \in ProvNames, t \in ProvTypes, k \in CredKeys :
                 Send(c, "create", [id |-> 0, name |-> n, type |-> t, creds |-> {k}])
          BY <3>1 DEF ProviderCreate
        <4>2. [id |-> 0, name |-> n, type |-> t, creds |-> {k}] \in Requests
          BY DEF Requests
        <4> QED BY <4>1, <4>2
      <3>2. CASE ProviderUpdate(c)
        <4>1. PICK n \in ProvNames, t \in ProvTypes \cup {""}, ks \in SUBSET CredKeys :
                 Send(c, "update", [id |-> 0, name |-> n, type |-> t, creds |-> ks])
          BY <3>2 DEF ProviderUpdate
        <4>2. [id |-> 0, name |-> n, type |-> t, creds |-> ks] \in Requests
          BY DEF Requests
        <4> QED BY <4>1, <4>2
      <3> QED BY <1>3, <3>1, <3>2
    <2>3. CallsTrue(provCalls', store, lastId) /\ \A d \in ProvCallers : d # c => provCalls'[d] = provCalls[d]
      BY <1>2, <2>2, SendCall
    <2>4. provCalls'[Cli] = provCalls[Cli]
      BY <1>1, <2>3
    <2>5. UNCHANGED <<store, lastId, ens, env, ever>>
      BY <1>3 DEF ProviderCreate, ProviderUpdate
    <2> QED BY <2>3, <2>4, <2>5 DEF ProvInv
  <1>4. CASE ProviderDelete(c)
    <2>1. UNCHANGED <<lastId, provCalls, ens, env, ever>> /\ \E n \in ProvNames : DeleteByName(n)
      BY <1>4 DEF ProviderDelete
    <2>2. StoreTrue(store', lastId, ever) /\ \A i \in DOMAIN store' : \E j \in DOMAIN store : store'[i] = store[j]
      BY <1>2, <2>1, DeleteStore
    <2>3. \A d \in ProvCallers : provCalls[d].pc = "put" => \A i \in DOMAIN store : Agree(store[i], provCalls[d].rec)
      BY <1>2 DEF CallsTrue, CallTrue
    <2>4. \A d \in ProvCallers : provCalls[d].pc = "put" => \A i \in DOMAIN store' : Agree(store'[i], provCalls[d].rec)
      BY <2>2, <2>3
    <2>5. lastId <= lastId
      BY <1>2
    <2>6. CallsTrue(provCalls, store', lastId)
      BY <1>2, <2>4, <2>5, CallsStand
    <2> QED BY <2>1, <2>2, <2>6 DEF ProvInv
  <1> QED BY <1>3, <1>4

LEMMA CreateCheckStep ==
    ASSUME ProvInv, NEW c \in ProvCallers, CreateCheck(c)
    PROVE  ProvInv'
  <1>1. CallsTrue(provCalls, store, lastId) /\ StoreTrue(store, lastId, ever) /\ lastId \in Nat /\ lastId \in 0..MaxProvId
        /\ EnsTrue(ens, ever) /\ CreateTrue(ens, provCalls[Cli], ever)
    BY ProvBounds DEF ProvInv
  <1>2. provCalls[c].pc = "get" /\ provCalls[c].op = "create" /\ UNCHANGED <<store, ens, env, ever>>
    BY DEF CreateCheck
  <1>3. CASE ByName(provCalls[c].rec.name) # {}
    <2>1. Done(c, "exists") /\ lastId' = lastId
      BY <1>3 DEF CreateCheck
    <2>2. /\ CallsTrue(provCalls', store, lastId)
          /\ provCalls'[c].pc = IF c = Cli THEN "exists" ELSE "idle"
          /\ \A d \in ProvCallers : d # c => provCalls'[d] = provCalls[d]
      BY <1>1, <2>1, DoneCall
    <2>3. c = Cli => provCalls[c].pc # "idle" /\ provCalls'[c].pc \in {"put", "exists", "error"} /\ provCalls'[c].pc # "put"
      BY <1>2, <2>2
    <2>4. CreateTrue(ens, provCalls'[Cli], ever)
      BY <2>2, <2>3, CliHandled
    <2> QED BY <1>1, <1>2, <2>1, <2>2, <2>4 DEF ProvInv
  <1>4. CASE ByName(provCalls[c].rec.name) = {}
    <2> DEFINE r == provCalls[c]
    <2>1. /\ lastId < MaxProvId /\ lastId' = lastId + 1
          /\ provCalls' = [provCalls EXCEPT ![c].pc = "put", ![c].rec.id = lastId + 1]
      BY <1>4 DEF CreateCheck
    <2>2. provCalls \in [ProvCallers -> CallRecs] /\ r \in CallRecs /\ r.rec.name \in ProvNames /\ r.rec.type \in ProvTypes
          /\ r.rec.creds \in SUBSET CredKeys
      BY <1>1, <1>2 DEF CallsTrue, CallTrue, CallRecs
    <2>3. lastId' \in 1..MaxProvId /\ lastId' \in 0..MaxProvId /\ lastId <= lastId' /\ lastId' \in Nat
      BY <1>1, <2>1, ProvBounds
    <2>4. \A d \in ProvCallers : d # c => provCalls'[d] = provCalls[d]
      BY <2>1, <2>2
    <2>5. /\ provCalls'[c].pc = "put" /\ provCalls'[c].op = "create" /\ provCalls'[c].rec.id = lastId'
          /\ provCalls'[c].rec.name = r.rec.name /\ provCalls'[c].rec.type = r.rec.type
      BY <1>2, <2>1, <2>2 DEF CallRecs
    <2>6. provCalls'[c].rec \in ProvRecs /\ provCalls'[c] \in CallRecs
      BY <2>1, <2>2, <2>3 DEF ProvRecs, CallRecs
    <2>7. provCalls' \in [ProvCallers -> CallRecs]
      BY <2>1, <2>2, <2>6
    <2>8. \A d \in ProvCallers : provCalls[d].pc = "put" => \A i \in DOMAIN store : Agree(store[i], provCalls[d].rec)
      BY <1>1 DEF CallsTrue, CallTrue
    <2>9. CallsTrue(provCalls, store, lastId')
      BY <1>1, <2>3, <2>8, CallsStand
    <2>10. StoreTrue(store, lastId', ever)
      BY <1>1, <2>3, StoreMore
    <2>11. \A m \in 0..MaxProvId : m <= lastId => m # lastId'
      BY <1>1, <2>1, ProvBounds
    <2>12. \A i \in DOMAIN store : store[i].id # lastId'
      <3> TAKE i \in DOMAIN store
      <3>1. store[i] \in ProvRecs /\ store[i].id <= lastId
        BY <1>1, StoreIs DEF StoreTrue
      <3>2. store[i].id \in 0..MaxProvId
        BY <3>1, ProvBounds DEF ProvRecs
      <3> QED BY <2>11, <3>1, <3>2
    <2>13. \A d \in ProvCallers : d # c /\ provCalls[d].pc = "put" => provCalls[d].rec.id # lastId'
      <3> TAKE d \in ProvCallers
      <3>1. provCalls[d].pc = "put" => provCalls[d].rec \in ProvRecs /\ provCalls[d].rec.id <= lastId
        BY <1>1 DEF CallsTrue, CallTrue
      <3>2. provCalls[d].rec \in ProvRecs => provCalls[d].rec.id \in 0..MaxProvId
        BY ProvBounds DEF ProvRecs
      <3> QED BY <2>11, <3>1, <3>2
    <2>14. provCalls'[c].rec.id <= lastId'
      BY <2>3, <2>5
    <2> DEFINE q == provCalls'[c]
    <2> HIDE DEF r
    <2>15. CallTrue(q, store, lastId')
      BY <2>5, <2>6, <2>12, <2>14 DEF CallTrue, Agree
    <2>16. \A d \in ProvCallers : d # c /\ provCalls[d].pc = "put" => Agree(provCalls[d].rec, q.rec)
      BY <2>5, <2>13 DEF Agree
    <2>17. CallsTrue(provCalls', store, lastId')
      BY <2>4, <2>5, <2>7, <2>9, <2>15, <2>16, CallSet
    <2>18. CreateTrue(ens, provCalls'[Cli], ever)
      BY <1>2, <2>4, <2>5, CliHandled DEF r
    <2> QED BY <1>1, <1>2, <2>3, <2>10, <2>17, <2>18 DEF ProvInv
  <1> QED BY <1>3, <1>4

LEMMA UpdateGetStep ==
    ASSUME ProvInv, NEW c \in ProvCallers, UpdateGet(c)
    PROVE  ProvInv'
  <1>1. CallsTrue(provCalls, store, lastId) /\ StoreTrue(store, lastId, ever) /\ lastId \in Nat /\ lastId \in 0..MaxProvId
        /\ EnsTrue(ens, ever) /\ CreateTrue(ens, provCalls[Cli], ever)
    BY ProvBounds DEF ProvInv
  <1>2. provCalls[c].pc = "get" /\ provCalls[c].op = "update" /\ UNCHANGED <<store, lastId, ens, env, ever>>
    BY DEF UpdateGet
  <1>3. c # Cli
    BY <1>1, <1>2 DEF CreateTrue
  <1>4. \/ Done(c, "error")
        \/ \E i \in DOMAIN store, creds \in SUBSET CredKeys :
              provCalls' = [provCalls EXCEPT ![c].pc = "put", ![c].rec = [store[i] EXCEPT !.creds = creds]]
    <2>1. \/ Done(c, "error")
          \/ \E i \in DOMAIN store : \E creds \in MergeMap(store[i].creds, provCalls[c].rec.creds) :
                provCalls' = [provCalls EXCEPT ![c].pc = "put", ![c].rec = [store[i] EXCEPT !.creds = creds]]
      BY DEF UpdateGet, ByName
    <2>2. provCalls[c].rec.creds \in SUBSET CredKeys
      BY <1>1 DEF CallsTrue, CallRecs
    <2>3. \A i \in DOMAIN store : store[i].creds \in SUBSET CredKeys
      BY <1>1, StoreIs DEF ProvRecs
    <2>4. \A i \in DOMAIN store : MergeMap(store[i].creds, provCalls[c].rec.creds) \subseteq SUBSET CredKeys
      BY <2>2, <2>3 DEF MergeMap
    <2> QED BY <2>1, <2>4
  <1>5. CASE Done(c, "error")
    <2>1. CallsTrue(provCalls', store, lastId) /\ \A d \in ProvCallers : d # c => provCalls'[d] = provCalls[d]
      BY <1>1, <1>5, DoneCall
    <2>2. provCalls'[Cli] = provCalls[Cli]
      BY <1>3, <2>1 DEF ProvCallers
    <2> QED BY <1>1, <1>2, <2>1, <2>2 DEF ProvInv
  <1>6. CASE \E i \in DOMAIN store, creds \in SUBSET CredKeys :
                provCalls' = [provCalls EXCEPT ![c].pc = "put", ![c].rec = [store[i] EXCEPT !.creds = creds]]
    <2>1. PICK i \in DOMAIN store, creds \in SUBSET CredKeys :
             provCalls' = [provCalls EXCEPT ![c].pc = "put", ![c].rec = [store[i] EXCEPT !.creds = creds]]
      BY <1>6
    <2> DEFINE r == [store[i] EXCEPT !.creds = creds]
               q == [provCalls[c] EXCEPT !.pc = "put", !.rec = r]
    <2>2. store[i] \in ProvRecs /\ store[i].id <= lastId
      BY <1>1, StoreIs DEF StoreTrue
    <2>3. r \in ProvRecs /\ r.id = store[i].id /\ r.name = store[i].name /\ r.type = store[i].type
      BY <2>2 DEF ProvRecs
    <2>4. provCalls \in [ProvCallers -> CallRecs] /\ provCalls[c] \in CallRecs
      BY <1>1 DEF CallsTrue
    <2>5. provCalls' = [provCalls EXCEPT ![c] = q]
      BY <2>1
    <2> HIDE DEF r
    <2>6. r.id \in 0..MaxProvId /\ r.name \in ProvNames /\ r.type \in ProvTypes /\ r.creds \in SUBSET CredKeys
      BY <2>3, ProvBounds DEF ProvRecs
    <2>7. r \in [id : 0..MaxProvId, name : ProvNames \cup {""}, type : ProvTypes \cup {""}, creds : SUBSET CredKeys]
      BY <2>3, <2>6 DEF ProvRecs
    <2>8. q \in CallRecs /\ q.pc = "put" /\ q.rec = r
      BY <2>4, <2>7 DEF CallRecs
    <2> HIDE DEF q
    <2>9. provCalls' \in [ProvCallers -> CallRecs] /\ provCalls'[c] = q /\ \A d \in ProvCallers : d # c => provCalls'[d] = provCalls[d]
      BY <2>4, <2>5, <2>8
    <2>10. \A j \in DOMAIN store : Agree(store[j], r)
      BY <1>1, <2>3 DEF StoreTrue, Agree
    <2>11. \A d \in ProvCallers : provCalls[d].pc = "put" => Agree(provCalls[d].rec, r)
      <3> TAKE d \in ProvCallers
      <3>1. provCalls[d].pc = "put" => Agree(store[i], provCalls[d].rec)
        BY <1>1 DEF CallsTrue, CallTrue
      <3> QED BY <2>3, <3>1 DEF Agree
    <2>12. CallTrue(q, store, lastId)
      BY <2>2, <2>3, <2>8, <2>10 DEF CallTrue
    <2>13. CallsTrue(provCalls', store, lastId)
      BY <1>1, <2>8, <2>9, <2>11, <2>12, CallSet
    <2>14. provCalls'[Cli] = provCalls[Cli]
      BY <1>3, <2>9 DEF ProvCallers
    <2> QED BY <1>1, <1>2, <2>13, <2>14 DEF ProvInv
  <1> QED BY <1>4, <1>5, <1>6

LEMMA PutStep ==
    ASSUME ProvInv, NEW c \in ProvCallers, PutProvider(c)
    PROVE  ProvInv'
  <1>1. CallsTrue(provCalls, store, lastId) /\ StoreTrue(store, lastId, ever) /\ lastId \in Nat /\ lastId \in 0..MaxProvId
        /\ EnsTrue(ens, ever) /\ CreateTrue(ens, provCalls[Cli], ever)
    BY ProvBounds DEF ProvInv
  <1>2. provCalls[c].pc = "put" /\ UNCHANGED <<lastId, ens, env>>
    BY DEF PutProvider
  <1> DEFINE r == provCalls[c].rec
  <1>3. r \in ProvRecs /\ r.id <= lastId /\ \A i \in DOMAIN store : Agree(store[i], r)
    BY <1>1, <1>2 DEF CallsTrue, CallTrue
  <1>4. CASE ~PutOk(r)
    <2>1. Done(c, "error") /\ UNCHANGED <<store, ever>>
      BY <1>4 DEF PutProvider
    <2>2. /\ CallsTrue(provCalls', store, lastId)
          /\ provCalls'[c].pc = IF c = Cli THEN "error" ELSE "idle"
          /\ \A d \in ProvCallers : d # c => provCalls'[d] = provCalls[d]
      BY <1>1, <2>1, DoneCall
    <2>3. c = Cli => provCalls[c].pc # "idle" /\ provCalls'[c].pc \in {"put", "exists", "error"} /\ provCalls'[c].pc # "put"
      BY <1>2, <2>2
    <2>4. CreateTrue(ens, provCalls'[Cli], ever)
      BY <2>2, <2>3, CliHandled
    <2> QED BY <1>1, <1>2, <2>1, <2>2, <2>4 DEF ProvInv
  <1>5. CASE PutOk(r)
    <2>1. Put(r) /\ Done(c, "ok")
      BY <1>5 DEF PutProvider
    <2>2. StoreTrue(store', lastId, ever') /\ RowsFrom(store', store, r) /\ ever \subseteq ever' /\ <<r.name, r.type>> \in ever'
      BY <1>1, <1>3, <1>5, <2>1, PutStore
    <2>3. \A d \in ProvCallers : provCalls[d].pc = "put" =>
             Agree(r, provCalls[d].rec) /\ \A i \in DOMAIN store : Agree(store[i], provCalls[d].rec)
      BY <1>1, <1>2 DEF CallsTrue, CallTrue, WritesAgree
    <2>4. \A d \in ProvCallers : provCalls[d].pc = "put" => \A i \in DOMAIN store' : Agree(store'[i], provCalls[d].rec)
      BY <2>2, <2>3 DEF RowsFrom
    <2>5. lastId <= lastId
      BY <1>1
    <2>6. CallsTrue(provCalls, store', lastId)
      BY <1>1, <2>4, <2>5, CallsStand
    <2>7. /\ CallsTrue(provCalls', store', lastId)
          /\ provCalls'[c].pc = IF c = Cli THEN "ok" ELSE "idle"
          /\ \A d \in ProvCallers : d # c => provCalls'[d] = provCalls[d]
      BY <2>1, <2>6, DoneCall
    <2>8. CreateTrue(ens, provCalls'[Cli], ever')
      <3>1. CASE c # Cli
        <4>1. provCalls'[Cli] = provCalls[Cli]
          BY <2>7, <3>1 DEF ProvCallers
        <4> QED BY <1>1, <2>2, <4>1, EverGrows
      <3>2. CASE c = Cli
        <4>1. ens.pc = "created"
          BY <1>1, <1>2, <3>2 DEF CreateTrue
        <4>2. PICK n \in ProvNames :
                 /\ ens.known = {n} /\ (ens.explicit # <<>> => n = Head(ens.explicit))
                 /\ r.name = n /\ r.type = WantedOf(ens)
          BY <1>1, <1>2, <3>2, <4>1 DEF CreateTrue
        <4>3. provCalls'[Cli].pc = "ok" /\ <<n, WantedOf(ens)>> \in ever'
          BY <2>2, <2>7, <3>2, <4>2
        <4> QED BY <4>1, <4>2, <4>3 DEF CreateTrue
      <3> QED BY <3>1, <3>2
    <2>9. EnsTrue(ens, ever')
      BY <1>1, <2>2, EverGrows
    <2> QED BY <1>1, <1>2, <2>2, <2>7, <2>8, <2>9 DEF ProvInv
  <1> QED BY <1>4, <1>5

LEMMA NoEnsIs ==
    /\ NoEns \in EnsRecs /\ NoEns.typeName = [t \in ProvTypes |-> ""] /\ NoEns.explicit = <<>> /\ NoEns.inferred = <<>>
    /\ NoEns.configured = <<>> /\ NoEns.skipped = {}
  <1>1. [t \in ProvTypes |-> ""] \in [ProvTypes -> ProvNames \cup {""}] /\ <<>> \in Seq(ProvNames) /\ {} \in SUBSET ProvNames
        /\ {} \in SUBSET ProvTypes /\ 0 \in Nat
    OBVIOUS
  <1> QED BY <1>1 DEF NoEns, EnsRecs

LEMMA FailedEns ==
    ASSUME NEW ev
    PROVE  EnsTrue([NoEns EXCEPT !.pc = "failed"], ev) /\ [NoEns EXCEPT !.pc = "failed"].pc = "failed"
  <1> DEFINE e == [NoEns EXCEPT !.pc = "failed"]
  <1>1. e \in EnsRecs /\ e.pc = "failed" /\ e.typeName = [t \in ProvTypes |-> ""]
    BY NoEnsIs DEF EnsRecs
  <1> HIDE DEF e
  <1>2. EnsTrue(e, ev) /\ e.pc = "failed"
    BY <1>1 DEF EnsTrue
  <1> QED BY <1>2 DEF e

\* What is kept of ens while no creation is under way.
LEMMA EnsMoves ==
    ASSUME ProvInv, ens.pc # "created", EnsTrue(ens', ever), ens'.pc # "created", UNCHANGED <<store, lastId, provCalls, env, ever>>
    PROVE  ProvInv'
  <1>1. CreateTrue(ens', provCalls[Cli], ever)
    BY DEF ProvInv, CreateTrue
  <1> QED BY <1>1 DEF ProvInv

LEMMA EnsFields ==
    ASSUME NEW e \in EnsRecs
    PROVE  /\ e.typeName \in [ProvTypes -> ProvNames \cup {""}] /\ e.configured \in Seq(ProvNames)
           /\ e.known \in SUBSET ProvNames /\ e.skipped \in SUBSET ProvTypes /\ e.offset \in Nat /\ e.try \in Nat
           /\ e.mode \in {"auto", "never", "batch"}
           /\ e.explicit \in {<<>>} \cup {<<n>> : n \in ProvNames} /\ e.inferred \in {<<>>} \cup {<<t>> : t \in ProvTypes}
           /\ e.explicit # <<>> => Head(e.explicit) \in ProvNames
           /\ e.inferred # <<>> => Head(e.inferred) \in ProvTypes /\ e.inferred = <<Head(e.inferred)>>
  <1>1. /\ e.typeName \in [ProvTypes -> ProvNames \cup {""}] /\ e.configured \in Seq(ProvNames)
        /\ e.known \in SUBSET ProvNames /\ e.skipped \in SUBSET ProvTypes /\ e.offset \in Nat /\ e.try \in Nat
        /\ e.mode \in {"auto", "never", "batch"}
        /\ e.explicit \in {<<>>} \cup {<<n>> : n \in ProvNames} /\ e.inferred \in {<<>>} \cup {<<t>> : t \in ProvTypes}
    BY DEF EnsRecs
  <1>2. e.explicit # <<>> => Head(e.explicit) \in ProvNames
    <2> SUFFICES ASSUME e.explicit # <<>> PROVE Head(e.explicit) \in ProvNames
      OBVIOUS
    <2>1. PICK n \in ProvNames : e.explicit = <<n>>
      BY <1>1
    <2>2. Head(<<n>>) = n
      OBVIOUS
    <2> QED BY <2>1, <2>2
  <1>3. e.inferred # <<>> => Head(e.inferred) \in ProvTypes /\ e.inferred = <<Head(e.inferred)>>
    <2> SUFFICES ASSUME e.inferred # <<>> PROVE Head(e.inferred) \in ProvTypes /\ e.inferred = <<Head(e.inferred)>>
      OBVIOUS
    <2>1. PICK t \in ProvTypes : e.inferred = <<t>>
      BY <1>1
    <2>2. Head(<<t>>) = t
      OBVIOUS
    <2> QED BY <2>1, <2>2
  <1> QED BY <1>1, <1>2, <1>3

LEMMA BeginStep ==
    ASSUME ProvInv, EnsureBegin
    PROVE  ProvInv'
  <1>1. ens.pc = "idle" /\ UNCHANGED <<store, lastId, provCalls, env, ever>>
    BY DEF EnsureBegin
  <1>2. PICK explicit \in {<<>>} \cup {<<n>> : n \in ProvNames}, inferred \in {<<>>} \cup {<<t>> : t \in ProvTypes},
             mode \in {"auto", "never", "batch"} :
          ens' = [NoEns EXCEPT !.pc = "list", !.explicit = explicit, !.inferred = inferred, !.mode = mode]
    BY DEF EnsureBegin
  <1>3. ens' \in EnsRecs /\ ens'.pc = "list" /\ ens'.typeName = [t \in ProvTypes |-> ""]
    BY <1>2, NoEnsIs DEF EnsRecs
  <1>4. EnsTrue(ens', ever)
    BY <1>3 DEF EnsTrue
  <1> QED BY <1>1, <1>3, <1>4, EnsMoves

LEMMA LeastNumber ==
    ASSUME NEW T, T \subseteq Nat, T # {}
    PROVE  \E x \in T : \A y \in T : x <= y
  <1> DEFINE R == {ss \in Nat \X Nat : ss[1] < ss[2]}
  <1>1. IsWellFoundedOn(R, Nat)
    BY NatLessThanWellFounded DEF OpToRel
  <1>2. \A x, y \in Nat : x < y => <<x, y>> \in R
    OBVIOUS
  <1> HIDE DEF R
  <1>3. PICK x \in T : \A y \in T : ~(<<y, x>> \in R)
    BY <1>1, WFMin
  <1>4. \A y \in T : ~(y < x) /\ y \in Nat /\ x \in Nat
    BY <1>2, <1>3
  <1>5. \A y \in T : x <= y
    BY <1>4
  <1> QED BY <1>5

LEMMA ListStep ==
    ASSUME ProvInv, ListProviders
    PROVE  ProvInv'
  <1> DEFINE last == IF ens.offset + ProvPage < Len(store) THEN ens.offset + ProvPage ELSE Len(store)
             page == SubSeq(store, ens.offset + 1, last)
             first(t) == CHOOSE i \in DOMAIN page : page[i].type = t /\ \A j \in 1..(i - 1) : page[j].type # t
             names == [t \in ProvTypes |-> IF ens.typeName[t] = "" /\ \E i \in DOMAIN page : page[i].type = t
                                           THEN page[first(t)].name ELSE ens.typeName[t]]
             kn == ens.known \cup {page[i].name : i \in DOMAIN page}
             off == IF Len(page) < ProvPage THEN 0 ELSE ens.offset + ProvPage
             at == IF Len(page) < ProvPage THEN "explicit" ELSE "list"
  <1>1. ens.pc = "list" /\ UNCHANGED <<store, lastId, provCalls, env, ever>> /\ EnsTrue(ens, ever) /\ StoreTrue(store, lastId, ever)
    BY DEF ListProviders, ProvInv
  <1>2. ens' = [ens EXCEPT !.known = kn, !.typeName = names, !.offset = off, !.pc = at]
    BY DEF ListProviders
  <1>3. ens \in EnsRecs /\ ens.offset \in Nat /\ ens.typeName \in [ProvTypes -> ProvNames \cup {""}] /\ ens.known \in SUBSET ProvNames
    BY <1>1, EnsFields DEF EnsTrue
  <1>4. store \in Seq(ProvRecs) /\ Len(store) \in Nat /\ DOMAIN store = 1..Len(store)
    BY <1>1, StoreIs
  <1>p. ProvPage \in Nat
    BY ProvidersAssumption
  <1> DEFINE o == ens.offset
             len == Len(store)
  <1>o. o \in Nat /\ len \in Nat
    BY <1>3, <1>4
  <1>5. last \in Nat /\ last <= len
    <2>1. last = IF o + ProvPage < len THEN o + ProvPage ELSE len
      OBVIOUS
    <2> HIDE DEF o, len, last
    <2> QED BY <1>o, <1>p, <2>1
  <1> HIDE DEF last
  <1>6. page \in Seq(ProvRecs) /\ Len(page) \in Nat /\ DOMAIN page = 1..Len(page)
        /\ \A i \in DOMAIN page : \E j \in DOMAIN store : page[i] = store[j]
    <2>0. page = SubSeq(store, o + 1, last)
      OBVIOUS
    <2> HIDE DEF page, o, len
    <2>1. o + 1 \in Int /\ last \in Int
      BY <1>o, <1>5
    <2>2. \A i \in (o + 1)..last : i \in DOMAIN store /\ store[i] \in ProvRecs
      <3>1. \A i \in (o + 1)..last : i \in 1..len
        BY <1>o, <1>5
      <3> QED BY <1>4, <3>1 DEF len
    <2>3. /\ page \in Seq(ProvRecs)
          /\ Len(page) = IF o + 1 <= last THEN last - (o + 1) + 1 ELSE 0
          /\ \A i \in 1..(last - (o + 1) + 1) : page[i] = store[o + 1 + i - 1]
      BY <2>0, <2>1, <2>2, SubSeqProperties
    <2>5. Len(page) \in Nat /\ DOMAIN page = 1..Len(page)
      BY <2>3
    <2>6. ASSUME NEW i \in DOMAIN page PROVE \E j \in DOMAIN store : page[i] = store[j]
      <3>2. i \in 1..(last - (o + 1) + 1) /\ o + 1 + i - 1 \in (o + 1)..last
        BY <1>o, <1>5, <2>3, <2>5, <2>6
      <3>3. page[i] = store[o + 1 + i - 1] /\ o + 1 + i - 1 \in DOMAIN store
        BY <2>2, <2>3, <3>2
      <3> QED BY <3>3
    <2> QED BY <2>3, <2>5, <2>6
  <1> HIDE DEF page, len
  <1>7. \A i \in DOMAIN page : page[i].name \in ProvNames /\ <<page[i].name, page[i].type>> \in ever
    <2> TAKE i \in DOMAIN page
    <2>1. PICK j \in DOMAIN store : page[i] = store[j]
      BY <1>6
    <2>2. store[j] \in ProvRecs /\ <<store[j].name, store[j].type>> \in ever
      BY <1>1, StoreIs DEF StoreTrue
    <2> QED BY <2>1, <2>2 DEF ProvRecs
  <1>8. ASSUME NEW t \in ProvTypes, \E i \in DOMAIN page : page[i].type = t
        PROVE  first(t) \in DOMAIN page /\ page[first(t)].type = t
    <2> DEFINE T == {i \in DOMAIN page : page[i].type = t}
    <2>1. T \subseteq Nat /\ T # {}
      BY <1>6, <1>8
    <2>2. PICK x \in T : \A y \in T : x <= y
      BY <2>1, LeastNumber
    <2>3. x \in DOMAIN page /\ page[x].type = t /\ \A j \in 1..(x - 1) : page[j].type # t
      <3>1. ASSUME NEW j \in 1..(x - 1), page[j].type = t PROVE FALSE
        <4>1. j \in DOMAIN page /\ j < x /\ x \in Nat /\ j \in Nat
          BY <1>6, <2>2
        <4>2. x <= j
          BY <2>2, <3>1, <4>1
        <4> QED BY <4>1, <4>2
      <3> QED BY <2>2, <3>1
    <2>4. \E i \in DOMAIN page : page[i].type = t /\ \A j \in 1..(i - 1) : page[j].type # t
      BY <2>3
    <2> QED BY <2>4
  <1> HIDE DEF first
  <1>9. names \in [ProvTypes -> ProvNames \cup {""}]
    BY <1>3, <1>7, <1>8
  <1>10. \A t \in ProvTypes : names[t] # "" => <<names[t], t>> \in ever \/ t \in ens.skipped
    BY <1>1, <1>3, <1>7, <1>8 DEF EnsTrue
  <1>11. kn \in SUBSET ProvNames /\ off \in Nat /\ at \in {"explicit", "list"}
    <2>1. kn \in SUBSET ProvNames
      BY <1>3, <1>7
    <2>2. off = IF Len(page) < ProvPage THEN 0 ELSE o + ProvPage
      OBVIOUS
    <2> HIDE DEF o, off
    <2>3. off \in Nat
      BY <1>o, <1>p, <2>2
    <2> QED BY <2>1, <2>3
  <1> HIDE DEF names, kn, off, at
  <1>12. ens' \in EnsRecs /\ ens'.typeName = names /\ ens'.pc = at /\ ens'.skipped = ens.skipped
    BY <1>2, <1>3, <1>9, <1>11 DEF EnsRecs
  <1>13. ens'.pc \in {"explicit", "list"}
    BY <1>11, <1>12
  <1>14. EnsTrue(ens', ever)
    BY <1>10, <1>12, <1>13 DEF EnsTrue
  <1>15. ens.pc # "created" /\ ens'.pc # "created"
    BY <1>1, <1>13
  <1> QED BY <1>1, <1>14, <1>15, EnsMoves

LEMMA ConfigureIs ==
    ASSUME NEW e \in EnsRecs, NEW n \in ProvNames
    PROVE  LET x == Configure(e, n)
           IN  /\ x \in EnsRecs /\ x.pc = e.pc /\ x.explicit = e.explicit /\ x.inferred = e.inferred
               /\ x.typeName = e.typeName /\ x.skipped = e.skipped /\ n \in ToSet(x.configured)
  <1> DEFINE s == IF Contains(e.configured, n) THEN e.configured ELSE Append(e.configured, n)
             x == [e EXCEPT !.configured = s]
  <1>1. e.configured \in Seq(ProvNames)
    BY EnsFields
  <1>2. s \in Seq(ProvNames) /\ n \in ToSet(s)
    <2>1. CASE Contains(e.configured, n)
      <3>1. s = e.configured
        BY <2>1
      <3>2. PICK i \in 1..Len(e.configured) : e.configured[i] = n
        BY <2>1 DEF Contains
      <3> QED BY <1>1, <3>1, <3>2 DEF ToSet
    <2>2. CASE ~Contains(e.configured, n)
      <3> DEFINE c == e.configured
      <3> HIDE DEF c
      <3>1. s = Append(c, n) /\ c \in Seq(ProvNames)
        BY <1>1, <2>2 DEF c
      <3>2. Append(c, n) \in Seq(ProvNames) /\ Len(c) + 1 \in DOMAIN Append(c, n) /\ Append(c, n)[Len(c) + 1] = n
        BY <3>1
      <3> QED BY <3>1, <3>2 DEF ToSet
    <2> QED BY <2>1, <2>2
  <1>3. Configure(e, n) = x
    BY DEF Configure
  <1> HIDE DEF s
  <1>4. /\ x \in EnsRecs /\ x.pc = e.pc /\ x.explicit = e.explicit /\ x.inferred = e.inferred
        /\ x.typeName = e.typeName /\ x.skipped = e.skipped /\ x.configured = s
    BY <1>2 DEF EnsRecs
  <1> HIDE DEF x
  <1> QED BY <1>2, <1>3, <1>4

LEMMA EnsuredTrue ==
    ASSUME NEW ev, NEW e \in EnsRecs,
           e.inferred # <<>> => \/ Head(e.inferred) \in e.skipped
                                \/ \E n \in ToSet(e.configured) : <<n, Head(e.inferred)>> \in ev
    PROVE  EnsTrue(Ensured(e), ev) /\ Ensured(e).pc = "done"
  <1> DEFINE x == Ensured(e)
  <1>1. /\ e.inferred \in {<<>>} \cup {<<t>> : t \in ProvTypes} /\ e.configured \in Seq(ProvNames) /\ e.skipped \in SUBSET ProvTypes
        /\ (e.inferred # <<>> => Head(e.inferred) \in ProvTypes /\ e.inferred = <<Head(e.inferred)>>)
    BY EnsFields
  <1>2. /\ x \in EnsRecs /\ x.pc = "done" /\ x.inferred = e.inferred /\ x.configured = e.configured /\ x.skipped = e.skipped
        /\ x.typeName = [t \in ProvTypes |-> ""]
    BY <1>1, NoEnsIs DEF Ensured, EnsRecs
  <1> HIDE DEF x
  <1>3. \A i \in DOMAIN x.inferred : x.inferred # <<>> /\ x.inferred[i] = Head(e.inferred)
    <2>1. CASE e.inferred = <<>>
      <3>1. DOMAIN <<>> = {}
        OBVIOUS
      <3>2. DOMAIN x.inferred = {}
        BY <1>2, <2>1, <3>1
      <3> QED BY <3>2
    <2>2. CASE e.inferred # <<>>
      <3>1. PICK t : e.inferred = <<t>>
        BY <1>1, <2>2
      <3>2. DOMAIN <<t>> = {1} /\ <<t>>[1] = t /\ Head(<<t>>) = t
        OBVIOUS
      <3> QED BY <1>2, <2>2, <3>1, <3>2
    <2> QED BY <2>1, <2>2
  <1>4. \A i \in DOMAIN x.inferred :
          \/ x.inferred[i] \in x.skipped
          \/ \E n \in ToSet(x.configured) : <<n, x.inferred[i]>> \in ev
    BY <1>2, <1>3
  <1>5. EnsTrue(x, ev) /\ x.pc = "done"
    BY <1>2, <1>4 DEF EnsTrue
  <1> QED BY <1>5 DEF x

LEMMA WantedIs ==
    ASSUME NEW ev, EnsTrue(ens, ev), ens.pc \in {"create", "created"}
    PROVE  /\ Wanted \in ProvTypes /\ Wanted = WantedOf(ens)
           /\ (ens.explicit # <<>> => Wanted = Head(ens.explicit))
           /\ (ens.explicit = <<>> => ens.inferred # <<>> /\ Wanted = Head(ens.inferred))
  <1>1. Wanted = WantedOf(ens)
    BY DEF Wanted, WantedOf
  <1>2. ens \in EnsRecs /\ IF ens.explicit = <<>> THEN ens.inferred # <<>> ELSE Head(ens.explicit) \in ProvTypes
    BY DEF EnsTrue
  <1>3. CASE ens.explicit # <<>>
    BY <1>1, <1>2, <1>3 DEF WantedOf, NormalizeProviderType
  <1>4. CASE ens.explicit = <<>>
    <2>1. ens.inferred # <<>> /\ Head(ens.inferred) \in ProvTypes
      BY <1>2, <1>4, EnsFields
    <2> QED BY <1>1, <1>4, <2>1 DEF WantedOf, NormalizeProviderType
  <1> QED BY <1>3, <1>4

LEMMA AfterCreateTrue ==
    ASSUME NEW ev, EnsTrue(ens, ev), ens.pc \in {"create", "created"}, NEW e \in EnsRecs, e.explicit = ens.explicit,
           e.inferred = ens.inferred, e.typeName = ens.typeName, ens.skipped \subseteq e.skipped,
           \/ Wanted \in e.skipped
           \/ \E n \in ToSet(e.configured) : <<n, Wanted>> \in ev /\ (e.explicit # <<>> => n = Head(e.explicit))
    PROVE  EnsTrue(AfterCreate(e), ev) /\ AfterCreate(e).pc # "created"
  <1>1. /\ Wanted \in ProvTypes
        /\ (ens.explicit # <<>> => Wanted = Head(ens.explicit))
        /\ (ens.explicit = <<>> => ens.inferred # <<>> /\ Wanted = Head(ens.inferred))
    BY WantedIs
  <1>2. CASE e.explicit = <<>>
    <2>1. AfterCreate(e) = Ensured(e)
      BY <1>2 DEF AfterCreate
    <2>2. Wanted = Head(e.inferred)
      BY <1>1, <1>2
    <2>3. EnsTrue(Ensured(e), ev) /\ Ensured(e).pc = "done"
      BY <2>2, EnsuredTrue
    <2> QED BY <2>1, <2>3
  <1>3. CASE e.explicit # <<>>
    <2> DEFINE w == Wanted
               h == Head(e.explicit)
               tn == [e.typeName EXCEPT ![w] = IF e.typeName[w] = "" THEN h ELSE e.typeName[w]]
               x == [e EXCEPT !.pc = "inferred", !.explicit = <<>>, !.typeName = tn]
    <2>1. AfterCreate(e) = x
      BY <1>3 DEF AfterCreate
    <2>2. w \in ProvTypes /\ h = w /\ h \in ProvNames /\ e.typeName \in [ProvTypes -> ProvNames \cup {""}]
      BY <1>1, <1>3, EnsFields
    <2>3. \/ w \in e.skipped
          \/ <<h, w>> \in ev
      BY <1>3
    <2> HIDE DEF w, h
    <2>4. tn \in [ProvTypes -> ProvNames \cup {""}] /\ \A t \in ProvTypes : tn[t] = IF t = w /\ e.typeName[w] = "" THEN h ELSE e.typeName[t]
      BY <2>2
    <2>5. \A t \in ProvTypes : e.typeName[t] # "" => <<e.typeName[t], t>> \in ev \/ t \in e.skipped
      BY DEF EnsTrue
    <2> HIDE DEF tn
    <2>6. \A t \in ProvTypes : tn[t] # "" => <<tn[t], t>> \in ev \/ t \in e.skipped
      BY <2>3, <2>4, <2>5
    <2>7. x \in EnsRecs /\ x.pc = "inferred" /\ x.explicit = <<>> /\ x.typeName = tn /\ x.skipped = e.skipped
      BY <2>4 DEF EnsRecs
    <2> HIDE DEF x
    <2>8. EnsTrue(x, ev)
      BY <2>6, <2>7 DEF EnsTrue
    <2> QED BY <2>1, <2>7, <2>8
  <1> QED BY <1>2, <1>3

LEMMA ExplicitStep ==
    ASSUME ProvInv, ExplicitName
    PROVE  ProvInv'
  <1>1. ens.pc = "explicit" /\ UNCHANGED <<store, lastId, provCalls, env, ever>> /\ EnsTrue(ens, ever) /\ ens \in EnsRecs
    BY DEF ExplicitName, ProvInv, EnsTrue
  <1>t. \A t \in ProvTypes : ens.typeName[t] # "" => <<ens.typeName[t], t>> \in ever \/ t \in ens.skipped
    BY <1>1 DEF EnsTrue
  <1> DEFINE a == [ens EXCEPT !.pc = "inferred", !.known = {}]
             b == [ens EXCEPT !.explicit = <<>>]
             k == Configure(b, Head(ens.explicit))
             d == [ens EXCEPT !.pc = "create"]
             f == [NoEns EXCEPT !.pc = "failed"]
  <1>2. \/ ens.explicit = <<>> /\ ens' = a
        \/ ens.explicit # <<>> /\ ens' = k
        \/ ens.explicit # <<>> /\ NormalizeProviderType(Head(ens.explicit)) # "" /\ ens' = d
        \/ ens' = f
    BY DEF ExplicitName
  <1>3. ens.explicit = <<>> => EnsTrue(a, ever) /\ a.pc # "created"
    <2>1. a \in EnsRecs /\ a.pc = "inferred" /\ a.explicit = ens.explicit /\ a.typeName = ens.typeName /\ a.skipped = ens.skipped
      BY <1>1 DEF EnsRecs
    <2> HIDE DEF a
    <2> QED BY <1>t, <2>1 DEF EnsTrue
  <1>4. ens.explicit # <<>> => EnsTrue(k, ever) /\ k.pc # "created"
    <2> SUFFICES ASSUME ens.explicit # <<>> PROVE EnsTrue(k, ever) /\ k.pc # "created"
      OBVIOUS
    <2>1. Head(ens.explicit) \in ProvNames
      BY <1>1, EnsFields
    <2>2. b \in EnsRecs /\ b.pc = "explicit" /\ b.typeName = ens.typeName /\ b.skipped = ens.skipped
      BY <1>1 DEF EnsRecs
    <2> HIDE DEF b
    <2>3. k \in EnsRecs /\ k.pc = "explicit" /\ k.typeName = ens.typeName /\ k.skipped = ens.skipped
      BY <2>1, <2>2, ConfigureIs
    <2> HIDE DEF k
    <2> QED BY <1>t, <2>3 DEF EnsTrue
  <1>5. ens.explicit # <<>> /\ NormalizeProviderType(Head(ens.explicit)) # "" => EnsTrue(d, ever) /\ d.pc # "created"
    <2>1. d \in EnsRecs /\ d.pc = "create" /\ d.explicit = ens.explicit /\ d.typeName = ens.typeName /\ d.skipped = ens.skipped
      BY <1>1 DEF EnsRecs
    <2>2. NormalizeProviderType(Head(ens.explicit)) # "" => Head(ens.explicit) \in ProvTypes
      BY DEF NormalizeProviderType
    <2> HIDE DEF d
    <2> QED BY <1>t, <2>1, <2>2 DEF EnsTrue
  <1>6. EnsTrue(f, ever) /\ f.pc # "created"
    BY FailedEns
  <1> HIDE DEF a, k, d, f
  <1>7. EnsTrue(ens', ever) /\ ens'.pc # "created"
    BY <1>2, <1>3, <1>4, <1>5, <1>6
  <1> QED BY <1>1, <1>7, EnsMoves

LEMMA InferredStep ==
    ASSUME ProvInv, InferredType
    PROVE  ProvInv'
  <1>1. ens.pc = "inferred" /\ UNCHANGED <<store, lastId, provCalls, env, ever>> /\ EnsTrue(ens, ever) /\ ens \in EnsRecs
        /\ ens.explicit = <<>>
    BY DEF InferredType, ProvInv, EnsTrue
  <1>t. \A t \in ProvTypes : ens.typeName[t] # "" => <<ens.typeName[t], t>> \in ever \/ t \in ens.skipped
    BY <1>1 DEF EnsTrue
  <1> DEFINE n == ens.typeName[Head(ens.inferred)]
             d == [ens EXCEPT !.pc = "create"]
             k == Configure(ens, n)
  <1>2. \/ ens.inferred = <<>> /\ ens' = Ensured(ens)
        \/ ens.inferred # <<>> /\ n = "" /\ ens' = d
        \/ ens.inferred # <<>> /\ n # "" /\ ens' = Ensured(k)
    BY DEF InferredType
  <1>3. ens.inferred = <<>> => EnsTrue(Ensured(ens), ever) /\ Ensured(ens).pc = "done"
    BY <1>1, EnsuredTrue
  <1>4. ens.inferred # <<>> => EnsTrue(d, ever) /\ d.pc = "create"
    <2>1. d \in EnsRecs /\ d.pc = "create" /\ d.explicit = ens.explicit /\ d.typeName = ens.typeName /\ d.skipped = ens.skipped
          /\ d.inferred = ens.inferred
      BY <1>1 DEF EnsRecs
    <2> HIDE DEF d
    <2> QED BY <1>1, <1>t, <2>1 DEF EnsTrue
  <1>5. ens.inferred # <<>> /\ n # "" => EnsTrue(Ensured(k), ever) /\ Ensured(k).pc = "done"
    <2> SUFFICES ASSUME ens.inferred # <<>>, n # "" PROVE EnsTrue(Ensured(k), ever) /\ Ensured(k).pc = "done"
      OBVIOUS
    <2>1. Head(ens.inferred) \in ProvTypes /\ ens.typeName \in [ProvTypes -> ProvNames \cup {""}]
      BY <1>1, EnsFields
    <2>2. n \in ProvNames /\ (<<n, Head(ens.inferred)>> \in ever \/ Head(ens.inferred) \in ens.skipped)
      BY <1>t, <2>1
    <2> HIDE DEF n
    <2>3. k \in EnsRecs /\ k.inferred = ens.inferred /\ k.skipped = ens.skipped /\ n \in ToSet(k.configured)
      BY <1>1, <2>2, ConfigureIs
    <2> HIDE DEF k
    <2>4. \/ Head(k.inferred) \in k.skipped
          \/ \E x \in ToSet(k.configured) : <<x, Head(k.inferred)>> \in ever
      BY <2>2, <2>3
    <2> QED BY <2>3, <2>4, EnsuredTrue
  <1> HIDE DEF d, k, n
  <1>6. EnsTrue(ens', ever) /\ ens'.pc # "created"
    BY <1>2, <1>3, <1>4, <1>5
  <1> QED BY <1>1, <1>6, EnsMoves

LEMMA SkipStep ==
    ASSUME ProvInv, SkipCreate \/ BatchFails
    PROVE  ProvInv'
  <1>1. ens.pc = "create" /\ UNCHANGED <<store, lastId, provCalls, env, ever>> /\ EnsTrue(ens, ever) /\ ens \in EnsRecs
    BY DEF SkipCreate, BatchFails, ProvInv, EnsTrue
  <1> DEFINE w == Wanted
             sk == ens.skipped \cup {w}
             x == [ens EXCEPT !.skipped = sk]
  <1>2. ens' = AfterCreate(x) \/ ens' = [NoEns EXCEPT !.pc = "failed"]
    BY DEF SkipCreate, BatchFails
  <1>3. w \in ProvTypes
    BY <1>1, WantedIs
  <1>4. sk \in SUBSET ProvTypes /\ ens.skipped \subseteq sk /\ w \in sk
    BY <1>1, <1>3, EnsFields
  <1> HIDE DEF sk
  <1>5. /\ x \in EnsRecs /\ x.explicit = ens.explicit /\ x.inferred = ens.inferred /\ x.typeName = ens.typeName
        /\ x.skipped = sk
    BY <1>1, <1>4 DEF EnsRecs
  <1> HIDE DEF x
  <1>6. Wanted \in x.skipped /\ ens.skipped \subseteq x.skipped
    BY <1>4, <1>5
  <1>7. EnsTrue(AfterCreate(x), ever) /\ AfterCreate(x).pc # "created"
    BY <1>1, <1>5, <1>6, AfterCreateTrue
  <1>8. EnsTrue(ens', ever) /\ ens'.pc # "created"
    BY <1>2, <1>7, FailedEns
  <1> QED BY <1>1, <1>8, EnsMoves

LEMMA AutoCreateStep ==
    ASSUME ProvInv, AutoCreate
    PROVE  ProvInv'
  <1>1. ens.pc = "create" /\ UNCHANGED <<store, lastId, env, ever>> /\ EnsTrue(ens, ever) /\ ens \in EnsRecs
        /\ CallsTrue(provCalls, store, lastId) /\ Cli \in ProvCallers
    BY DEF AutoCreate, ProvInv, EnsTrue, ProvCallers
  <1> DEFINE w == Wanted
  <1>2. PICK n \in ProvNames, k \in CredKeys :
          /\ ens.explicit # <<>> => n = Head(ens.explicit)
          /\ Send(Cli, "create", [id |-> 0, name |-> n, type |-> w, creds |-> {k}])
          /\ ens' = [ens EXCEPT !.pc = "created", !.known = {n}]
    BY DEF AutoCreate
  <1>3. w \in ProvTypes /\ w = WantedOf(ens)
    BY <1>1, WantedIs
  <1> HIDE DEF w
  <1> DEFINE r == [id |-> 0, name |-> n, type |-> w, creds |-> {k}]
  <1>4. r \in Requests /\ r.name = n /\ r.type = w
    BY <1>3 DEF Requests
  <1>5. Send(Cli, "create", r)
    BY <1>2
  <1> HIDE DEF r
  <1>6. /\ CallsTrue(provCalls', store, lastId)
        /\ provCalls'[Cli].pc = "get" /\ provCalls'[Cli].op = "create" /\ provCalls'[Cli].rec = r
    BY <1>1, <1>3, <1>4, <1>5, SendCall
  <1>7. /\ ens' \in EnsRecs /\ ens'.pc = "created" /\ ens'.known = {n} /\ ens'.explicit = ens.explicit
        /\ ens'.inferred = ens.inferred /\ ens'.typeName = ens.typeName /\ ens'.skipped = ens.skipped
    BY <1>1, <1>2 DEF EnsRecs
  <1>e. /\ IF ens.explicit = <<>> THEN ens.inferred # <<>> ELSE Head(ens.explicit) \in ProvTypes
        /\ \A t \in ProvTypes : ens.typeName[t] # "" => <<ens.typeName[t], t>> \in ever \/ t \in ens.skipped
    BY <1>1 DEF EnsTrue
  <1>8. EnsTrue(ens', ever)
    BY <1>e, <1>7 DEF EnsTrue
  <1>9. WantedOf(ens') = WantedOf(ens)
    BY <1>7 DEF WantedOf
  <1>10. CreateTrue(ens', provCalls'[Cli], ever)
    BY <1>2, <1>3, <1>4, <1>6, <1>7, <1>9 DEF CreateTrue
  <1> QED BY <1>1, <1>6, <1>8, <1>10 DEF ProvInv

LEMMA AnsweredStep ==
    ASSUME ProvInv, CreateAnswered
    PROVE  ProvInv'
  <1>1. ens.pc = "created" /\ UNCHANGED <<store, lastId, env, ever>> /\ EnsTrue(ens, ever) /\ ens \in EnsRecs
        /\ CallsTrue(provCalls, store, lastId) /\ Cli \in ProvCallers /\ Done(Cli, "idle") /\ CreateTrue(ens, provCalls[Cli], ever)
    BY DEF CreateAnswered, ProvInv, EnsTrue, ProvCallers
  <1>2. CallsTrue(provCalls', store, lastId) /\ provCalls'[Cli].pc = "idle"
    BY <1>1, DoneCall
  <1>3. PICK n \in ProvNames : /\ ens.known = {n} /\ (ens.explicit # <<>> => n = Head(ens.explicit))
                               /\ provCalls[Cli].pc = "ok" => <<n, WantedOf(ens)>> \in ever
    BY <1>1 DEF CreateTrue
  <1>4. (CHOOSE m \in ens.known : TRUE) = n
    BY <1>3
  <1> DEFINE k == Configure(ens, CHOOSE m \in ens.known : TRUE)
             d == [ens EXCEPT !.pc = "create", !.try = @ + 1]
             f == [NoEns EXCEPT !.pc = "failed"]
  <1>5. \/ provCalls[Cli].pc = "ok" /\ ens' = AfterCreate(k)
        \/ ens.explicit = <<>> /\ ens' = d
        \/ ens' = f
    <2>1. CASE provCalls[Cli].pc = "ok"
      BY <2>1 DEF CreateAnswered
    <2>2. CASE provCalls[Cli].pc # "ok"
      BY <2>2 DEF CreateAnswered
    <2> QED BY <2>1, <2>2
  <1>6. provCalls[Cli].pc = "ok" => EnsTrue(AfterCreate(k), ever) /\ AfterCreate(k).pc # "created"
    <2> SUFFICES ASSUME provCalls[Cli].pc = "ok" PROVE EnsTrue(AfterCreate(k), ever) /\ AfterCreate(k).pc # "created"
      OBVIOUS
    <2>1. k = Configure(ens, n)
      BY <1>4
    <2> HIDE DEF k
    <2>2. /\ k \in EnsRecs /\ k.explicit = ens.explicit /\ k.inferred = ens.inferred
          /\ k.typeName = ens.typeName /\ k.skipped = ens.skipped /\ n \in ToSet(k.configured)
      BY <1>1, <1>3, <2>1, ConfigureIs
    <2>3. <<n, Wanted>> \in ever
      BY <1>1, <1>3, WantedIs
    <2>4. \E m \in ToSet(k.configured) : <<m, Wanted>> \in ever /\ (k.explicit # <<>> => m = Head(k.explicit))
      BY <1>3, <2>2, <2>3
    <2>5. ens.skipped \subseteq k.skipped
      BY <2>2
    <2> QED BY <1>1, <2>2, <2>4, <2>5, AfterCreateTrue
  <1>7. EnsTrue(d, ever) /\ d.pc = "create"
    <2> DEFINE m == ens.try + 1
    <2>0. ens.try \in Nat
      BY <1>1, EnsFields
    <2>1. m \in Nat
      BY <2>0
    <2> HIDE DEF m
    <2>2. d = [ens EXCEPT !.pc = "create", !.try = m]
      BY DEF m
    <2>3. d \in EnsRecs /\ d.pc = "create" /\ d.explicit = ens.explicit /\ d.typeName = ens.typeName /\ d.skipped = ens.skipped
          /\ d.inferred = ens.inferred
      BY <1>1, <2>1, <2>2 DEF EnsRecs
    <2> HIDE DEF d
    <2>4. /\ IF ens.explicit = <<>> THEN ens.inferred # <<>> ELSE Head(ens.explicit) \in ProvTypes
          /\ \A t \in ProvTypes : ens.typeName[t] # "" => <<ens.typeName[t], t>> \in ever \/ t \in ens.skipped
      BY <1>1 DEF EnsTrue
    <2> QED BY <2>3, <2>4 DEF EnsTrue
  <1>8. EnsTrue(f, ever) /\ f.pc = "failed"
    BY FailedEns
  <1> HIDE DEF k, d, f
  <1>9. EnsTrue(ens', ever) /\ ens'.pc # "created"
    BY <1>5, <1>6, <1>7, <1>8
  <1>10. CreateTrue(ens', provCalls'[Cli], ever)
    BY <1>2, <1>9 DEF CreateTrue
  <1>11. lastId \in 0..MaxProvId /\ StoreTrue(store, lastId, ever)
    BY DEF ProvInv
  <1> QED BY <1>1, <1>2, <1>9, <1>10, <1>11 DEF ProvInv

LEMMA ProvidersAre == ProvInv => ProvidersSound
  <1> SUFFICES ASSUME ProvInv PROVE ProvidersSound
    OBVIOUS
  <1>1. StoreTrue(store, lastId, ever) /\ CallsTrue(provCalls, store, lastId) /\ EnsTrue(ens, ever) /\ lastId \in 0..MaxProvId
    BY DEF ProvInv
  <1>2. ProvTypeOK
    <2>1. \A i \in DOMAIN store : store[i].id \in 1..MaxProvId /\ store[i].name \in ProvNames /\ store[i].type \in ProvTypes
      BY <1>1, StoreIs DEF ProvRecs
    <2>2. \A c \in ProvCallers : provCalls[c].pc \in {"idle", "get", "put", "ok", "exists", "error"}
      BY <1>1 DEF CallsTrue, CallRecs
    <2>3. ens.pc \in {"idle", "list", "explicit", "inferred", "create", "created", "done", "failed"}
      BY <1>1 DEF EnsTrue, EnsRecs
    <2> QED BY <1>1, <2>1, <2>2, <2>3 DEF ProvTypeOK
  <1>3. OneProviderPerName
    <2>1. \A i, j \in DOMAIN store : store[i].name = store[j].name => i = j
      BY <1>1 DEF StoreTrue
    <2>2. \A c \in ProvCallers : provCalls[c].pc = "put" => \A i \in DOMAIN store : Agree(store[i], provCalls[c].rec)
      BY <1>1 DEF CallsTrue, CallTrue
    <2>3. \A c \in ProvCallers : provCalls[c].pc = "put" => \A i \in ById(provCalls[c].rec.id) : store[i].type = provCalls[c].rec.type
      BY <2>2 DEF ById, Agree
    <2> QED BY <2>1, <2>3 DEF OneProviderPerName
  <1>4. TypeProvided
    BY <1>1 DEF EnsTrue, TypeProvided
  <1> QED BY <1>2, <1>3, <1>4 DEF ProvidersSound

\* A create checks the name in one call and inserts in another, an update writes
\* back what it read, and records are deleted between them: for any clients, names,
\* types, page sizes and tries, no two records have a name, no write changes a
\* type, and the command line attaches a provider of every type it did not skip.
THEOREM OneTypePerName == ProvSpec => []ProvidersSound
  <1>1. ProvInit => ProvInv
    <2> SUFFICES ASSUME ProvInit PROVE ProvInv
      OBVIOUS
    <2>1. store = <<>> /\ lastId = 0 /\ ever = {} /\ provCalls = [c \in ProvCallers |-> NoCall] /\ ens = NoEns
      BY DEF ProvInit
    <2>2. StoreTrue(store, lastId, ever)
      <3>1. <<>> \in Seq(ProvRecs) /\ DOMAIN <<>> = {}
        OBVIOUS
      <3> QED BY <2>1, <3>1 DEF StoreTrue
    <2>3. NoCall \in CallRecs /\ NoCall.pc = "idle"
      <3>1. NoRec.id \in 0..MaxProvId
        BY ProvBounds DEF NoRec
      <3> QED BY <3>1 DEF NoCall, NoRec, CallRecs
    <2>4. CallsTrue(provCalls, store, lastId)
      BY <2>1, <2>3 DEF CallsTrue, CallTrue, WritesAgree, ProvCallers
    <2>5. NoEns.pc = "idle"
      BY DEF NoEns
    <2>6. EnsTrue(ens, ever) /\ ens.pc = "idle"
      BY <2>1, <2>5, NoEnsIs DEF EnsTrue
    <2>7. CreateTrue(ens, provCalls[Cli], ever)
      BY <2>1, <2>3, <2>6 DEF CreateTrue, ProvCallers
    <2>8. lastId \in 0..MaxProvId
      BY <2>1, ProvBounds
    <2> QED BY <2>2, <2>4, <2>6, <2>7, <2>8 DEF ProvInv
  <1>2. ProvInv /\ [ProvNext]_provVars => ProvInv'
    <2> SUFFICES ASSUME ProvInv, [ProvNext]_provVars PROVE ProvInv'
      OBVIOUS
    <2>1. CASE UNCHANGED provVars
      BY <2>1 DEF provVars, ProvInv
    <2>2. ASSUME NEW c \in ProvCallers, ProviderCreate(c) \/ ProviderUpdate(c) \/ ProviderDelete(c) \/ CreateCheck(c)
                 \/ UpdateGet(c) \/ PutProvider(c)
          PROVE  ProvInv'
      BY <2>2, AdminSteps, CreateCheckStep, UpdateGetStep, PutStep
    <2>3. CASE EnvBegin \/ EnvRead
      <3>1. UNCHANGED <<store, lastId, provCalls, ens, ever>>
        BY <2>3 DEF EnvBegin, EnvRead
      <3> QED BY <3>1 DEF ProvInv
    <2> QED BY <2>1, <2>2, <2>3, BeginStep, ListStep, ExplicitStep, InferredStep, SkipStep, AutoCreateStep, AnsweredStep DEF ProvNext
  <1> QED BY <1>1, <1>2, ProvidersAre, PTL DEF ProvSpec

-----------------------------------------------------------------------------
(* ObjectStore: a table that changes under a client that pages through it. *)

StoredRows == [type : ObjTypes \cup {"none"}, name : ObjNames \cup {0}, created : 0..MaxClock, updated : 0..MaxClock]
Walks ==
    [table : ObjTypes \cup {"policies", "none"}, offset : Nat, seen : SUBSET (ObjIds \cup 1..MaxPolRows),
     there : SUBSET (ObjIds \cup 1..MaxPolRows), ended : BOOLEAN]

Writers ==
    [on : BOOLEAN, id : ObjIds \cup {NotWriting.id}, type : ObjTypes \cup {"none"}, name : ObjNames \cup {0}]

\* A type has a name once, so that creation time and name order its rows.
TableTrue(tab) ==
    /\ tab \in [ObjIds -> StoredRows]
    /\ \A i \in ObjIds : tab[i] = NoRow \/ (tab[i].type \in ObjTypes /\ tab[i].name \in ObjNames)
    /\ \A i, j \in ObjIds : tab[i].type # "none" /\ tab[i].type = tab[j].type /\ tab[i].name = tab[j].name => i = j
    /\ IsFiniteSet({i \in ObjIds : tab[i].type # "none"})

WriterTrue(w) == w.on => w.id \in ObjIds /\ w.type \in ObjTypes /\ w.name \in ObjNames

\* Rows, Before, Ahead, Rank and Page of a table tab of objects and policy versions pol.
RowsIn(tab, pol, t) == IF t = "policies" THEN pol ELSE {i \in ObjIds : tab[i].type = t}
BeforeIn(tab, a, b) ==
    \/ tab[a].created < tab[b].created
    \/ tab[a].created = tab[b].created /\ tab[a].name < tab[b].name
AheadIn(tab, t, a, b) == IF t = "policies" THEN a > b ELSE BeforeIn(tab, a, b)
RankIn(tab, pol, t, r) == Cardinality({x \in RowsIn(tab, pol, t) : AheadIn(tab, t, x, r)})
PageIn(tab, pol, t, o) ==
    {r \in RowsIn(tab, pol, t) : RankIn(tab, pol, t, r) \in o..(o + ObjPageSize - 1)}

\* What a walk has still to see lies at its offset or behind it.
WalkTrue(k, tab, pol) ==
    /\ k.table # "none" /\ ~k.ended =>
          \A r \in k.there : r \in RowsIn(tab, pol, k.table) /\ (r \in k.seen \/ k.offset <= RankIn(tab, pol, k.table, r))
    /\ k.ended => k.there \subseteq k.seen

StoreInv ==
    /\ TableTrue(objects)
    /\ polRows \subseteq 1..MaxPolRows /\ now \in 0..MaxClock
    /\ writers \in [ObjWriters -> Writers] /\ \A w \in ObjWriters : WriterTrue(writers[w])
    /\ walks \in [ObjWalkers -> Walks] /\ \A c \in ObjWalkers : WalkTrue(walks[c], objects, polRows)

\* L orders the elements of R strictly and totally; Below are those in front of r.
Orders(L, R) ==
    /\ \A a \in R : <<a, a>> \notin L
    /\ \A a, b, c \in R : <<a, b>> \in L /\ <<b, c>> \in L => <<a, c>> \in L
    /\ \A a, b \in R : a # b => <<a, b>> \in L \/ <<b, a>> \in L
Below(L, R, r) == {x \in R : <<x, r>> \in L}

LEMMA RanksDiffer ==
    ASSUME NEW R, IsFiniteSet(R), NEW L, Orders(L, R),
           NEW rk, \A r \in R : rk[r] = Cardinality(Below(L, R, r))
    PROVE  /\ \A r \in R : rk[r] \in Nat
           /\ \A r \in R : rk[r] < Cardinality(R)
           /\ \A a, b \in R : rk[a] = rk[b] => a = b
  <1> USE DEF Orders, Below
  <1> DEFINE Low(r) == {x \in R : <<x, r>> \in L}
  <1>1. \A r \in R : IsFiniteSet(Low(r)) /\ Cardinality(Low(r)) \in Nat /\ Cardinality(Low(r)) <= Cardinality(R) /\ rk[r] = Cardinality(Low(r))
    <2> TAKE r \in R
    <2>1. Low(r) \in SUBSET R
      OBVIOUS
    <2>2. IsFiniteSet(Low(r)) /\ Cardinality(Low(r)) <= Cardinality(R)
      BY <2>1, FS_Subset
    <2>3. Cardinality(Low(r)) \in Nat
      BY <2>2, FS_CardinalityType
    <2> QED BY <2>2, <2>3
  <1>2. Cardinality(R) \in Nat
    BY FS_CardinalityType
  <1>3. \A r \in R : rk[r] \in Nat
    BY <1>1
  <1>4. \A r \in R : rk[r] < Cardinality(R)
    <2> TAKE r \in R
    <2>1. Low(r) \in SUBSET R /\ Low(r) # R
      OBVIOUS
    <2>2. Cardinality(Low(r)) # Cardinality(R)
      BY <2>1, FS_Subset
    <2> QED BY <1>1, <1>2, <2>2
  <1>5. ASSUME NEW a \in R, NEW b \in R, <<a, b>> \in L PROVE rk[a] # rk[b]
    <2>1. Low(a) \in SUBSET Low(b)
      BY <1>5
    <2>2. a \in Low(b) /\ a \notin Low(a)
      BY <1>5
    <2>3. IsFiniteSet(Low(b)) /\ Low(a) # Low(b)
      BY <1>1, <2>2
    <2>4. Cardinality(Low(a)) # Cardinality(Low(b))
      BY <2>1, <2>3, FS_Subset
    <2> QED BY <1>1, <2>4
  <1>6. \A a, b \in R : rk[a] = rk[b] => a = b
    BY <1>5
  <1> QED BY <1>3, <1>4, <1>6

LEMMA FullPage ==
    ASSUME NEW R, IsFiniteSet(R), NEW rk \in [R -> Nat], \A r \in R : rk[r] < Cardinality(R),
           \A a, b \in R : rk[a] = rk[b] => a = b,
           NEW o \in Nat, NEW p \in Nat, NEW z \in R, o + p <= rk[z]
    PROVE  Cardinality({r \in R : rk[r] \in o..(o + p - 1)}) = p
  <1> DEFINE n == Cardinality(R)
             T == 0..(n - 1)
             P == {r \in R : rk[r] \in o..(o + p - 1)}
             f == [r \in P |-> rk[r]]
  <1>1. n \in Nat /\ n > 0 /\ o + p < n
    <2>1. n \in Nat /\ rk[z] < n /\ rk[z] \in Nat
      BY FS_CardinalityType
    <2> HIDE DEF n
    <2> QED BY <2>1
  <1>2. IsFiniteSet(T) /\ Cardinality(T) = n
    <2>1. 0 \in Int /\ n - 1 \in Int
      BY <1>1
    <2>2. IsFiniteSet(T) /\ Cardinality(T) = IF 0 > n - 1 THEN 0 ELSE n - 1 - 0 + 1
      BY <2>1, FS_Interval
    <2> HIDE DEF n, T
    <2> QED BY <1>1, <2>2
  <1>3. rk \in Injection(R, T)
    <2>1. \A r \in R : rk[r] \in T
      <3> HIDE DEF n
      <3>1. \A r \in R : rk[r] \in Nat /\ rk[r] < n
        BY DEF n
      <3> QED BY <1>1, <3>1
    <2>2. rk \in [R -> T]
      BY <2>1
    <2> QED BY <2>2 DEF Injection, IsInjective
  <1>4. rk \in Surjection(R, T)
    BY <1>2, <1>3, FS_Injection
  <1>5. \A v \in T : \E r \in R : rk[r] = v
    BY <1>4 DEF Surjection
  <1>6. \A v \in o..(o + p - 1) : v \in T
    <2> HIDE DEF n
    <2> QED BY <1>1
  <1>7. f \in [P -> o..(o + p - 1)] /\ \A v \in o..(o + p - 1) : \E r \in P : f[r] = v
    BY <1>5, <1>6
  <1>8. \A a, b \in P : f[a] = f[b] => a = b
    OBVIOUS
  <1>9. f \in Injection(P, o..(o + p - 1)) /\ f \in Surjection(P, o..(o + p - 1))
    BY <1>7, <1>8 DEF Injection, Surjection, IsInjective
  <1>10. IsFiniteSet(o..(o + p - 1)) /\ Cardinality(o..(o + p - 1)) = p
    <2>1. o \in Int /\ o + p - 1 \in Int
      OBVIOUS
    <2>2. IsFiniteSet(o..(o + p - 1)) /\ Cardinality(o..(o + p - 1)) = IF o > o + p - 1 THEN 0 ELSE (o + p - 1) - o + 1
      BY <2>1, FS_Interval
    <2>3. (IF o > o + p - 1 THEN 0 ELSE (o + p - 1) - o + 1) = p
      OBVIOUS
    <2> QED BY <2>2, <2>3
  <1>11. Cardinality(P) = Cardinality(o..(o + p - 1))
    BY <1>9, <1>10, FS_Injection
  <1> QED BY <1>10, <1>11

LEMMA PolicyRowsFinite ==
    ASSUME NEW S, S \subseteq 1..MaxPolRows
    PROVE  IsFiniteSet(S) /\ Cardinality(S) \in Nat
  <1>1. 1 \in Int /\ MaxPolRows \in Int
    BY StoreAssumption
  <1>2. IsFiniteSet(1..MaxPolRows)
    BY <1>1, FS_Interval
  <1>3. IsFiniteSet(S)
    BY <1>2, FS_Subset
  <1> QED BY <1>3, FS_CardinalityType

Tables == ObjTypes \cup {"policies"}

LEMMA ObjTypesAre == "none" \notin ObjTypes /\ "policies" \notin ObjTypes
  BY StoreAssumption

LEMMA RowsFinite ==
    ASSUME NEW tab, TableTrue(tab), NEW pol, pol \subseteq 1..MaxPolRows, NEW t \in Tables
    PROVE  IsFiniteSet(RowsIn(tab, pol, t))
  <1>1. CASE t = "policies"
    BY <1>1, PolicyRowsFinite DEF RowsIn
  <1>2. CASE t # "policies"
    <2>1. t # "none"
      BY <1>2, ObjTypesAre DEF Tables
    <2>2. RowsIn(tab, pol, t) \subseteq {i \in ObjIds : tab[i].type # "none"}
      BY <1>2, <2>1 DEF RowsIn
    <2> QED BY <2>2, FS_Subset DEF TableTrue
  <1> QED BY <1>1, <1>2

\* The rows of a table are strictly and totally ordered.
LEMMA RowsOrdered ==
    ASSUME NEW tab, TableTrue(tab), NEW pol, pol \subseteq 1..MaxPolRows, NEW t \in Tables
    PROVE  /\ \A a \in RowsIn(tab, pol, t) : ~AheadIn(tab, t, a, a)
           /\ \A a, b, c \in RowsIn(tab, pol, t) : AheadIn(tab, t, a, b) /\ AheadIn(tab, t, b, c) => AheadIn(tab, t, a, c)
           /\ \A a, b \in RowsIn(tab, pol, t) : a # b => AheadIn(tab, t, a, b) \/ AheadIn(tab, t, b, a)
  <1>1. CASE t = "policies"
    <2>1. \A a \in RowsIn(tab, pol, t) : a \in Int
      BY <1>1 DEF RowsIn
    <2>2. \A a, b : AheadIn(tab, t, a, b) <=> a > b
      BY <1>1 DEF AheadIn
    <2> QED BY <2>1, <2>2
  <1>2. CASE t # "policies"
    <2>1. t \in ObjTypes /\ t # "none"
      BY <1>2, ObjTypesAre DEF Tables
    <2>2. \A a \in RowsIn(tab, pol, t) : a \in ObjIds /\ tab[a].type = t
      BY <1>2 DEF RowsIn
    <2>3. \A a \in RowsIn(tab, pol, t) : tab[a].created \in Int /\ tab[a].name \in Int
      <3> TAKE a \in RowsIn(tab, pol, t)
      <3>1. tab[a] \in StoredRows /\ tab[a].type # "none"
        BY <2>1, <2>2 DEF TableTrue
      <3>2. NoRow.type = "none"
        BY DEF NoRow
      <3>3. tab[a].name \in ObjNames
        BY <2>2, <3>1, <3>2 DEF TableTrue
      <3>4. tab[a].created \in 0..MaxClock
        BY <3>1 DEF StoredRows
      <3>5. \A m \in 0..MaxClock : m \in Int
        OBVIOUS
      <3>6. ObjNames \subseteq Int
        BY StoreAssumption
      <3> QED BY <3>3, <3>4, <3>5, <3>6
    <2>4. \A a, b \in RowsIn(tab, pol, t) : tab[a].name = tab[b].name => a = b
      BY <2>1, <2>2 DEF TableTrue
    <2>5. \A a, b : AheadIn(tab, t, a, b) <=> BeforeIn(tab, a, b)
      BY <1>2 DEF AheadIn
    <2>6. \A a \in RowsIn(tab, pol, t) : ~BeforeIn(tab, a, a)
      BY <2>3 DEF BeforeIn
    <2>7. \A a, b \in RowsIn(tab, pol, t) : a # b => BeforeIn(tab, a, b) \/ BeforeIn(tab, b, a)
      <3> TAKE a \in RowsIn(tab, pol, t), b \in RowsIn(tab, pol, t)
      <3> DEFINE x == tab[a].created
                 y == tab[b].created
                 u == tab[a].name
                 v == tab[b].name
      <3>1. x \in Int /\ y \in Int /\ u \in Int /\ v \in Int /\ (a # b => u # v)
        BY <2>3, <2>4
      <3>2. (BeforeIn(tab, a, b) <=> x < y \/ (x = y /\ u < v)) /\ (BeforeIn(tab, b, a) <=> y < x \/ (y = x /\ v < u))
        BY DEF BeforeIn
      <3> HIDE DEF x, y, u, v
      <3> QED BY <3>1, <3>2
    <2>8. ASSUME NEW a \in RowsIn(tab, pol, t), NEW b \in RowsIn(tab, pol, t), NEW c \in RowsIn(tab, pol, t), BeforeIn(tab, a, b), BeforeIn(tab, b, c)
          PROVE  BeforeIn(tab, a, c)
      <3> DEFINE x == tab[a].created
                 y == tab[b].created
                 z == tab[c].created
                 u == tab[a].name
                 v == tab[b].name
                 w == tab[c].name
      <3>1. x \in Int /\ y \in Int /\ z \in Int /\ u \in Int /\ v \in Int /\ w \in Int
        BY <2>3
      <3>2. (x < y \/ (x = y /\ u < v)) /\ (y < z \/ (y = z /\ v < w)) /\ (BeforeIn(tab, a, c) <=> x < z \/ (x = z /\ u < w))
        BY <2>8 DEF BeforeIn
      <3> HIDE DEF x, y, z, u, v, w
      <3> QED BY <3>1, <3>2
    <2> QED BY <2>5, <2>6, <2>7, <2>8
  <1> QED BY <1>1, <1>2

LEMMA RankIs ==
    ASSUME NEW tab, TableTrue(tab), NEW pol, pol \subseteq 1..MaxPolRows, NEW t \in Tables
    PROVE  /\ \A r \in RowsIn(tab, pol, t) : RankIn(tab, pol, t, r) \in Nat
           /\ \A o \in Nat : Cardinality(PageIn(tab, pol, t, o)) < ObjPageSize => \A r \in RowsIn(tab, pol, t) : RankIn(tab, pol, t, r) < o + ObjPageSize
  <1> DEFINE R == RowsIn(tab, pol, t)
             L == {ab \in R \X R : AheadIn(tab, t, ab[1], ab[2])}
             rk == [r \in R |-> Cardinality({x \in R : <<x, r>> \in L})]
  <1>1. IsFiniteSet(R)
    BY RowsFinite
  <1>2. \A a, b \in R : <<a, b>> \in L <=> AheadIn(tab, t, a, b)
    OBVIOUS
  <1>3. \A r \in R : {x \in R : <<x, r>> \in L} = {x \in R : AheadIn(tab, t, x, r)}
    BY <1>2
  <1>4. \A r \in R : rk[r] = RankIn(tab, pol, t, r)
    BY <1>3 DEF RankIn
  <1> HIDE DEF L
  <1>5. Orders(L, R)
    <2>1. /\ \A a \in R : ~AheadIn(tab, t, a, a)
          /\ \A a, b, c \in R : AheadIn(tab, t, a, b) /\ AheadIn(tab, t, b, c) => AheadIn(tab, t, a, c)
          /\ \A a, b \in R : a # b => AheadIn(tab, t, a, b) \/ AheadIn(tab, t, b, a)
      BY RowsOrdered
    <2> HIDE DEF R
    <2> QED BY <1>2, <2>1 DEF Orders
  <1>6. /\ \A r \in R : rk[r] = Cardinality(Below(L, R, r))
        /\ (\A r \in R : rk[r] \in Nat) => rk \in [R -> Nat]
    BY DEF Below
  <1> HIDE DEF R, rk
  <1>7. rk \in [R -> Nat] /\ (\A r \in R : rk[r] < Cardinality(R)) /\ \A a, b \in R : rk[a] = rk[b] => a = b
    <2>1. (\A r \in R : rk[r] \in Nat) /\ (\A r \in R : rk[r] < Cardinality(R)) /\ \A a, b \in R : rk[a] = rk[b] => a = b
      BY <1>1, <1>5, <1>6, RanksDiffer
    <2> QED BY <1>6, <2>1
  <1>8. \A r \in R : RankIn(tab, pol, t, r) \in Nat
    BY <1>4, <1>7
  <1>9. ASSUME NEW o \in Nat, Cardinality(PageIn(tab, pol, t, o)) < ObjPageSize, NEW r \in R PROVE RankIn(tab, pol, t, r) < o + ObjPageSize
    <2>1. ObjPageSize \in Nat
      BY StoreAssumption
    <2>2. PageIn(tab, pol, t, o) = {x \in R : rk[x] \in o..(o + ObjPageSize - 1)}
      BY <1>4 DEF PageIn, R
    <2>3. o + ObjPageSize <= rk[r] => Cardinality(PageIn(tab, pol, t, o)) = ObjPageSize
      BY <1>1, <1>7, <2>1, <2>2, FullPage
    <2>4. ~(ObjPageSize < ObjPageSize)
      BY <2>1
    <2>5. ~(o + ObjPageSize <= rk[r])
      BY <1>9, <2>3, <2>4
    <2>6. RankIn(tab, pol, t, r) \in Nat /\ RankIn(tab, pol, t, r) = rk[r]
      BY <1>4, <1>8
    <2> QED BY <2>1, <2>5, <2>6
  <1> QED BY <1>8, <1>9 DEF R

\* Rows may come, in front of a row too, and none may go.
LEMMA RankGrows ==
    ASSUME NEW tab, NEW pol, NEW tab2, TableTrue(tab2), NEW pol2, pol2 \subseteq 1..MaxPolRows, NEW t \in Tables,
           RowsIn(tab, pol, t) \subseteq RowsIn(tab2, pol2, t),
           \A a, b \in RowsIn(tab, pol, t) : AheadIn(tab, t, a, b) => AheadIn(tab2, t, a, b), NEW r \in RowsIn(tab, pol, t)
    PROVE  /\ RankIn(tab, pol, t, r) \in Nat /\ RankIn(tab2, pol2, t, r) \in Nat
           /\ RankIn(tab, pol, t, r) <= RankIn(tab2, pol2, t, r)
  <1> DEFINE A == {x \in RowsIn(tab, pol, t) : AheadIn(tab, t, x, r)}
             B == {x \in RowsIn(tab2, pol2, t) : AheadIn(tab2, t, x, r)}
  <1>1. A \in SUBSET B
    OBVIOUS
  <1>2. IsFiniteSet(RowsIn(tab2, pol2, t))
    BY RowsFinite
  <1>3. IsFiniteSet(B)
    BY <1>2, FS_Subset
  <1>4. IsFiniteSet(A) /\ Cardinality(A) <= Cardinality(B)
    BY <1>1, <1>3, FS_Subset
  <1>5. Cardinality(A) \in Nat /\ Cardinality(B) \in Nat
    BY <1>3, <1>4, FS_CardinalityType
  <1>6. RankIn(tab, pol, t, r) = Cardinality(A) /\ RankIn(tab2, pol2, t, r) = Cardinality(B)
    BY DEF RankIn
  <1> HIDE DEF A, B
  <1> QED BY <1>4, <1>5, <1>6

LEMMA ValuesAre ==
    /\ \A t : Rows(t) = RowsIn(objects, polRows, t)
    /\ \A t, o : Page(t, o) = PageIn(objects, polRows, t, o)
  <1>1. \A t : Rows(t) = RowsIn(objects, polRows, t)
    BY DEF Rows, ListedIds, RowsIn
  <1>2. \A t, a, b : Ahead(t, a, b) <=> AheadIn(objects, t, a, b)
    BY DEF Ahead, AheadIn, Before, BeforeIn
  <1>3. \A t, r : {x \in Rows(t) : Ahead(t, x, r)} = {x \in RowsIn(objects, polRows, t) : AheadIn(objects, t, x, r)}
    BY <1>1, <1>2
  <1>4. \A t, r : Rank(t, r) = RankIn(objects, polRows, t, r)
    BY <1>3 DEF Rank, RankIn
  <1>5. \A t, o : Page(t, o) = PageIn(objects, polRows, t, o)
    BY <1>1, <1>4 DEF Page, PageIn
  <1> QED BY <1>1, <1>5

\* A walk stands if the rows of its table stay in their order.
LEMMA WalkStands ==
    ASSUME NEW tab, NEW pol, NEW tab2, TableTrue(tab2), NEW pol2, pol2 \subseteq 1..MaxPolRows,
           NEW k \in Walks, WalkTrue(k, tab, pol),
           k.table # "none" /\ ~k.ended =>
              /\ RowsIn(tab, pol, k.table) \subseteq RowsIn(tab2, pol2, k.table)
              /\ \A a, b \in RowsIn(tab, pol, k.table) : AheadIn(tab, k.table, a, b) => AheadIn(tab2, k.table, a, b)
    PROVE  WalkTrue(k, tab2, pol2)
  <1>1. ASSUME k.table # "none", ~k.ended, NEW r \in k.there
        PROVE  r \in RowsIn(tab2, pol2, k.table) /\ (r \in k.seen \/ k.offset <= RankIn(tab2, pol2, k.table, r))
    <2> DEFINE t == k.table
    <2>1. t \in Tables /\ k.offset \in Nat
      BY <1>1 DEF Walks, Tables
    <2>2. r \in RowsIn(tab, pol, t) /\ (r \in k.seen \/ k.offset <= RankIn(tab, pol, t, r))
      BY <1>1 DEF WalkTrue
    <2>3. /\ RowsIn(tab, pol, t) \subseteq RowsIn(tab2, pol2, t)
          /\ \A a, b \in RowsIn(tab, pol, t) : AheadIn(tab, t, a, b) => AheadIn(tab2, t, a, b)
      BY <1>1
    <2> HIDE DEF t
    <2>4. /\ RankIn(tab, pol, t, r) \in Nat /\ RankIn(tab2, pol2, t, r) \in Nat
          /\ RankIn(tab, pol, t, r) <= RankIn(tab2, pol2, t, r)
      BY <2>1, <2>2, <2>3, RankGrows
    <2> DEFINE x == RankIn(tab, pol, t, r)
               y == RankIn(tab2, pol2, t, r)
               o == k.offset
    <2>5. o <= x => o <= y
      <3>1. x \in Nat /\ y \in Nat /\ x <= y /\ o \in Nat
        BY <2>1, <2>4
      <3> HIDE DEF x, y, o
      <3> QED BY <3>1
    <2>6. r \in RowsIn(tab2, pol2, t) /\ (r \in k.seen \/ o <= y)
      BY <2>2, <2>3, <2>5
    <2> QED BY <2>6 DEF t
  <1>2. k.ended => k.there \subseteq k.seen
    BY DEF WalkTrue
  <1> QED BY <1>1, <1>2 DEF WalkTrue

\* What a statement may do to the rows that stay.
KeepsRows(tab, tab2) ==
    \A i \in ObjIds : tab[i].type # "none" =>
        tab2[i].type = tab[i].type /\ tab2[i].created = tab[i].created /\ tab2[i].name = tab[i].name

LEMMA KeptInOrder ==
    ASSUME NEW tab, NEW tab2, KeepsRows(tab, tab2), NEW pol, NEW pol2, pol \subseteq pol2, NEW t \in Tables
    PROVE  /\ RowsIn(tab, pol, t) \subseteq RowsIn(tab2, pol2, t)
           /\ \A a, b \in RowsIn(tab, pol, t) : AheadIn(tab, t, a, b) => AheadIn(tab2, t, a, b)
  <1>1. CASE t = "policies"
    BY <1>1 DEF RowsIn, AheadIn
  <1>2. CASE t # "policies"
    <2>1. t # "none"
      BY <1>2, ObjTypesAre DEF Tables
    <2>2. \A a \in RowsIn(tab, pol, t) : a \in ObjIds /\ tab2[a].type = t /\ tab2[a].created = tab[a].created /\ tab2[a].name = tab[a].name
      BY <1>2, <2>1 DEF RowsIn, KeepsRows
    <2> QED BY <1>2, <2>2 DEF RowsIn, AheadIn, BeforeIn
  <1> QED BY <1>1, <1>2

LEMMA NoRowIs == NoRow \in StoredRows /\ NoRow.type = "none"
  <1>1. 0 \in 0..MaxClock
    BY StoreAssumption
  <1> QED BY <1>1 DEF NoRow, StoredRows

LEMMA PutKeeps ==
    ASSUME TableTrue(objects), now \in 0..MaxClock, NEW id \in ObjIds, NEW type \in ObjTypes, NEW name \in ObjNames,
           PutStatement(id, type, name)
    PROVE  TableTrue(objects') /\ KeepsRows(objects, objects')
  <1>1. objects \in [ObjIds -> StoredRows] /\ objects[id] \in StoredRows
    BY DEF TableTrue
  <1>2. CASE objects[id] # NoRow
    <2> DEFINE x == [objects[id] EXCEPT !.updated = now]
    <2>1. objects' = [objects EXCEPT ![id] = x]
      BY <1>2 DEF PutStatement
    <2>2. x \in StoredRows /\ x.type = objects[id].type /\ x.name = objects[id].name /\ x.created = objects[id].created
      BY <1>1 DEF StoredRows
    <2> HIDE DEF x
    <2>3. objects' \in [ObjIds -> StoredRows]
      BY <1>1, <2>1, <2>2
    <2>4. \A i \in ObjIds : objects'[i].type = objects[i].type /\ objects'[i].created = objects[i].created /\ objects'[i].name = objects[i].name
      BY <1>1, <2>1, <2>2
    <2>5. \A i \in ObjIds : objects'[i] = NoRow \/ (objects'[i].type \in ObjTypes /\ objects'[i].name \in ObjNames)
      BY <1>1, <1>2, <2>1, <2>2 DEF TableTrue
    <2>6. {i \in ObjIds : objects'[i].type # "none"} = {i \in ObjIds : objects[i].type # "none"}
      BY <2>4
    <2>7. IsFiniteSet({i \in ObjIds : objects'[i].type # "none"})
      BY <2>6 DEF TableTrue
    <2>8. \A i, j \in ObjIds : objects'[i].type # "none" /\ objects'[i].type = objects'[j].type /\ objects'[i].name = objects'[j].name => i = j
      BY <2>4 DEF TableTrue
    <2> QED BY <2>3, <2>4, <2>5, <2>7, <2>8 DEF TableTrue, KeepsRows
  <1>3. CASE objects[id] = NoRow /\ NamedIds(type, name) # {}
    BY <1>3 DEF PutStatement, KeepsRows
  <1>4. CASE objects[id] = NoRow /\ NamedIds(type, name) = {}
    <2> DEFINE x == [type |-> type, name |-> name, created |-> now, updated |-> now]
    <2>1. objects' = [objects EXCEPT ![id] = x]
      BY <1>4 DEF PutStatement
    <2>2. x \in StoredRows /\ x.type = type /\ x.name = name
      BY DEF StoredRows
    <2> HIDE DEF x
    <2>3. objects' \in [ObjIds -> StoredRows] /\ objects'[id] = x /\ \A i \in ObjIds : i # id => objects'[i] = objects[i]
      BY <1>1, <2>1, <2>2
    <2>4. objects[id].type = "none"
      BY <1>4, NoRowIs
    <2>5. KeepsRows(objects, objects')
      BY <2>3, <2>4 DEF KeepsRows
    <2>6. \A i \in ObjIds : objects'[i] = NoRow \/ (objects'[i].type \in ObjTypes /\ objects'[i].name \in ObjNames)
      BY <2>2, <2>3 DEF TableTrue
    <2>7. \A i \in ObjIds : ~(objects[i].type = type /\ objects[i].name = name)
      BY <1>4 DEF NamedIds, ListedIds
    <2>8. \A i, j \in ObjIds : objects'[i].type # "none" /\ objects'[i].type = objects'[j].type /\ objects'[i].name = objects'[j].name => i = j
      BY <2>2, <2>3, <2>7 DEF TableTrue
    <2>9. {i \in ObjIds : objects'[i].type # "none"} \subseteq {i \in ObjIds : objects[i].type # "none"} \cup {id}
      BY <2>3
    <2>10. IsFiniteSet({i \in ObjIds : objects[i].type # "none"} \cup {id})
      BY FS_AddElement DEF TableTrue
    <2>11. IsFiniteSet({i \in ObjIds : objects'[i].type # "none"})
      BY <2>9, <2>10, FS_Subset
    <2> QED BY <2>3, <2>5, <2>6, <2>8, <2>11 DEF TableTrue
  <1> QED BY <1>2, <1>3, <1>4

LEMMA DeleteKeeps ==
    ASSUME StoreInv, NEW ids \in SUBSET ObjIds, DeleteRows(ids), polRows' = polRows
    PROVE  /\ TableTrue(objects')
           /\ walks' \in [ObjWalkers -> Walks] /\ \A c \in ObjWalkers : WalkTrue(walks'[c], objects', polRows)
  <1>1. objects' = [i \in ObjIds |-> IF i \in ids THEN NoRow ELSE objects[i]]
    BY DEF DeleteRows
  <1>2. TableTrue(objects) /\ polRows \subseteq 1..MaxPolRows
    BY DEF StoreInv
  <1>3. TableTrue(objects')
    <2>1. objects' \in [ObjIds -> StoredRows] /\ \A i \in ObjIds : objects'[i] = NoRow \/ objects'[i] = objects[i]
      BY <1>1, <1>2, NoRowIs DEF TableTrue
    <2>2. {i \in ObjIds : objects'[i].type # "none"} \subseteq {i \in ObjIds : objects[i].type # "none"}
      BY <2>1, NoRowIs
    <2>3. IsFiniteSet({i \in ObjIds : objects'[i].type # "none"})
      BY <1>2, <2>2, FS_Subset DEF TableTrue
    <2>4. \A i, j \in ObjIds : objects'[i].type # "none" /\ objects'[i].type = objects'[j].type /\ objects'[i].name = objects'[j].name => i = j
      BY <1>2, <2>1, NoRowIs DEF TableTrue
    <2>5. \A i \in ObjIds : objects'[i] = NoRow \/ (objects'[i].type \in ObjTypes /\ objects'[i].name \in ObjNames)
      BY <1>2, <2>1 DEF TableTrue
    <2> QED BY <2>1, <2>3, <2>4, <2>5 DEF TableTrue
  <1>4. ASSUME NEW c \in ObjWalkers PROVE walks'[c] \in Walks /\ WalkTrue(walks'[c], objects', polRows)
    <2> DEFINE k == walks[c]
               hit == \E i \in ids : objects[i].type = k.table /\ ~k.ended
    <2>1. k \in Walks /\ WalkTrue(k, objects, polRows)
      BY DEF StoreInv
    <2>2. walks'[c] = IF hit THEN [k EXCEPT !.there = {}] ELSE k
      BY DEF DeleteRows
    <2>3. CASE hit
      <3> DEFINE x == [k EXCEPT !.there = {}]
      <3>1. x \in Walks /\ x.there = {} /\ x.ended = k.ended
        BY <2>1 DEF Walks
      <3>2. walks'[c] = x
        BY <2>2, <2>3
      <3> HIDE DEF x
      <3> QED BY <3>1, <3>2 DEF WalkTrue
    <2>4. CASE ~hit
      <3>1. walks'[c] = k
        BY <2>2, <2>4
      <3>2. k.table # "none" /\ ~k.ended =>
              /\ RowsIn(objects, polRows, k.table) \subseteq RowsIn(objects', polRows, k.table)
              /\ \A a, b \in RowsIn(objects, polRows, k.table) : AheadIn(objects, k.table, a, b) => AheadIn(objects', k.table, a, b)
        <4> SUFFICES ASSUME ~k.ended
                     PROVE  /\ RowsIn(objects, polRows, k.table) \subseteq RowsIn(objects', polRows, k.table)
                            /\ \A a, b \in RowsIn(objects, polRows, k.table) : AheadIn(objects, k.table, a, b) => AheadIn(objects', k.table, a, b)
          OBVIOUS
        <4>1. \A i \in ObjIds : objects[i].type = k.table => objects'[i] = objects[i]
          BY <1>1, <2>4
        <4> HIDE DEF k
        <4> QED BY <4>1 DEF RowsIn, AheadIn, BeforeIn
      <3> HIDE DEF k
      <3>3. WalkTrue(k, objects', polRows)
        BY <1>2, <1>3, <2>1, <3>2, WalkStands
      <3> QED BY <2>1, <3>1, <3>3
    <2> QED BY <2>3, <2>4
  <1>5. walks' \in [ObjWalkers -> Walks]
    <2>1. DOMAIN walks' = ObjWalkers /\ walks' = [c \in ObjWalkers |-> walks'[c]]
      BY DEF DeleteRows
    <2> QED BY <1>4, <2>1
  <1> QED BY <1>3, <1>4, <1>5

LEMMA RowsKept ==
    ASSUME StoreInv, TableTrue(objects'), KeepsRows(objects, objects'), polRows \subseteq polRows', polRows' \subseteq 1..MaxPolRows,
           now' \in 0..MaxClock, walks' = walks,
           writers' \in [ObjWriters -> Writers], \A w \in ObjWriters : WriterTrue(writers'[w])
    PROVE  StoreInv'
  <1>1. walks \in [ObjWalkers -> Walks]
    BY DEF StoreInv
  <1>2. ASSUME NEW c \in ObjWalkers PROVE WalkTrue(walks'[c], objects', polRows')
    <2> DEFINE k == walks[c]
    <2>1. k \in Walks /\ WalkTrue(k, objects, polRows) /\ walks'[c] = k
      BY DEF StoreInv
    <2>2. k.table # "none" => k.table \in Tables
      BY <2>1 DEF Walks, Tables
    <2> HIDE DEF k
    <2>3. k.table # "none" =>
            /\ RowsIn(objects, polRows, k.table) \subseteq RowsIn(objects', polRows', k.table)
            /\ \A a, b \in RowsIn(objects, polRows, k.table) : AheadIn(objects, k.table, a, b) => AheadIn(objects', k.table, a, b)
      BY <2>2, KeptInOrder
    <2>4. WalkTrue(k, objects', polRows')
      BY <2>1, <2>3, WalkStands
    <2> QED BY <2>1, <2>4
  <1> QED BY <1>1, <1>2 DEF StoreInv

LEMMA SameRows == KeepsRows(objects, objects)
  BY DEF KeepsRows

LEMMA ReadPageStep ==
    ASSUME StoreInv, NEW c \in ObjWalkers, ReadPage(c)
    PROVE  StoreInv'
  <1> DEFINE k == walks[c]
             t == k.table
             o == k.offset
             page == Page(t, o)
             sn == k.seen \cup (page \cap k.there)
             o2 == o + ObjPageSize
             en == Cardinality(page) < ObjPageSize
             x == [k EXCEPT !.seen = sn, !.offset = o2, !.ended = en]
  <1>1. k.table # "none" /\ ~k.ended /\ walks' = [walks EXCEPT ![c] = x] /\ UNCHANGED <<objects, polRows, now, writers>>
    BY DEF ReadPage
  <1>2. /\ walks \in [ObjWalkers -> Walks] /\ k \in Walks /\ WalkTrue(k, objects, polRows)
        /\ TableTrue(objects) /\ polRows \subseteq 1..MaxPolRows
    BY DEF StoreInv
  <1>3. t \in Tables /\ o \in Nat /\ k.seen \in SUBSET (ObjIds \cup 1..MaxPolRows) /\ k.there \in SUBSET (ObjIds \cup 1..MaxPolRows)
    BY <1>1, <1>2 DEF Walks, Tables
  <1>4. page = PageIn(objects, polRows, t, o)
    BY ValuesAre
  <1>5. \A r \in k.there : r \in RowsIn(objects, polRows, t) /\ (r \in k.seen \/ o <= RankIn(objects, polRows, t, r))
    BY <1>1, <1>2 DEF WalkTrue
  <1>6. (\A r \in RowsIn(objects, polRows, t) : RankIn(objects, polRows, t, r) \in Nat)
        /\ (en => \A r \in RowsIn(objects, polRows, t) : RankIn(objects, polRows, t, r) < o + ObjPageSize)
    BY <1>2, <1>3, <1>4, RankIs
  <1>7. ObjPageSize \in Nat
    BY StoreAssumption
  <1>8. sn \in SUBSET (ObjIds \cup 1..MaxPolRows) /\ o2 \in Nat /\ en \in BOOLEAN
    <2>1. o2 \in Nat
      <3> HIDE DEF o
      <3> QED BY <1>3, <1>7
    <2>2. sn \in SUBSET (ObjIds \cup 1..MaxPolRows)
      BY <1>3
    <2> QED BY <2>1, <2>2
  <1>9. \A r \in k.there : r \in sn \/ o2 <= RankIn(objects, polRows, t, r)
    <2> TAKE r \in k.there
    <2> DEFINE rank == RankIn(objects, polRows, t, r)
    <2>1. r \in RowsIn(objects, polRows, t) /\ (r \in k.seen \/ o <= rank) /\ rank \in Nat
      BY <1>5, <1>6
    <2>2. rank \in o..(o + ObjPageSize - 1) => r \in page
      BY <1>4, <2>1 DEF PageIn
    <2> HIDE DEF page, rank, o
    <2>3. o <= rank => rank \in o..(o + ObjPageSize - 1) \/ o + ObjPageSize <= rank
      BY <1>3, <1>7, <2>1
    <2> QED BY <2>1, <2>2, <2>3 DEF rank
  <1>10. en => k.there \subseteq sn
    <2> SUFFICES ASSUME en, NEW r \in k.there PROVE r \in sn
      OBVIOUS
    <2> DEFINE rank == RankIn(objects, polRows, t, r)
    <2>1. rank \in Nat /\ rank < o + ObjPageSize
      BY <1>5, <1>6
    <2>2. r \in sn \/ o + ObjPageSize <= rank
      BY <1>9
    <2> HIDE DEF rank, o, sn
    <2> QED BY <1>3, <1>7, <2>1, <2>2
  <1> HIDE DEF sn, o2, en
  <1>11. x \in Walks /\ x.table = t /\ x.offset = o2 /\ x.seen = sn /\ x.there = k.there /\ x.ended = en
    BY <1>2, <1>8 DEF Walks
  <1> HIDE DEF x
  <1>12. WalkTrue(x, objects, polRows)
    BY <1>5, <1>9, <1>10, <1>11 DEF WalkTrue
  <1>13. walks' \in [ObjWalkers -> Walks] /\ \A d \in ObjWalkers : walks'[d] = IF d = c THEN x ELSE walks[d]
    BY <1>1, <1>2, <1>11
  <1>14. \A d \in ObjWalkers : WalkTrue(walks'[d], objects, polRows)
    BY <1>12, <1>13 DEF StoreInv
  <1> QED BY <1>1, <1>13, <1>14 DEF StoreInv

LEMMA WalkStarts ==
    ASSUME StoreInv, NEW c \in ObjWalkers,
           LeaveWalk(c) \/ \E t \in ObjTypes \cup {"policies"} : StartWalk(c, t)
    PROVE  StoreInv'
  <1>1. /\ walks \in [ObjWalkers -> Walks] /\ TableTrue(objects) /\ polRows \subseteq 1..MaxPolRows
        /\ \A d \in ObjWalkers : WalkTrue(walks[d], objects, polRows)
    BY DEF StoreInv
  <1>2. ASSUME NEW x \in Walks, WalkTrue(x, objects, polRows), walks' = [walks EXCEPT ![c] = x],
               UNCHANGED <<objects, polRows, now, writers>>
        PROVE  StoreInv'
    <2>1. walks' \in [ObjWalkers -> Walks] /\ \A d \in ObjWalkers : walks'[d] = IF d = c THEN x ELSE walks[d]
      BY <1>1, <1>2
    <2>2. \A d \in ObjWalkers : WalkTrue(walks'[d], objects, polRows)
      BY <1>1, <1>2, <2>1
    <2> QED BY <1>2, <2>1, <2>2 DEF StoreInv
  <1>3. NotWalking \in Walks /\ NotWalking.table = "none" /\ NotWalking.ended = FALSE /\ NotWalking.offset = 0 /\ NotWalking.there = {}
    BY DEF NotWalking, Walks
  <1>4. CASE LeaveWalk(c)
    <2>1. walks' = [walks EXCEPT ![c] = NotWalking] /\ UNCHANGED <<objects, polRows, now, writers>>
      BY <1>4 DEF LeaveWalk
    <2>2. WalkTrue(NotWalking, objects, polRows)
      BY <1>3 DEF WalkTrue
    <2> QED BY <1>2, <1>3, <2>1, <2>2
  <1>5. CASE \E t \in ObjTypes \cup {"policies"} : StartWalk(c, t)
    <2>1. PICK t \in Tables : StartWalk(c, t)
      BY <1>5 DEF Tables
    <2> DEFINE rs == Rows(t)
               x == [NotWalking EXCEPT !.table = t, !.there = rs]
    <2>2. walks' = [walks EXCEPT ![c] = x] /\ UNCHANGED <<objects, polRows, now, writers>>
      BY <2>1 DEF StartWalk
    <2>3. rs = RowsIn(objects, polRows, t)
      BY ValuesAre
    <2>4. rs \in SUBSET (ObjIds \cup 1..MaxPolRows)
      BY <1>1 DEF Rows, ListedIds
    <2>5. \A r \in rs : RankIn(objects, polRows, t, r) \in Nat
      BY <1>1, <2>3, RankIs
    <2> HIDE DEF rs
    <2>6. x \in Walks /\ x.table = t /\ x.there = rs /\ x.offset = 0 /\ x.ended = FALSE
      BY <1>3, <2>4 DEF Walks, Tables
    <2> HIDE DEF x
    <2>7. \A r \in rs : 0 <= RankIn(objects, polRows, t, r)
      BY <2>5
    <2>8. WalkTrue(x, objects, polRows)
      BY <2>3, <2>6, <2>7 DEF WalkTrue
    <2> QED BY <1>2, <2>2, <2>6, <2>8
  <1> QED BY <1>4, <1>5

LEMMA WriterSteps ==
    ASSUME StoreInv, NEW w \in ObjWriters, PutBack(w) \/ \E i \in ObjIds : ReadObject(w, i)
    PROVE  StoreInv'
  <1>1. writers \in [ObjWriters -> Writers] /\ (\A v \in ObjWriters : WriterTrue(writers[v])) /\ TableTrue(objects)
        /\ polRows \subseteq 1..MaxPolRows /\ now \in 0..MaxClock
    BY DEF StoreInv
  <1>2. CASE PutBack(w)
    <2>1. writers[w].id \in ObjIds /\ writers[w].type \in ObjTypes /\ writers[w].name \in ObjNames
      BY <1>1, <1>2 DEF PutBack, WriterTrue
    <2>2. PutStatement(writers[w].id, writers[w].type, writers[w].name) /\ writers' = [writers EXCEPT ![w] = NotWriting]
          /\ UNCHANGED <<polRows, now, walks>>
      BY <1>2 DEF PutBack
    <2>3. TableTrue(objects') /\ KeepsRows(objects, objects')
      BY <1>1, <2>1, <2>2, PutKeeps
    <2>4. NotWriting \in Writers /\ NotWriting.on = FALSE
      BY DEF NotWriting, Writers
    <2>5. writers' \in [ObjWriters -> Writers] /\ \A v \in ObjWriters : WriterTrue(writers'[v])
      BY <1>1, <2>2, <2>4 DEF WriterTrue
    <2> QED BY <1>1, <2>2, <2>3, <2>5, RowsKept
  <1>3. CASE \E i \in ObjIds : ReadObject(w, i)
    <2>1. PICK i \in ObjIds : ReadObject(w, i)
      BY <1>3
    <2> DEFINE x == [on |-> TRUE, id |-> i, type |-> objects[i].type, name |-> objects[i].name]
    <2>2. objects[i] # NoRow /\ writers' = [writers EXCEPT ![w] = x] /\ UNCHANGED <<objects, polRows, now, walks>>
      BY <2>1 DEF ReadObject
    <2>3. objects[i].type \in ObjTypes /\ objects[i].name \in ObjNames
      BY <1>1, <2>2 DEF TableTrue
    <2>4. x \in Writers /\ WriterTrue(x)
      BY <2>3 DEF Writers, WriterTrue
    <2> HIDE DEF x
    <2>5. writers' \in [ObjWriters -> Writers] /\ \A v \in ObjWriters : WriterTrue(writers'[v])
      BY <1>1, <2>2, <2>4
    <2>6. KeepsRows(objects, objects')
      BY <2>2, SameRows
    <2> QED BY <1>1, <2>2, <2>5, <2>6, RowsKept
  <1> QED BY <1>2, <1>3

LEMMA TableSteps ==
    ASSUME StoreInv,
           \/ \E i \in ObjIds, t \in ObjTypes, n \in ObjNames : CreateObject(i, t, n)
           \/ \E i \in ObjIds : DeleteObject(i)
           \/ \E t \in ObjTypes, n \in ObjNames : DeleteObjectByName(t, n)
    PROVE  StoreInv'
  <1>1. writers \in [ObjWriters -> Writers] /\ (\A v \in ObjWriters : WriterTrue(writers[v])) /\ TableTrue(objects)
        /\ polRows \subseteq 1..MaxPolRows /\ now \in 0..MaxClock
    BY DEF StoreInv
  <1>2. CASE \E i \in ObjIds, t \in ObjTypes, n \in ObjNames : CreateObject(i, t, n)
    <2>1. PICK i \in ObjIds, t \in ObjTypes, n \in ObjNames : CreateObject(i, t, n)
      BY <1>2
    <2>2. PutStatement(i, t, n) /\ UNCHANGED <<polRows, now, writers, walks>>
      BY <2>1 DEF CreateObject
    <2>3. TableTrue(objects') /\ KeepsRows(objects, objects')
      BY <1>1, <2>2, PutKeeps
    <2> QED BY <1>1, <2>2, <2>3, RowsKept
  <1>3. CASE \/ \E i \in ObjIds : DeleteObject(i)
             \/ \E t \in ObjTypes, n \in ObjNames : DeleteObjectByName(t, n)
    <2>1. \E ids \in SUBSET ObjIds : DeleteRows(ids)
      <3>1. \A i \in ObjIds : {i} \in SUBSET ObjIds
        OBVIOUS
      <3>2. \A t, n : NamedIds(t, n) \in SUBSET ObjIds
        BY DEF NamedIds, ListedIds
      <3> QED BY <1>3, <3>1, <3>2 DEF DeleteObject, DeleteObjectByName
    <2>2. UNCHANGED <<polRows, now, writers>>
      BY <1>3 DEF DeleteObject, DeleteObjectByName
    <2>3. /\ TableTrue(objects')
          /\ walks' \in [ObjWalkers -> Walks] /\ \A c \in ObjWalkers : WalkTrue(walks'[c], objects', polRows)
      BY <2>1, <2>2, DeleteKeeps
    <2> QED BY <1>1, <2>2, <2>3 DEF StoreInv
  <1> QED BY <1>2, <1>3

LEMMA OtherSteps ==
    ASSUME StoreInv, PutPolicyRevision \/ SetClock
    PROVE  StoreInv'
  <1>1. writers \in [ObjWriters -> Writers] /\ (\A v \in ObjWriters : WriterTrue(writers[v])) /\ TableTrue(objects)
        /\ polRows \subseteq 1..MaxPolRows /\ now \in 0..MaxClock
    BY DEF StoreInv
  <1>2. CASE PutPolicyRevision
    <2>1. Cardinality(polRows) < MaxPolRows /\ polRows' = polRows \cup {Cardinality(polRows) + 1}
          /\ UNCHANGED <<objects, now, writers, walks>>
      BY <1>2 DEF PutPolicyRevision
    <2>2. Cardinality(polRows) \in Nat /\ MaxPolRows \in Nat
      BY <1>1, PolicyRowsFinite, StoreAssumption
    <2>3. Cardinality(polRows) + 1 \in 1..MaxPolRows
      BY <2>1, <2>2
    <2>4. polRows' \subseteq 1..MaxPolRows /\ polRows \subseteq polRows'
      BY <1>1, <2>1, <2>3
    <2>5. KeepsRows(objects, objects')
      BY <2>1, SameRows
    <2> QED BY <1>1, <2>1, <2>4, <2>5, RowsKept
  <1>3. CASE SetClock
    <2>1. now' \in 0..MaxClock /\ UNCHANGED <<objects, polRows, writers, walks>>
      BY <1>3 DEF SetClock
    <2>2. KeepsRows(objects, objects')
      BY <2>1, SameRows
    <2> QED BY <1>1, <2>1, <2>2, RowsKept
  <1> QED BY <1>2, <1>3

LEMMA StoreIsSound == StoreInv => StoreSound
  <1> SUFFICES ASSUME StoreInv PROVE StoreSound
    OBVIOUS
  <1>1. ObjTypeOK
    BY DEF StoreInv, ObjTypeOK, TableTrue, StoredRows, Walks
  <1>2. WalkMissesNothing
    BY DEF StoreInv, WalkTrue, WalkMissesNothing
  <1> QED BY <1>1, <1>2 DEF StoreSound

\* Between two pages of a listing records are created, put back by writers that had
\* read them before, and the clock that stamps them is set back: for any page size,
\* number of clients and tables, a client that has read to the end has seen every
\* row that was there when it began and was not deleted.
THEOREM PagingMissesNothing == ObjSpec => []StoreSound
  <1>1. ObjInit => StoreInv
    <2> SUFFICES ASSUME ObjInit PROVE StoreInv
      OBVIOUS
    <2>1. /\ objects = [i \in ObjIds |-> NoRow] /\ polRows = {} /\ now = 0 /\ walks = [c \in ObjWalkers |-> NotWalking]
          /\ writers = [w \in ObjWriters |-> NotWriting]
      BY DEF ObjInit
    <2>2. NotWalking \in Walks /\ NotWalking.table = "none" /\ NotWalking.ended = FALSE
      BY DEF NotWalking, Walks
    <2>3. NotWriting \in Writers /\ NotWriting.on = FALSE
      BY DEF NotWriting, Writers
    <2>4. {i \in ObjIds : objects[i].type # "none"} = {}
      BY <2>1, NoRowIs
    <2>5. IsFiniteSet({i \in ObjIds : objects[i].type # "none"})
      BY <2>4, FS_EmptySet
    <2>6. TableTrue(objects)
      BY <2>1, <2>5, NoRowIs DEF TableTrue
    <2>7. now \in 0..MaxClock
      BY <2>1, StoreAssumption
    <2>8. \A c \in ObjWalkers : WalkTrue(walks[c], objects, polRows)
      BY <2>1, <2>2 DEF WalkTrue
    <2>9. \A w \in ObjWriters : WriterTrue(writers[w])
      BY <2>1, <2>3 DEF WriterTrue
    <2> QED BY <2>1, <2>2, <2>3, <2>6, <2>7, <2>8, <2>9 DEF StoreInv
  <1>2. StoreInv /\ [ObjNext]_objVars => StoreInv'
    <2> SUFFICES ASSUME StoreInv, [ObjNext]_objVars PROVE StoreInv'
      OBVIOUS
    <2>1. CASE UNCHANGED objVars
      BY <2>1 DEF objVars, StoreInv
    <2>2. ASSUME NEW c \in ObjWalkers, ReadPage(c) PROVE StoreInv'
      BY <2>2, ReadPageStep
    <2>3. ASSUME NEW c \in ObjWalkers, LeaveWalk(c) \/ \E t \in ObjTypes \cup {"policies"} : StartWalk(c, t) PROVE StoreInv'
      BY <2>3, WalkStarts
    <2>4. ASSUME NEW w \in ObjWriters, PutBack(w) \/ \E i \in ObjIds : ReadObject(w, i) PROVE StoreInv'
      BY <2>4, WriterSteps
    <2> QED BY <2>1, <2>2, <2>3, <2>4, TableSteps, OtherSteps DEF ObjNext
  <1> QED BY <1>1, <1>2, StoreIsSound, PTL DEF ObjSpec

-----------------------------------------------------------------------------
(* PolicyAdvisor: denials on their way from the proxies' aggregators to the *)
(* draft chunks, and the handlers that decide on the chunks.                *)

\* Summaries, proposals, rows and calls, by their fields.
ChunkStatuses == {"none", "pending", "approved", "rejected"}
CallPhases == {"idle", "fetch", "merge", "global", "remove", "mark", "write", "next"}
Summaries == [count : Nat, stage : {"none", "connect", "ssrf"}, l7 : BOOLEAN]
Proposals == [key : DenialKeys, hits : Nat \ {0}]
AdvRules == [bins : SUBSET AdvBinaries, dests : SUBSET Dests]
ChunkRecs == [id : Nat, st : ChunkStatuses, hits : Nat, rule : AdvRules]
Todos == [key : ChunkKeys, row : ChunkRecs]
Decisions ==
    [pc : CallPhases, op : {"none", "approve", "reject", "undo", "edit", "all"}, sandbox : AdvSandboxes \cup {"none"},
     key : ChunkKeys \cup {<<>>}, row : ChunkRecs, rest : Seq(Todos)]

\* What a handler is at says which request it serves.
OpOK(d) ==
    /\ d.pc = "fetch" => d.op \in {"approve", "reject", "undo", "edit"}
    /\ d.pc = "merge" => d.op \in {"approve", "all"}
    /\ d.pc \in {"global", "remove"} => d.op \in {"reject", "undo"}
    /\ d.pc = "mark" => d.op \in {"approve", "all", "reject", "undo"}
    /\ d.pc = "next" => d.op = "all" /\ d.rest # <<>>
    /\ d.pc = "write" => d.key \in ChunkKeys
    /\ d.rest # <<>> => d.op = "all"

CountTypes ==
    /\ denied \in [AdvSandboxes -> [DenialKeys -> 0..MaxDenials]]
    /\ agg \in [AdvSandboxes -> [DenialKeys -> Summaries]]
    /\ flush \in [AdvSandboxes -> Seq(Proposals)]

RowTypes == chunkRows \in [ChunkKeys -> ChunkRecs] /\ lastChunk \in 0..MaxChunkId

DeciderTypes == decide \in [Deciders -> Decisions] /\ \A h \in Deciders : OpOK(decide[h])

\* The inductive invariant.
AdvInv == CountTypes /\ RowTypes /\ DeciderTypes /\ CountedOnce

\* A denial's chunk is its own.
LEMMA ChunkOfIs ==
    /\ \A s \in AdvSandboxes, k \in DenialKeys : ChunkOf(s, k) \in ChunkKeys
    /\ \A s, t \in AdvSandboxes, k, m \in DenialKeys : ChunkOf(s, k) = ChunkOf(t, m) => s = t /\ k = m
  <1>1. \A s \in AdvSandboxes, k \in DenialKeys : ChunkOf(s, k) \in ChunkKeys
    BY DEF ChunkOf, ChunkKeys, DenialKeys
  <1>2. ASSUME NEW s \in AdvSandboxes, NEW t \in AdvSandboxes, NEW k \in DenialKeys, NEW m \in DenialKeys,
               ChunkOf(s, k) = ChunkOf(t, m)
        PROVE  s = t /\ k = m
    <2>1. ChunkOf(s, k).sandbox = s /\ ChunkOf(s, k).dest = k.dest /\ ChunkOf(s, k).bin = k.bin
      BY DEF ChunkOf
    <2>2. ChunkOf(t, m).sandbox = t /\ ChunkOf(t, m).dest = m.dest /\ ChunkOf(t, m).bin = m.bin
      BY DEF ChunkOf
    <2>3. k = [dest |-> k.dest, bin |-> k.bin]
      BY DEF DenialKeys
    <2>4. m = [dest |-> m.dest, bin |-> m.bin]
      BY DEF DenialKeys
    <2> QED BY <1>2, <2>1, <2>2, <2>3, <2>4
  <1> QED BY <1>1, <1>2

\* There are finitely many keys.
LEMMA KeysFinite == IsFiniteSet(DenialKeys) /\ IsFiniteSet(ChunkKeys)
  <1>1. IsFiniteSet(DenialKeys)
    <2> DEFINE S == Dests \X AdvBinaries
               f == [x \in S |-> [dest |-> x[1], bin |-> x[2]]]
    <2>1. IsFiniteSet(S)
      BY AdvAssumption, FS_Product
    <2>2. f \in [S -> DenialKeys]
      BY DEF DenialKeys
    <2>3. \A k \in DenialKeys : \E x \in S : f[x] = k
      <3> SUFFICES ASSUME NEW k \in DenialKeys PROVE \E x \in S : f[x] = k
        OBVIOUS
      <3>1. k.dest \in Dests /\ k.bin \in AdvBinaries /\ k = [dest |-> k.dest, bin |-> k.bin]
        BY DEF DenialKeys
      <3>2. <<k.dest, k.bin>> \in S /\ f[<<k.dest, k.bin>>] = k
        BY <3>1
      <3> QED BY <3>2
    <2>4. f \in Surjection(S, DenialKeys)
      BY <2>2, <2>3 DEF Surjection
    <2> QED BY <2>1, <2>4, FS_Surjection
  <1>2. IsFiniteSet(ChunkKeys)
    <2> DEFINE S == AdvSandboxes \X DenialKeys
               f == [x \in S |-> ChunkOf(x[1], x[2])]
    <2>1. IsFiniteSet(S)
      BY <1>1, AdvAssumption, FS_Product
    <2>2. f \in [S -> ChunkKeys]
      BY ChunkOfIs
    <2>3. \A k \in ChunkKeys : \E x \in S : f[x] = k
      <3> SUFFICES ASSUME NEW k \in ChunkKeys PROVE \E x \in S : f[x] = k
        OBVIOUS
      <3> DEFINE m == [dest |-> k.dest, bin |-> k.bin]
      <3>1. k.sandbox \in AdvSandboxes /\ m \in DenialKeys
        BY DEF ChunkKeys, DenialKeys
      <3>2. k = [sandbox |-> k.sandbox, dest |-> k.dest, bin |-> k.bin]
        BY DEF ChunkKeys
      <3>3. ChunkOf(k.sandbox, m) = k
        BY <3>2 DEF ChunkOf
      <3> HIDE DEF m
      <3>4. <<k.sandbox, m>> \in S /\ f[<<k.sandbox, m>>] = k
        BY <3>1, <3>3
      <3> QED BY <3>4
    <2>4. f \in Surjection(S, ChunkKeys)
      BY <2>2, <2>3 DEF Surjection
    <2> QED BY <2>1, <2>4, FS_Surjection
  <1> QED BY <1>1, <1>2

\* An order of a finite set is a list without repetitions.
LEMMA OrderIs ==
    ASSUME NEW T, IsFiniteSet(T), NEW S \in SUBSET T, NEW q \in Listings(S)
    PROVE  /\ Cardinality(S) \in Nat /\ q \in [1..Cardinality(S) -> S] /\ q \in Seq(S) /\ DOMAIN q = 1..Cardinality(S)
           /\ \A i, j \in DOMAIN q : q[i] = q[j] => i = j
           /\ S # {} => q # <<>>
  <1>1. IsFiniteSet(S)
    BY FS_Subset
  <1>2. Cardinality(S) \in Nat
    BY <1>1, FS_CardinalityType
  <1>3. q \in [1..Cardinality(S) -> S] /\ \A i, j \in DOMAIN q : q[i] = q[j] => i = j
    BY DEF Listings
  <1>4. S # {} => Cardinality(S) # 0
    BY <1>1, FS_EmptySet
  <1> DEFINE n == Cardinality(S)
  <1> HIDE DEF n
  <1>5. n \in Nat /\ q \in [1..n -> S] /\ (S # {} => n # 0)
    BY <1>2, <1>3, <1>4 DEF n
  <1>6. q \in Seq(S) /\ DOMAIN q = 1..n /\ Len(q) = n
    BY <1>5
  <1>7. S # {} => q # <<>>
    BY <1>5, <1>6
  <1> QED BY <1>3, <1>5, <1>6, <1>7 DEF n

\* The numbers that are counted.
LEMMA CountsAre ==
    ASSUME AdvInv, NEW s \in AdvSandboxes, NEW k \in DenialKeys
    PROVE  /\ agg[s][k].count \in Nat /\ denied[s][k] \in Nat
           /\ chunkRows[ChunkOf(s, k)].hits \in Nat
           /\ flush[s] \in Seq(Proposals)
           /\ \A i \in DOMAIN flush[s] : flush[s][i] \in Proposals /\ flush[s][i].hits \in Nat /\ flush[s][i].hits >= 1
           /\ Within(agg[s][k].count, chunkRows[ChunkOf(s, k)].hits, flush[s], k, denied[s][k])
  <1>1. agg[s][k] \in Summaries /\ denied[s][k] \in 0..MaxDenials
    BY DEF AdvInv, CountTypes
  <1>2. ChunkOf(s, k) \in ChunkKeys
    BY ChunkOfIs
  <1>3. chunkRows[ChunkOf(s, k)] \in ChunkRecs
    BY <1>2 DEF AdvInv, RowTypes
  <1>4. agg[s][k].count \in Nat
    BY <1>1 DEF Summaries
  <1>5. denied[s][k] \in Nat
    BY <1>1, AdvAssumption
  <1>6. chunkRows[ChunkOf(s, k)].hits \in Nat
    BY <1>3 DEF ChunkRecs
  <1>7. flush[s] \in Seq(Proposals)
    BY DEF AdvInv, CountTypes
  <1>8. \A i \in DOMAIN flush[s] : flush[s][i] \in Proposals
    BY <1>7
  <1>9. \A p \in Proposals : p.hits \in Nat /\ p.hits >= 1
    BY DEF Proposals
  <1>10. Within(agg[s][k].count, chunkRows[ChunkOf(s, k)].hits, flush[s], k, denied[s][k])
    BY DEF AdvInv, CountedOnce
  <1> QED BY <1>4, <1>5, <1>6, <1>7, <1>8, <1>9, <1>10

\* Fewer hits are within the same bound.
LEMMA FewerWithin ==
    ASSUME NEW c \in Nat, NEW r \in Nat, NEW n \in Nat, n <= r, NEW d \in Nat, NEW f, NEW k,
           \A i \in DOMAIN f : f[i].hits \in Nat, Within(c, r, f, k, d)
    PROVE  Within(c, n, f, k, d)
  <1>1. c + n <= d
    <2>1. c + r <= d
      BY DEF Within
    <2> QED BY <2>1
  <1>2. ASSUME NEW i \in DOMAIN f, f[i].key = k PROVE c + n + f[i].hits <= d
    <2> DEFINE x == f[i].hits
    <2>1. x \in Nat /\ c + r + x <= d
      BY <1>2 DEF Within
    <2> HIDE DEF x
    <2>2. c + n + x <= d
      BY <2>1
    <2> QED BY <2>2 DEF x
  <1>3. \A i, j \in DOMAIN f : f[i].key = k /\ f[j].key = k => i = j
    BY DEF Within
  <1> QED BY <1>1, <1>2, <1>3 DEF Within

\* A step that raises the hits of no row keeps the bound.
LEMMA HitsKept ==
    ASSUME AdvInv, UNCHANGED <<denied, agg, flush>>, chunkRows' \in [ChunkKeys -> ChunkRecs],
           \A k \in ChunkKeys : chunkRows'[k].hits <= chunkRows[k].hits
    PROVE  CountedOnce'
  <1> SUFFICES ASSUME NEW s \in AdvSandboxes, NEW k \in DenialKeys
               PROVE  Within(agg[s][k].count, chunkRows'[ChunkOf(s, k)].hits, flush[s], k, denied[s][k])
    BY DEF CountedOnce
  <1> DEFINE c == agg[s][k].count
             d == denied[s][k]
             f == flush[s]
             r == chunkRows[ChunkOf(s, k)].hits
             n == chunkRows'[ChunkOf(s, k)].hits
  <1>1. c \in Nat /\ d \in Nat /\ r \in Nat /\ Within(c, r, f, k, d) /\ \A i \in DOMAIN f : f[i].hits \in Nat
    BY CountsAre
  <1>2. n \in Nat /\ n <= r
    <2>1. ChunkOf(s, k) \in ChunkKeys
      BY ChunkOfIs
    <2>2. chunkRows'[ChunkOf(s, k)] \in ChunkRecs
      BY <2>1
    <2> QED BY <2>1, <2>2 DEF ChunkRecs
  <1> HIDE DEF c, d, r, n, f
  <1>3. Within(c, n, f, k, d)
    BY <1>1, <1>2, FewerWithin
  <1> QED BY <1>3 DEF c, d, r, n, f

\* Ingest: one denial more, one summary more.
LEMMA IngestCounts ==
    ASSUME AdvInv, NEW s \in AdvSandboxes, Ingest(s)
    PROVE  AdvInv'
  <1>1. PICK k \in DenialKeys, stage \in {"connect", "ssrf"}, l7 \in BOOLEAN :
           /\ denied[s][k] < MaxDenials
           /\ agg' = [agg EXCEPT ![s][k] = [count |-> agg[s][k].count + 1,
                                            stage |-> IF agg[s][k].count = 0 THEN stage ELSE agg[s][k].stage,
                                            l7 |-> agg[s][k].l7 \/ l7]]
           /\ denied' = [denied EXCEPT ![s][k] = @ + 1]
    BY DEF Ingest
  <1>2. UNCHANGED <<flush, chunkRows, lastChunk, active, globalOn, decide>>
    BY DEF Ingest
  <1> DEFINE e == [count |-> agg[s][k].count + 1, stage |-> IF agg[s][k].count = 0 THEN stage ELSE agg[s][k].stage,
                   l7 |-> agg[s][k].l7 \/ l7]
  <1>3. CountTypes
    BY DEF AdvInv
  <1>4. e \in Summaries /\ e.count = agg[s][k].count + 1
    <2>1. agg[s][k] \in Summaries
      BY <1>3 DEF CountTypes
    <2> DEFINE y == agg[s][k].stage
               z == agg[s][k].l7
    <2>2. agg[s][k].count \in Nat /\ y \in {"none", "connect", "ssrf"} /\ z \in BOOLEAN
      BY <2>1 DEF Summaries
    <2> HIDE DEF y, z
    <2>3. (IF agg[s][k].count = 0 THEN stage ELSE y) \in {"none", "connect", "ssrf"} /\ (z \/ l7) \in BOOLEAN
      BY <2>2
    <2> QED BY <2>2, <2>3 DEF Summaries, y, z
  <1>5. denied[s][k] + 1 \in 0..MaxDenials
    <2>1. denied[s][k] \in 0..MaxDenials
      BY <1>3 DEF CountTypes
    <2> QED BY <1>1, <2>1, AdvAssumption
  <1> HIDE DEF e
  <1>6. agg' = [agg EXCEPT ![s][k] = e]
    BY <1>1 DEF e
  <1>7. CountTypes'
    BY <1>1, <1>2, <1>3, <1>4, <1>5, <1>6 DEF CountTypes
  <1>8. ASSUME NEW t \in AdvSandboxes, NEW m \in DenialKeys
        PROVE  Within(agg'[t][m].count, chunkRows[ChunkOf(t, m)].hits, flush[t], m, denied'[t][m])
    <2> DEFINE c == agg[t][m].count
               d == denied[t][m]
               r == chunkRows[ChunkOf(t, m)].hits
               f == flush[t]
    <2>1. c \in Nat /\ d \in Nat /\ r \in Nat /\ Within(c, r, f, m, d) /\ \A i \in DOMAIN f : f[i].hits \in Nat
      BY CountsAre
    <2>2. CASE t = s /\ m = k
      <3>1. agg'[t][m].count = c + 1
        BY <1>3, <1>4, <1>6, <2>2 DEF CountTypes
      <3>2. denied'[t][m] = d + 1
        BY <1>1, <1>3, <2>2 DEF CountTypes
      <3> HIDE DEF c, d, r, f
      <3>3. c + r <= d /\ \A i, j \in DOMAIN f : f[i].key = m /\ f[j].key = m => i = j
        BY <2>1 DEF Within
      <3>4. ASSUME NEW i \in DOMAIN f, f[i].key = m PROVE c + 1 + r + f[i].hits <= d + 1
        <4> DEFINE x == f[i].hits
        <4>1. x \in Nat /\ c + r + x <= d
          BY <2>1, <3>4 DEF Within
        <4> HIDE DEF x
        <4>2. c + 1 + r + x <= d + 1
          BY <2>1, <4>1
        <4> QED BY <4>2 DEF x
      <3>5. c + 1 + r <= d + 1
        BY <2>1, <3>3
      <3>6. Within(c + 1, r, f, m, d + 1)
        BY <3>3, <3>4, <3>5 DEF Within
      <3> QED BY <3>1, <3>2, <3>6 DEF r, f
    <2>3. CASE ~(t = s /\ m = k)
      <3>1. agg'[t][m] = agg[t][m] /\ denied'[t][m] = denied[t][m]
        BY <1>1, <1>3, <1>6, <2>3 DEF CountTypes
      <3> QED BY <2>1, <3>1
    <2> QED BY <2>2, <2>3
  <1>9. CountedOnce'
    BY <1>2, <1>8 DEF CountedOnce
  <1> QED BY <1>2, <1>7, <1>9 DEF AdvInv, RowTypes, DeciderTypes

\* FlushProposals: the counts move from the summaries to the batch.
LEMMA FlushCounts ==
    ASSUME AdvInv, NEW s \in AdvSandboxes, FlushProposals(s)
    PROVE  AdvInv'
  <1> DEFINE keys == {k \in DenialKeys : agg[s][k].count > 0}
  <1>1. PICK batch \in GenerateProposals(agg[s]) : flush' = [flush EXCEPT ![s] = batch]
    BY DEF FlushProposals
  <1>2. agg' = [agg EXCEPT ![s] = [k \in DenialKeys |-> NoSummary]] /\ UNCHANGED <<denied, chunkRows, lastChunk, active, globalOn, decide>>
    BY DEF FlushProposals, Drain
  <1>3. PICK q \in Listings(keys) : batch = [i \in DOMAIN q |-> [key |-> q[i], hits |-> agg[s][q[i]].count]]
    BY <1>1 DEF GenerateProposals
  <1>4. CountTypes
    BY DEF AdvInv
  <1>5. keys \in SUBSET DenialKeys
    OBVIOUS
  <1> DEFINE N == Cardinality(keys)
  <1>6. N \in Nat /\ q \in [1..N -> keys] /\ DOMAIN q = 1..N /\ \A i, j \in DOMAIN q : q[i] = q[j] => i = j
    BY <1>5, KeysFinite, OrderIs
  <1> HIDE DEF N
  <1>7. \A i \in DOMAIN q : q[i] \in DenialKeys /\ agg[s][q[i]].count \in Nat \ {0}
    <2> SUFFICES ASSUME NEW i \in DOMAIN q PROVE q[i] \in DenialKeys /\ agg[s][q[i]].count \in Nat \ {0}
      OBVIOUS
    <2>1. q[i] \in DenialKeys /\ agg[s][q[i]].count > 0
      BY <1>6
    <2>2. agg[s][q[i]].count \in Nat
      BY <2>1, CountsAre
    <2> QED BY <2>1, <2>2
  <1>8. DOMAIN batch = DOMAIN q /\ \A i \in DOMAIN q : batch[i].key = q[i] /\ batch[i].hits = agg[s][q[i]].count
    BY <1>3
  <1>9. batch \in Seq(Proposals)
    <2>1. \A i \in DOMAIN q : [key |-> q[i], hits |-> agg[s][q[i]].count] \in Proposals
      BY <1>7 DEF Proposals
    <2>2. batch \in [1..N -> Proposals]
      BY <1>3, <1>6, <2>1
    <2> QED BY <1>6, <2>2
  <1>10. NoSummary \in Summaries /\ NoSummary.count = 0
    BY DEF NoSummary, Summaries
  <1> HIDE DEF keys
  <1>11. CountTypes'
    BY <1>1, <1>2, <1>4, <1>9, <1>10 DEF CountTypes
  <1>12. ASSUME NEW t \in AdvSandboxes, NEW m \in DenialKeys
         PROVE  Within(agg'[t][m].count, chunkRows[ChunkOf(t, m)].hits, flush'[t], m, denied[t][m])
    <2> DEFINE c == agg[t][m].count
               d == denied[t][m]
               r == chunkRows[ChunkOf(t, m)].hits
               f == flush[t]
    <2>1. c \in Nat /\ d \in Nat /\ r \in Nat /\ Within(c, r, f, m, d)
      BY CountsAre
    <2>2. CASE t = s
      <3>1. agg'[t][m].count = 0 /\ flush'[t] = batch
        BY <1>1, <1>2, <1>4, <1>10, <2>2 DEF CountTypes
      <3>2. c + r <= d
        BY <2>1 DEF Within
      <3>3. \A i \in DOMAIN batch : batch[i].key = m => batch[i].hits = c
        BY <1>8, <2>2
      <3>4. \A i, j \in DOMAIN batch : batch[i].key = m /\ batch[j].key = m => i = j
        BY <1>6, <1>8
      <3> HIDE DEF c, d, r, f
      <3>5. 0 + r <= d /\ 0 + r + c <= d
        BY <2>1, <3>2
      <3>6. Within(0, r, batch, m, d)
        BY <3>3, <3>4, <3>5 DEF Within
      <3> QED BY <3>1, <3>6 DEF r, d
    <2>3. CASE t # s
      <3>1. agg'[t][m] = agg[t][m] /\ flush'[t] = flush[t]
        BY <1>1, <1>2, <1>4, <2>3 DEF CountTypes
      <3> QED BY <2>1, <3>1
    <2> QED BY <2>2, <2>3
  <1>13. CountedOnce'
    BY <1>2, <1>12 DEF CountedOnce
  <1> QED BY <1>2, <1>11, <1>13 DEF AdvInv, RowTypes, DeciderTypes

\* A batch that is lost counts nowhere.
LEMMA LostCounts ==
    ASSUME AdvInv, NEW s \in AdvSandboxes, FlushFails(s)
    PROVE  AdvInv'
  <1>1. flush' = [flush EXCEPT ![s] = <<>>] /\ UNCHANGED <<denied, agg, chunkRows, lastChunk, active, globalOn, decide>>
    BY DEF FlushFails
  <1>2. CountTypes
    BY DEF AdvInv
  <1>3. <<>> \in Seq(Proposals)
    OBVIOUS
  <1>4. CountTypes'
    BY <1>1, <1>2, <1>3 DEF CountTypes
  <1>5. ASSUME NEW t \in AdvSandboxes, NEW m \in DenialKeys
        PROVE  Within(agg[t][m].count, chunkRows[ChunkOf(t, m)].hits, flush'[t], m, denied[t][m])
    <2> DEFINE c == agg[t][m].count
               d == denied[t][m]
               r == chunkRows[ChunkOf(t, m)].hits
    <2>1. Within(c, r, flush[t], m, d)
      BY CountsAre
    <2> HIDE DEF c, d, r
    <2>2. flush'[t] = flush[t] \/ flush'[t] = <<>>
      BY <1>1, <1>2 DEF CountTypes
    <2>3. Within(c, r, <<>>, m, d)
      BY <2>1 DEF Within
    <2> QED BY <2>1, <2>2, <2>3 DEF c, d, r
  <1>6. CountedOnce'
    BY <1>1, <1>5 DEF CountedOnce
  <1> QED BY <1>1, <1>4, <1>6 DEF AdvInv, RowTypes, DeciderTypes

\* SubmitPolicyAnalysis: the head of the batch moves to its row, clamped.
LEMMA SubmitCounts ==
    ASSUME AdvInv, NEW s \in AdvSandboxes, SubmitPolicyAnalysis(s)
    PROVE  AdvInv'
  <1> DEFINE B == flush[s]
             p == Head(B)
             x == ChunkOf(s, p.key)
             h == ClampHits(p.hits)
             old == chunkRows[x]
             new == IF old.st = "none"
                    THEN [id |-> lastChunk + 1, st |-> "pending", hits |-> h, rule |-> [bins |-> {x.bin}, dests |-> {x.dest}]]
                    ELSE [old EXCEPT !.hits = old.hits + h]
  <1>1. B # <<>> /\ lastChunk < MaxChunkId /\ UNCHANGED <<denied, agg, active, globalOn, decide>>
    BY DEF SubmitPolicyAnalysis
  <1>2. flush' = [flush EXCEPT ![s] = Tail(B)]
    BY DEF SubmitPolicyAnalysis
  <1>3. lastChunk' = IF chunkRows[x].st = "none" THEN lastChunk + 1 ELSE lastChunk
    BY DEF SubmitPolicyAnalysis
  <1>4. chunkRows' = [chunkRows EXCEPT ![x] = new]
    BY DEF SubmitPolicyAnalysis, PutDraftChunk
  <1>5. CountTypes /\ RowTypes
    BY DEF AdvInv
  <1>6. B \in Seq(Proposals)
    BY <1>5 DEF CountTypes
  <1>7. p = B[1] /\ p \in Proposals /\ 1 \in DOMAIN B
    <2> HIDE DEF B
    <2> QED BY <1>1, <1>6
  <1>8. Tail(B) \in Seq(Proposals) /\ \A i \in DOMAIN Tail(B) : i + 1 \in DOMAIN B /\ i \in Nat /\ i >= 1 /\ Tail(B)[i] = B[i + 1]
    <2> HIDE DEF B
    <2> QED BY <1>1, <1>6
  <1> HIDE DEF p
  <1>9. p.key \in DenialKeys /\ p.hits \in Nat /\ p.hits >= 1
    BY <1>7 DEF Proposals
  <1>10. h \in Nat /\ h <= p.hits
    BY <1>9 DEF ClampHits
  <1>11. x \in ChunkKeys /\ x.bin \in AdvBinaries /\ x.dest \in Dests
    <2>1. x \in ChunkKeys
      BY <1>9, ChunkOfIs
    <2> QED BY <2>1 DEF ChunkKeys
  <1>12. old \in ChunkRecs /\ old.hits \in Nat
    <2>1. old \in ChunkRecs
      BY <1>5, <1>11 DEF RowTypes
    <2> QED BY <2>1 DEF ChunkRecs
  <1>13. new \in ChunkRecs /\ new.hits \in Nat /\ new.hits <= old.hits + p.hits
    <2> HIDE DEF h, x, old
    <2>1. CASE old.st = "none"
      <3>1. new = [id |-> lastChunk + 1, st |-> "pending", hits |-> h, rule |-> [bins |-> {x.bin}, dests |-> {x.dest}]]
        BY <2>1
      <3>2. lastChunk + 1 \in Nat
        BY <1>5, AdvAssumption DEF RowTypes
      <3>3. [bins |-> {x.bin}, dests |-> {x.dest}] \in AdvRules
        BY <1>11 DEF AdvRules
      <3>4. new \in ChunkRecs /\ new.hits = h
        BY <1>10, <3>1, <3>2, <3>3 DEF ChunkRecs, ChunkStatuses
      <3> HIDE DEF new
      <3>5. h <= old.hits + p.hits
        BY <1>9, <1>10, <1>12
      <3> QED BY <1>10, <3>4, <3>5
    <2>2. CASE old.st # "none"
      <3> DEFINE g == old.hits + h
      <3>1. new = [old EXCEPT !.hits = g]
        BY <2>2
      <3>2. g \in Nat /\ g <= old.hits + p.hits
        BY <1>9, <1>10, <1>12
      <3> HIDE DEF g
      <3>3. [old EXCEPT !.hits = g] \in ChunkRecs /\ [old EXCEPT !.hits = g].hits = g
        BY <1>12, <3>2 DEF ChunkRecs
      <3> QED BY <3>1, <3>2, <3>3
    <2> QED BY <2>1, <2>2
  <1> HIDE DEF new, h
  <1>14. CountTypes'
    BY <1>1, <1>2, <1>5, <1>8 DEF CountTypes
  <1>15. RowTypes'
    <2>1. lastChunk' \in 0..MaxChunkId
      BY <1>1, <1>3, <1>5, AdvAssumption DEF RowTypes
    <2> HIDE DEF x
    <2>2. chunkRows' \in [ChunkKeys -> ChunkRecs]
      BY <1>4, <1>5, <1>11, <1>13 DEF RowTypes
    <2> QED BY <2>1, <2>2 DEF RowTypes
  <1>16. ASSUME NEW t \in AdvSandboxes, NEW m \in DenialKeys
         PROVE  Within(agg[t][m].count, chunkRows'[ChunkOf(t, m)].hits, flush'[t], m, denied[t][m])
    <2> DEFINE c == agg[t][m].count
               d == denied[t][m]
               r == chunkRows[ChunkOf(t, m)].hits
               f == flush[t]
    <2>1. c \in Nat /\ d \in Nat /\ r \in Nat /\ Within(c, r, f, m, d) /\ \A i \in DOMAIN f : f[i].hits \in Nat
      BY CountsAre
    <2>2. ChunkOf(t, m) \in ChunkKeys /\ (ChunkOf(t, m) = x => t = s /\ m = p.key)
      BY <1>9, ChunkOfIs
    <2>3. CASE t = s /\ m = p.key
      <3> DEFINE n == chunkRows'[ChunkOf(t, m)].hits
                 y == p.hits
      <3>1. f = B /\ flush'[t] = Tail(B) /\ f[1].key = m /\ f[1].hits = y /\ ChunkOf(t, m) = x
        BY <1>2, <1>5, <1>7, <2>3 DEF CountTypes
      <3>2. n \in Nat /\ n <= r + y
        <4>1. chunkRows'[x] = new /\ r = old.hits
          BY <1>4, <1>5, <1>11, <3>1 DEF RowTypes
        <4> QED BY <1>13, <3>1, <4>1
      <3>3. c + r + y <= d /\ \A j \in DOMAIN f : f[j].key = m => j = 1
        BY <1>7, <2>1, <3>1 DEF Within
      <3>4. \A i \in DOMAIN Tail(B) : Tail(B)[i].key # m
        <4> SUFFICES ASSUME NEW i \in DOMAIN Tail(B), Tail(B)[i].key = m PROVE FALSE
          OBVIOUS
        <4>1. i + 1 \in DOMAIN f /\ f[i + 1].key = m /\ i \in Nat /\ i >= 1
          BY <1>8, <3>1
        <4>2. i + 1 = 1
          BY <3>3, <4>1
        <4> QED BY <4>1, <4>2
      <3>5. y \in Nat
        BY <1>9
      <3> HIDE DEF c, d, r, f, n, y, B
      <3>6. c + n <= d
        BY <2>1, <3>2, <3>3, <3>5
      <3>7. Within(c, n, Tail(B), m, d)
        BY <3>4, <3>6 DEF Within
      <3> QED BY <3>1, <3>7 DEF c, d, n
    <2>4. CASE t = s /\ m # p.key
      <3>1. f = B /\ flush'[t] = Tail(B)
        BY <1>2, <1>5, <2>4 DEF CountTypes
      <3>2. chunkRows'[ChunkOf(t, m)] = chunkRows[ChunkOf(t, m)]
        BY <1>4, <1>5, <2>2, <2>4 DEF RowTypes
      <3>3. \A i \in DOMAIN Tail(B) : i + 1 \in DOMAIN f /\ i \in Nat /\ Tail(B)[i] = f[i + 1]
        BY <1>8, <3>1
      <3> HIDE DEF c, d, r, f, B
      <3>4. c + r <= d /\ \A i \in DOMAIN Tail(B) : Tail(B)[i].key = m => c + r + Tail(B)[i].hits <= d
        BY <2>1, <3>3 DEF Within
      <3>5. ASSUME NEW i \in DOMAIN Tail(B), NEW j \in DOMAIN Tail(B), Tail(B)[i].key = m, Tail(B)[j].key = m PROVE i = j
        <4>1. i + 1 \in DOMAIN f /\ j + 1 \in DOMAIN f /\ f[i + 1].key = m /\ f[j + 1].key = m /\ i \in Nat /\ j \in Nat
          BY <3>3, <3>5
        <4>2. i + 1 = j + 1
          BY <2>1, <4>1 DEF Within
        <4> QED BY <4>1, <4>2
      <3>6. Within(c, r, Tail(B), m, d)
        BY <3>4, <3>5 DEF Within
      <3> QED BY <3>1, <3>2, <3>6 DEF c, d, r
    <2>5. CASE t # s
      <3>1. flush'[t] = flush[t] /\ chunkRows'[ChunkOf(t, m)] = chunkRows[ChunkOf(t, m)]
        BY <1>2, <1>4, <1>5, <2>2, <2>5 DEF CountTypes, RowTypes
      <3> QED BY <2>1, <3>1
    <2> QED BY <2>3, <2>4, <2>5
  <1>17. CountedOnce'
    BY <1>1, <1>16 DEF CountedOnce
  <1> QED BY <1>1, <1>14, <1>15, <1>17 DEF AdvInv, DeciderTypes

\* A handler that gets another state of its call.
LEMMA DecisionStep ==
    ASSUME AdvInv, NEW h \in Deciders, NEW d \in Decisions, OpOK(d), DStep(h, d)
    PROVE  DeciderTypes'
  <1>1. decide' = [decide EXCEPT ![h] = d] /\ decide \in [Deciders -> Decisions] /\ \A g \in Deciders : OpOK(decide[g])
    BY DEF DStep, AdvInv, DeciderTypes
  <1>2. decide' \in [Deciders -> Decisions] /\ \A g \in Deciders : decide'[g] = IF g = h THEN d ELSE decide[g]
    BY <1>1
  <1>3. \A g \in Deciders : OpOK(decide'[g])
    BY <1>1, <1>2
  <1> QED BY <1>2, <1>3 DEF DeciderTypes

\* An idle handler has the shape of a call.
LEMMA IdleIs == NoChunk \in ChunkRecs /\ NoDecision \in Decisions /\ OpOK(NoDecision)
  <1>1. NoRule \in AdvRules
    BY DEF NoRule, AdvRules
  <1>2. NoChunk \in ChunkRecs
    <2> HIDE DEF NoRule
    <2> QED BY <1>1 DEF NoChunk, ChunkRecs, ChunkStatuses
  <1>3. <<>> \in Seq(Todos)
    OBVIOUS
  <1>4. NoDecision \in Decisions
    BY <1>2, <1>3 DEF NoDecision, Decisions, CallPhases
  <1>5. OpOK(NoDecision)
    BY DEF NoDecision, OpOK
  <1> QED BY <1>2, <1>4, <1>5

\* The status of a row, and its rule, are written without its hits.
LEMMA StatusWritten ==
    ASSUME AdvInv, NEW k, NEW i, NEW st \in ChunkStatuses, UpdateDraftChunkStatus(k, i, st)
    PROVE  /\ chunkRows' \in [ChunkKeys -> ChunkRecs]
           /\ \A x \in ChunkKeys : chunkRows'[x].hits = chunkRows[x].hits
  <1>1. chunkRows \in [ChunkKeys -> ChunkRecs]
    BY DEF AdvInv, RowTypes
  <1>2. CASE chunkRows' = chunkRows
    BY <1>1, <1>2
  <1>3. CASE chunkRows' = [chunkRows EXCEPT ![k].st = st]
    <2>1. \A r \in ChunkRecs : [r EXCEPT !.st = st] \in ChunkRecs /\ [r EXCEPT !.st = st].hits = r.hits
      BY DEF ChunkRecs
    <2>2. CASE k \in ChunkKeys
      <3> DEFINE n == [chunkRows[k] EXCEPT !.st = st]
      <3>1. n \in ChunkRecs /\ n.hits = chunkRows[k].hits
        BY <1>1, <2>1, <2>2
      <3>2. chunkRows' = [chunkRows EXCEPT ![k] = n]
        BY <1>3
      <3> HIDE DEF n
      <3> QED BY <1>1, <2>2, <3>1, <3>2
    <2>3. CASE k \notin ChunkKeys
      BY <1>1, <1>3, <2>3
    <2> QED BY <2>2, <2>3
  <1> QED BY <1>2, <1>3 DEF UpdateDraftChunkStatus

\* An edit writes the rule of a row and leaves its hits.
LEMMA RuleWritten ==
    ASSUME AdvInv, NEW k, NEW i, NEW rule \in AdvRules, UpdateDraftChunkRule(k, i, rule)
    PROVE  /\ chunkRows' \in [ChunkKeys -> ChunkRecs]
           /\ \A x \in ChunkKeys : chunkRows'[x].hits = chunkRows[x].hits
  <1>1. chunkRows \in [ChunkKeys -> ChunkRecs]
    BY DEF AdvInv, RowTypes
  <1>2. CASE chunkRows' = chunkRows
    BY <1>1, <1>2
  <1>3. CASE chunkRows' = [chunkRows EXCEPT ![k].rule = rule]
    <2>1. \A r \in ChunkRecs : [r EXCEPT !.rule = rule] \in ChunkRecs /\ [r EXCEPT !.rule = rule].hits = r.hits
      BY DEF ChunkRecs
    <2>2. CASE k \in ChunkKeys
      <3> DEFINE n == [chunkRows[k] EXCEPT !.rule = rule]
      <3>1. n \in ChunkRecs /\ n.hits = chunkRows[k].hits
        BY <1>1, <2>1, <2>2
      <3>2. chunkRows' = [chunkRows EXCEPT ![k] = n]
        BY <1>3
      <3> HIDE DEF n
      <3> QED BY <1>1, <2>2, <3>1, <3>2
    <2>3. CASE k \notin ChunkKeys
      BY <1>1, <1>3, <2>3
    <2> QED BY <2>2, <2>3
  <1> QED BY <1>2, <1>3 DEF UpdateDraftChunkRule

\* A call of a handler keeps the counts if it leaves the hits alone.
LEMMA CallKeeps ==
    ASSUME AdvInv, UNCHANGED <<denied, agg, flush, lastChunk>>, DeciderTypes',
           chunkRows' \in [ChunkKeys -> ChunkRecs], \A x \in ChunkKeys : chunkRows'[x].hits = chunkRows[x].hits
    PROVE  AdvInv'
  <1>1. \A x \in ChunkKeys : chunkRows'[x].hits <= chunkRows[x].hits
    <2>1. \A x \in ChunkKeys : chunkRows[x].hits \in Nat
      BY DEF AdvInv, RowTypes, ChunkRecs
    <2> QED BY <2>1
  <1>2. CountedOnce'
    BY <1>1, HitsKept
  <1>3. CountTypes' /\ RowTypes'
    BY DEF AdvInv, CountTypes, RowTypes
  <1> QED BY <1>2, <1>3 DEF AdvInv

\* What a handler holds, field by field.
LEMMA DecisionIs ==
    ASSUME AdvInv, NEW h \in Deciders
    PROVE  /\ decide[h] \in Decisions /\ OpOK(decide[h])
           /\ \A p \in CallPhases : [decide[h] EXCEPT !.pc = p] \in Decisions
           /\ \A p \in CallPhases : /\ [decide[h] EXCEPT !.pc = p].pc = p /\ [decide[h] EXCEPT !.pc = p].op = decide[h].op
                                 /\ [decide[h] EXCEPT !.pc = p].rest = decide[h].rest
  <1>1. decide[h] \in Decisions /\ OpOK(decide[h])
    BY DEF AdvInv, DeciderTypes
  <1> QED BY <1>1 DEF Decisions

\* Every step of a decision handler keeps the shape of the calls and the hits of every row.
LEMMA CallSteps ==
    ASSUME AdvInv, NEW h \in Deciders,
           \/ ApproveMerge(h) \/ RejectCheck(h) \/ RevokeRemove(h) \/ Mark(h) \/ EditWrite(h) \/ ApproveNext(h)
           \/ \E s \in AdvSandboxes : Begin(h, s) \/ ApproveAll(h, s)
           \/ \E k \in ChunkKeys : Fetch(h, k)
    PROVE  AdvInv'
  <1> DEFINE d == decide[h]
             At(p) == [decide[h] EXCEPT !.pc = p]
  <1>1. /\ d \in Decisions /\ OpOK(d)
        /\ \A p \in CallPhases : At(p) \in Decisions /\ At(p).pc = p /\ At(p).op = d.op /\ At(p).rest = d.rest
    BY DecisionIs
  <1>2. chunkRows \in [ChunkKeys -> ChunkRecs]
    BY DEF AdvInv, RowTypes
  <1>3. ASSUME UNCHANGED <<denied, agg, flush, chunkRows, lastChunk>>, NEW e \in Decisions, OpOK(e), DStep(h, e)
        PROVE  AdvInv'
    <2>1. DeciderTypes'
      BY <1>3, DecisionStep
    <2> QED BY <1>2, <1>3, <2>1, CallKeeps
  <1>4. {"merge", "remove", "mark", "next", "global", "write"} \subseteq CallPhases
    BY DEF CallPhases
  <1> HIDE DEF At
  <1>5. CASE ApproveMerge(h)
    <2>1. UNCHANGED <<denied, agg, flush, chunkRows, lastChunk>> /\ d.pc = "merge" /\ (DStep(h, At("mark")) \/ DStep(h, NoDecision))
      BY <1>5 DEF ApproveMerge, At
    <2>2. OpOK(At("mark"))
      BY <1>1, <1>4, <2>1 DEF OpOK
    <2> QED BY <1>1, <1>3, <1>4, <2>1, <2>2, IdleIs
  <1>6. CASE RejectCheck(h)
    <2>1. UNCHANGED <<denied, agg, flush, chunkRows, lastChunk>> /\ d.pc = "global" /\ (DStep(h, At("remove")) \/ DStep(h, NoDecision))
      BY <1>6 DEF RejectCheck, At
    <2>2. OpOK(At("remove"))
      BY <1>1, <1>4, <2>1 DEF OpOK
    <2> QED BY <1>1, <1>3, <1>4, <2>1, <2>2, IdleIs
  <1>7. CASE RevokeRemove(h)
    <2>1. UNCHANGED <<denied, agg, flush, chunkRows, lastChunk>> /\ d.pc = "remove" /\ (DStep(h, At("mark")) \/ DStep(h, NoDecision))
      BY <1>7 DEF RevokeRemove, At
    <2>2. OpOK(At("mark"))
      BY <1>1, <1>4, <2>1 DEF OpOK
    <2> QED BY <1>1, <1>3, <1>4, <2>1, <2>2, IdleIs
  <1>8. CASE Mark(h)
    <2> DEFINE st == CASE d.op \in {"approve", "all"} -> "approved" [] d.op = "reject" -> "rejected" [] d.op = "undo" -> "pending"
    <2>1. /\ UNCHANGED <<denied, agg, flush, lastChunk>> /\ d.pc = "mark" /\ UpdateDraftChunkStatus(d.key, d.row.id, st)
          /\ DStep(h, IF d.rest = <<>> THEN NoDecision ELSE At("next"))
      BY <1>8 DEF Mark, At
    <2>2. d.op \in {"approve", "all", "reject", "undo"}
      BY <1>1, <2>1 DEF OpOK
    <2>3. st \in ChunkStatuses
      BY <2>2 DEF ChunkStatuses
    <2> HIDE DEF st
    <2>4. chunkRows' \in [ChunkKeys -> ChunkRecs] /\ \A x \in ChunkKeys : chunkRows'[x].hits = chunkRows[x].hits
      BY <2>1, <2>3, StatusWritten
    <2>5. CASE d.rest = <<>>
      <3>1. DStep(h, NoDecision)
        BY <2>1, <2>5
      <3>2. DeciderTypes'
        BY <3>1, IdleIs, DecisionStep
      <3> QED BY <2>1, <2>4, <3>2, CallKeeps
    <2>6. CASE d.rest # <<>>
      <3>1. DStep(h, At("next"))
        BY <2>1, <2>6
      <3>2. OpOK(At("next"))
        BY <1>1, <1>4, <2>6 DEF OpOK
      <3>3. DeciderTypes'
        BY <1>1, <1>4, <3>1, <3>2, DecisionStep
      <3> QED BY <2>1, <2>4, <3>3, CallKeeps
    <2> QED BY <2>5, <2>6
  <1>9. CASE EditWrite(h)
    <2>1. UNCHANGED <<denied, agg, flush, lastChunk>> /\ d.pc = "write" /\ DStep(h, NoDecision)
      BY <1>9 DEF EditWrite
    <2>2. PICK b \in AdvBinaries : UpdateDraftChunkRule(d.key, d.row.id, [bins |-> {b}, dests |-> {d.key.dest}])
      BY <1>9 DEF EditWrite
    <2>3. d.key \in ChunkKeys
      BY <1>1, <2>1 DEF OpOK
    <2>4. [bins |-> {b}, dests |-> {d.key.dest}] \in AdvRules
      BY <2>3 DEF AdvRules, ChunkKeys
    <2>5. chunkRows' \in [ChunkKeys -> ChunkRecs] /\ \A x \in ChunkKeys : chunkRows'[x].hits = chunkRows[x].hits
      BY <2>2, <2>4, RuleWritten
    <2>6. DeciderTypes'
      BY <2>1, IdleIs, DecisionStep
    <2> QED BY <2>1, <2>5, <2>6, CallKeeps
  <1>10. CASE ApproveNext(h)
    <2> DEFINE R == d.rest
               u == Head(R)
               e == [d EXCEPT !.pc = "merge", !.key = u.key, !.row = u.row, !.rest = Tail(R)]
    <2>1. UNCHANGED <<denied, agg, flush, chunkRows, lastChunk>> /\ d.pc = "next" /\ DStep(h, e)
      BY <1>10 DEF ApproveNext
    <2>2. R # <<>> /\ d.op = "all" /\ R \in Seq(Todos)
      BY <1>1, <2>1 DEF OpOK, Decisions
    <2> DEFINE T == Tail(R)
    <2>3. u \in Todos /\ T \in Seq(Todos)
      <3> HIDE DEF R
      <3> QED BY <2>2
    <2> HIDE DEF R, u, T
    <2>4. u.key \in ChunkKeys /\ u.row \in ChunkRecs
      BY <2>3 DEF Todos
    <2>5. e = [d EXCEPT !.pc = "merge", !.key = u.key, !.row = u.row, !.rest = T]
      BY DEF T, R
    <2>6. e \in Decisions /\ e.pc = "merge" /\ e.op = "all"
      BY <1>1, <1>4, <2>2, <2>3, <2>4, <2>5 DEF Decisions
    <2> HIDE DEF e
    <2>7. OpOK(e)
      BY <2>6 DEF OpOK
    <2> QED BY <1>3, <2>1, <2>6, <2>7
  <1>11. ASSUME NEW s \in AdvSandboxes, Begin(h, s) PROVE AdvInv'
    <2>1. PICK op \in {"approve", "reject", "undo", "edit"} : DStep(h, [NoDecision EXCEPT !.pc = "fetch", !.op = op, !.sandbox = s])
      BY <1>11 DEF Begin
    <2> DEFINE e == [NoDecision EXCEPT !.pc = "fetch", !.op = op, !.sandbox = s]
    <2>2. UNCHANGED <<denied, agg, flush, chunkRows, lastChunk>>
      BY <1>11 DEF Begin
    <2>3. NoDecision \in Decisions /\ NoDecision.rest = <<>>
      BY IdleIs DEF NoDecision
    <2>4. e \in Decisions /\ e.pc = "fetch" /\ e.op = op /\ e.rest = <<>>
      BY <2>3 DEF Decisions, CallPhases
    <2> HIDE DEF e
    <2>5. OpOK(e)
      BY <2>4 DEF OpOK
    <2> QED BY <1>3, <2>1, <2>2, <2>4, <2>5 DEF e
  <1>12. ASSUME NEW s \in AdvSandboxes, ApproveAll(h, s) PROVE AdvInv'
    <2>1. PICK flagged \in BOOLEAN :
             LET todo == {k \in ListDraftChunks(s, "pending") : flagged \/ ~GenerateSecurityNotes(k.dest)}
             IN  /\ todo # {}
                 /\ \E q \in Listings(todo) :
                       DStep(h, [NoDecision EXCEPT !.pc = "next", !.op = "all", !.sandbox = s,
                                                   !.rest = [i \in DOMAIN q |-> [key |-> q[i], row |-> chunkRows[q[i]]]]])
      BY <1>12 DEF ApproveAll
    <2> DEFINE todo == {k \in ListDraftChunks(s, "pending") : flagged \/ ~GenerateSecurityNotes(k.dest)}
    <2>2. PICK q \in Listings(todo) : DStep(h, [NoDecision EXCEPT !.pc = "next", !.op = "all", !.sandbox = s,
                                                !.rest = [i \in DOMAIN q |-> [key |-> q[i], row |-> chunkRows[q[i]]]]])
      BY <2>1
    <2>3. todo # {} /\ todo \in SUBSET ChunkKeys
      BY <2>1 DEF ListDraftChunks
    <2> HIDE DEF todo
    <2> DEFINE N == Cardinality(todo)
    <2>4. N \in Nat /\ q \in [1..N -> todo] /\ DOMAIN q = 1..N /\ q # <<>> /\ q \in Seq(todo)
      BY <2>3, KeysFinite, OrderIs
    <2> HIDE DEF N
    <2> DEFINE rest == [i \in DOMAIN q |-> [key |-> q[i], row |-> chunkRows[q[i]]]]
    <2>5. \A i \in DOMAIN q : [key |-> q[i], row |-> chunkRows[q[i]]] \in Todos
      <3>1. \A i \in DOMAIN q : q[i] \in ChunkKeys
        BY <2>3, <2>4
      <3> QED BY <1>2, <3>1 DEF Todos
    <2>6. rest \in [1..N -> Todos]
      BY <2>4, <2>5
    <2>7. rest \in Seq(Todos)
      BY <2>4, <2>6
    <2>8. N # 0
      BY <2>4
    <2>9. rest # <<>>
      <3>1. DOMAIN rest = 1..N
        BY <2>4
      <3> HIDE DEF rest
      <3> QED BY <2>4, <2>8, <3>1
    <2> DEFINE e == [NoDecision EXCEPT !.pc = "next", !.op = "all", !.sandbox = s, !.rest = rest]
    <2>10. DStep(h, e)
      BY <2>2
    <2> HIDE DEF rest
    <2>11. NoDecision \in Decisions
      BY IdleIs
    <2>12. e \in Decisions /\ e.pc = "next" /\ e.op = "all" /\ e.rest = rest
      BY <2>7, <2>11 DEF Decisions, CallPhases
    <2> HIDE DEF e
    <2>13. OpOK(e)
      BY <2>9, <2>12 DEF OpOK
    <2>14. UNCHANGED <<denied, agg, flush, chunkRows, lastChunk>>
      BY <1>12 DEF ApproveAll
    <2> QED BY <1>3, <2>10, <2>12, <2>13, <2>14
  <1>13. ASSUME NEW k \in ChunkKeys, Fetch(h, k) PROVE AdvInv'
    <2> DEFINE row == chunkRows[k]
               next == CASE d.op = "approve" -> "merge" [] d.op = "undo" -> "remove" [] d.op = "edit" -> "write"
                         [] d.op = "reject" -> IF row.st = "approved" THEN "global" ELSE "mark"
               e == [d EXCEPT !.pc = next, !.key = k, !.row = row]
    <2>1. UNCHANGED <<denied, agg, flush, chunkRows, lastChunk>> /\ d.pc = "fetch" /\ (DStep(h, e) \/ DStep(h, NoDecision))
      BY <1>13 DEF Fetch, GetDraftChunk
    <2>2. d.op \in {"approve", "reject", "undo", "edit"} /\ d.rest = <<>>
      BY <1>1, <2>1 DEF OpOK
    <2>3. /\ next \in {"merge", "remove", "write", "global", "mark"}
          /\ next = "merge" => d.op = "approve"
          /\ next = "remove" => d.op = "undo"
          /\ next \in {"global", "mark"} => d.op = "reject"
      BY <2>2
    <2> HIDE DEF next
    <2>4. row \in ChunkRecs
      BY <1>2
    <2> HIDE DEF row
    <2>5. e \in Decisions /\ e.pc = next /\ e.op = d.op /\ e.rest = <<>> /\ e.key = k
      BY <1>1, <2>2, <2>3, <2>4 DEF Decisions, CallPhases
    <2> HIDE DEF e
    <2>6. OpOK(e)
      BY <2>3, <2>5 DEF OpOK
    <2> QED BY <1>3, <2>1, <2>5, <2>6, IdleIs
  <1> QED BY <1>5, <1>6, <1>7, <1>8, <1>9, <1>10, <1>11, <1>12, <1>13

\* ClearDraftChunks: a row that is deleted counts nothing any more.
LEMMA ClearKeeps ==
    ASSUME AdvInv, NEW s \in AdvSandboxes, ClearDraftChunks(s)
    PROVE  AdvInv'
  <1>1. /\ chunkRows' = [k \in ChunkKeys |-> IF k.sandbox = s /\ chunkRows[k].st = "pending" THEN NoChunk ELSE chunkRows[k]]
        /\ UNCHANGED <<denied, agg, flush, lastChunk, active, globalOn, decide>>
    BY DEF ClearDraftChunks, DeleteDraftChunks
  <1>2. chunkRows \in [ChunkKeys -> ChunkRecs] /\ \A k \in ChunkKeys : chunkRows[k].hits \in Nat
    BY DEF AdvInv, RowTypes, ChunkRecs
  <1>3. NoChunk \in ChunkRecs /\ NoChunk.hits = 0
    BY IdleIs DEF NoChunk
  <1>4. chunkRows' \in [ChunkKeys -> ChunkRecs] /\ \A k \in ChunkKeys : chunkRows'[k] = NoChunk \/ chunkRows'[k] = chunkRows[k]
    BY <1>1, <1>2, <1>3
  <1>5. \A k \in ChunkKeys : chunkRows'[k].hits <= chunkRows[k].hits
    BY <1>2, <1>3, <1>4
  <1>6. CountedOnce'
    BY <1>1, <1>4, <1>5, HitsKept
  <1> QED BY <1>1, <1>4, <1>6 DEF AdvInv, CountTypes, RowTypes, DeciderTypes

\* However denials are aggregated, flushed, lost, submitted, cleared and decided on, for any number
\* of sandboxes, keys and concurrent handlers, no denial is counted twice or for another key.
THEOREM DenialsCountOnce == AdvSpec => []AdvisorSound
  <1>1. AdvInit => AdvInv
    <2> SUFFICES ASSUME AdvInit PROVE AdvInv
      OBVIOUS
    <2>1. NoSummary \in Summaries /\ NoSummary.count = 0 /\ NoChunk.hits = 0
      BY DEF NoSummary, Summaries, NoChunk
    <2>2. 0 \in 0..MaxDenials /\ 0 \in 0..MaxChunkId /\ <<>> \in Seq(Proposals)
      BY AdvAssumption
    <2>3. CountTypes
      <3> HIDE DEF NoSummary
      <3> QED BY <2>1, <2>2 DEF AdvInit, CountTypes
    <2>4. RowTypes
      BY <2>2, IdleIs DEF AdvInit, RowTypes
    <2>5. DeciderTypes
      BY IdleIs DEF AdvInit, DeciderTypes
    <2>6. CountedOnce
      <3> SUFFICES ASSUME NEW s \in AdvSandboxes, NEW k \in DenialKeys
                   PROVE  Within(agg[s][k].count, chunkRows[ChunkOf(s, k)].hits, flush[s], k, denied[s][k])
        BY DEF CountedOnce
      <3>1. agg[s][k].count = 0 /\ flush[s] = <<>> /\ denied[s][k] = 0
        BY <2>1 DEF AdvInit
      <3>2. chunkRows[ChunkOf(s, k)].hits = 0
        BY <2>1, ChunkOfIs DEF AdvInit
      <3>3. Within(0, 0, <<>>, k, 0)
        BY DEF Within
      <3> QED BY <3>1, <3>2, <3>3
    <2> QED BY <2>3, <2>4, <2>5, <2>6 DEF AdvInv
  <1>2. AdvInv /\ [AdvNext]_advVars => AdvInv'
    <2> SUFFICES ASSUME AdvInv, [AdvNext]_advVars PROVE AdvInv'
      OBVIOUS
    <2>1. ASSUME UNCHANGED <<denied, agg, flush, chunkRows, lastChunk, decide>> PROVE AdvInv'
      BY <2>1 DEF AdvInv, CountTypes, RowTypes, DeciderTypes, CountedOnce
    <2>2. CASE UNCHANGED advVars
      BY <2>1, <2>2 DEF advVars
    <2>3. CASE ToggleGlobal
      BY <2>1, <2>3 DEF ToggleGlobal
    <2>4. ASSUME NEW s \in AdvSandboxes, UserPolicy(s) PROVE AdvInv'
      BY <2>1, <2>4 DEF UserPolicy
    <2>5. ASSUME NEW s \in AdvSandboxes,
                 Ingest(s) \/ FlushProposals(s) \/ FlushFails(s) \/ SubmitPolicyAnalysis(s) \/ ClearDraftChunks(s)
          PROVE  AdvInv'
      BY <2>5, IngestCounts, FlushCounts, LostCounts, SubmitCounts, ClearKeeps
    <2>6. ASSUME NEW h \in Deciders,
                 \/ ApproveMerge(h) \/ RejectCheck(h) \/ RevokeRemove(h) \/ Mark(h) \/ EditWrite(h) \/ ApproveNext(h)
                 \/ \E s \in AdvSandboxes : Begin(h, s) \/ ApproveAll(h, s)
                 \/ \E k \in ChunkKeys : Fetch(h, k)
          PROVE  AdvInv'
      BY <2>6, CallSteps
    <2> QED BY <2>2, <2>3, <2>4, <2>5, <2>6 DEF AdvNext
  <1>3. AdvInv => AdvisorSound
    <2> SUFFICES ASSUME AdvInv PROVE AdvisorSound
      OBVIOUS
    <2>1. \A s \in AdvSandboxes, k \in DenialKeys : denied[s][k] \in 0..MaxDenials
      BY DEF AdvInv, CountTypes
    <2>2. \A s \in AdvSandboxes : flush[s] \in Seq([key : DenialKeys, hits : Nat])
      <3>1. Proposals \subseteq [key : DenialKeys, hits : Nat]
        BY DEF Proposals
      <3>2. ASSUME NEW s \in AdvSandboxes PROVE flush[s] \in Seq([key : DenialKeys, hits : Nat])
        <4> DEFINE T == [key : DenialKeys, hits : Nat]
        <4>1. flush[s] \in Seq(Proposals) /\ Proposals \subseteq T
          BY <3>1 DEF AdvInv, CountTypes
        <4> HIDE DEF T
        <4>2. flush[s] \in Seq(T)
          BY <4>1
        <4> QED BY <4>2 DEF T
      <3> QED BY <3>2
    <2>3. \A k \in ChunkKeys : chunkRows[k].st \in ChunkStatuses
      BY DEF AdvInv, RowTypes, ChunkRecs
    <2>4. \A h \in Deciders : decide[h].pc \in CallPhases
      BY DEF AdvInv, DeciderTypes, Decisions
    <2>5. lastChunk \in 0..MaxChunkId /\ CountedOnce
      BY DEF AdvInv, RowTypes
    <2> QED BY <2>1, <2>2, <2>3, <2>4, <2>5 DEF AdvisorSound, AdvTypeOK, ChunkStatuses, CallPhases
  <1> QED BY <1>1, <1>2, <1>3, PTL DEF AdvSpec
=============================================================================
