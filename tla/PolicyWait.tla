----------------------------- MODULE PolicyWait -----------------------------
(***************************************************************************)
(* `policy set`, with and without --wait, against the gateway's revisions  *)
(* of one sandbox and the sandbox that polls them.  A command reads the    *)
(* latest version, submits its policy, compares the two versions to notice *)
(* that nothing changed, and with --wait asks for the status of its        *)
(* revision until that is settled or the deadline has passed.  The sandbox *)
(* loads the latest revision or keeps what it has, and reports; a report   *)
(* that is lost is not repeated, so a command may wait in vain.            *)
(***************************************************************************)
EXTENDS Integers, Sequences

CONSTANTS
    Setters,      \* commands that may run
    SetPolicies,  \* policies they submit
    BadPolicies,  \* the ones of these a sandbox cannot load
    MaxRevisions  \* how many revisions there may be

ASSUME WaitAssumption == MaxRevisions \in Nat \ {0}

VARIABLES
    revisions,  \* the sandbox's revisions: policy and status
    applied,    \* the version the sandbox saw last
    report,     \* the report it is about to send
    loadedOnce, \* versions the sandbox has enforced
    setters     \* what each command is doing

waitVars == <<revisions, applied, report, loadedOnce, setters>>

NoReport == [version |-> 0, ok |-> FALSE]
Resting == [at |-> "idle", policy |-> "none", wait |-> FALSE, current |-> 0,
            version |-> 0, said |-> "nothing"]

LatestVersion == Len(revisions)

\* A sandbox that has booted: its first GetSandboxConfig has stored the
\* policy of its spec as revision 1 and marked it loaded.
WaitInit ==
    /\ \E p \in SetPolicies \ BadPolicies :
          revisions = <<[policy |-> p, status |-> "loaded"]>>
    /\ applied = 1 /\ report = NoReport /\ loadedOnce = {1}
    /\ setters = [s \in Setters |-> Resting]

----------------------------------------------------------------------------
\* The gateway.

SupersedeBefore(revs, v) ==
    [i \in DOMAIN revs |->
        IF i < v /\ revs[i].status \in {"pending", "loaded"}
        THEN [revs[i] EXCEPT !.status = "superseded"] ELSE revs[i]]

\* A policy with the hash of the latest revision adds none.
RevisionsWith(policy) ==
    IF revisions[LatestVersion].policy = policy THEN revisions
    ELSE SupersedeBefore(Append(revisions, [policy |-> policy, status |-> "pending"]),
                         LatestVersion + 1)

----------------------------------------------------------------------------
\* The command.

Say(s, word) == setters' = [setters EXCEPT ![s].at = "ended", ![s].said = word]

\* The latest version, 0 when it cannot be had.
ReadCurrent(s) ==
    /\ setters[s].at = "idle"
    /\ \E p \in SetPolicies, w \in BOOLEAN, v \in {LatestVersion, 0} :
          setters' = [setters EXCEPT ![s] =
             [Resting EXCEPT !.at = "update", !.policy = p, !.wait = w, !.current = v]]
    /\ UNCHANGED <<revisions, applied, report, loadedOnce>>

\* The update, and what the command makes of the version it returns.
SubmitUpdate(s) ==
    /\ setters[s].at = "update"
    /\ LET c == setters[s]
           revs == RevisionsWith(c.policy)
           v == Len(revs)
       IN \/ /\ v <= MaxRevisions
             /\ revisions' = revs
             /\ setters' = [setters EXCEPT ![s].version = v,
                  ![s].at = IF v = c.current \/ ~c.wait THEN "ended" ELSE "poll",
                  ![s].said = CASE v = c.current -> "unchanged"
                                [] v # c.current /\ ~c.wait -> "submitted"
                                [] OTHER -> "nothing"]
          \/ Say(s, "error") /\ UNCHANGED revisions
    /\ UNCHANGED <<applied, report, loadedOnce>>

\* The latest revision instead of the command's own.
MUT_AskedVersion(s) == LatestVersion

\* The revision a poll asks for.
AskedVersion(s) == setters[s].version

PollStatus(s) ==
    /\ setters[s].at = "poll"
    /\ \/ /\ revisions[AskedVersion(s)].status # "pending"
          /\ Say(s, revisions[AskedVersion(s)].status)
       \/ Say(s, "timeout")
       \/ Say(s, "error")
    /\ UNCHANGED <<revisions, applied, report, loadedOnce>>

StartAgain(s) ==
    /\ setters[s].at = "ended"
    /\ setters' = [setters EXCEPT ![s] = Resting]
    /\ UNCHANGED <<revisions, applied, report, loadedOnce>>

----------------------------------------------------------------------------
\* The sandbox.

\* A poll that finds another policy than the last one seen loads it, or keeps
\* the engine, and reports; a later revision with the same policy changes
\* nothing and is not reported.
PollAndLoad ==
    /\ report = NoReport /\ applied < LatestVersion
    /\ LET v == LatestVersion
           ok == revisions[v].policy \notin BadPolicies
           changed == revisions[v].policy # revisions[applied].policy
       IN /\ applied' = v
          /\ loadedOnce' = IF ok THEN loadedOnce \cup {v} ELSE loadedOnce
          /\ report' = IF changed THEN [version |-> v, ok |-> ok] ELSE NoReport
    /\ UNCHANGED <<revisions, setters>>

SendReport ==
    /\ report # NoReport
    /\ report' = NoReport
    /\ \/ LET v == report.version
              marked == [revisions EXCEPT ![v].status = IF report.ok THEN "loaded" ELSE "failed"]
          IN revisions' = IF report.ok THEN SupersedeBefore(marked, v) ELSE marked
       \/ UNCHANGED revisions
    /\ UNCHANGED <<applied, loadedOnce, setters>>

----------------------------------------------------------------------------

WaitNext ==
    \/ PollAndLoad \/ SendReport
    \/ \E s \in Setters : ReadCurrent(s) \/ SubmitUpdate(s) \/ PollStatus(s) \/ StartAgain(s)

WaitSpec == WaitInit /\ [][WaitNext]_waitVars

WaitTypeOK ==
    /\ \A i \in DOMAIN revisions :
          revisions[i] \in [policy : SetPolicies,
                            status : {"pending", "loaded", "failed", "superseded"}]
    /\ Len(revisions) \in 1..MaxRevisions
    /\ applied \in 1..Len(revisions) /\ loadedOnce \subseteq 1..Len(revisions)
    /\ report \in [version : 0..Len(revisions), ok : BOOLEAN]
    /\ \A s \in Setters : setters[s].at \in {"idle", "update", "poll", "ended"}

----------------------------------------------------------------------------

\* What a command says of its policy is so: "loaded" means that the sandbox
\* has enforced the revision with this command's policy, "failed" that it
\* could not, and "superseded" that there is a newer revision, however the
\* commands, the polls and the reports interleave.
WordIsTrue ==
    \A s \in Setters :
        LET c == setters[s]
        IN /\ c.said = "loaded" =>
                 c.version \in loadedOnce /\ revisions[c.version].policy = c.policy
           /\ c.said = "failed" => c.policy \in BadPolicies
           /\ c.said = "superseded" => c.version < LatestVersion

ExitsZero(c) == c.at = "ended" /\ c.said \in {"unchanged", "submitted", "loaded", "superseded"}

\* "Exit codes with --wait: 0 = loaded, 1 = failed, 124 = timeout": a command
\* run with --wait that exits with 0 leaves its policy loaded by the sandbox.
ExitZeroMeansLoaded ==
    \A s \in Setters :
        setters[s].wait /\ ExitsZero(setters[s]) => setters[s].version \in loadedOnce

\* However commands, polls and lost reports interleave, the revisions are well
\* formed and what `policy set` says of its revision is so.
WaitSound == WaitTypeOK /\ WordIsTrue
=============================================================================
