---------------------------- MODULE RevisionLog ----------------------------
(***************************************************************************)
(* What the policy history of one sandbox promises to its callers: a log  *)
(* of policies that only grows, in which every entry is the result of one *)
(* whole operation applied to the entry right before it.  The gateway     *)
(* implements it with a read, a computation and a conditional insert      *)
(* (PolicyHistory.tla), never with a lock or a transaction.               *)
(***************************************************************************)
EXTENDS Sequences, Integers

CONSTANTS
    Seeds,          \* the policies a sandbox specification can hold
    Submitted,      \* the whole policies clients submit
    Grants,         \* what an approved proposal adds to a policy
    Default,        \* the empty policy a merge starts from
    Merges(_, _),   \* Merges(p, g): what policy p with grant g added may be
    Without(_, _)   \* Without(p, g): policy p with grant g taken out

VARIABLE log

Last == IF log = <<>> THEN Default ELSE log[Len(log)]

Init == log = <<>>

\* The first policy of a sandbox, taken from its specification.
Seed(p) ==
    /\ log = <<>>
    /\ log' = <<p>>

\* A whole policy replaces a different one.
Replace(p) ==
    /\ log # <<>> => Last # p
    /\ log' = Append(log, p)

Merge(g) == \E p \in Merges(Last, g) : log' = Append(log, p)

Remove(g) ==
    /\ log # <<>>
    /\ log' = Append(log, Without(Last, g))

Next ==
    \/ \E p \in Seeds : Seed(p)
    \/ \E p \in Submitted : Replace(p)
    \/ \E g \in Grants : Merge(g) \/ Remove(g)

Spec == Init /\ [][Next]_log
=============================================================================
