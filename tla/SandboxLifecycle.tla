-------------------------- MODULE SandboxLifecycle --------------------------
(***************************************************************************)
(* The life of sandboxes on the gateway (openshell-server): the            *)
(* CreateSandbox and DeleteSandbox handlers (grpc/sandbox.rs), the watcher *)
(* and the store reconciler (sandbox/mod.rs), the object store with its    *)
(* UNIQUE name constraint, and Kubernetes, which owns the Sandbox custom   *)
(* resources (CRs) and is external.                                        *)
(*                                                                         *)
(* A handler's step ends at a store or Kubernetes call.  The watcher is    *)
(* one task, but its read of a record and the write that follows are two   *)
(* steps, since handlers run in between.  The index is updated by a plain  *)
(* call and shares the step of the store call next to it.                  *)
(***************************************************************************)
EXTENDS Integers, Sequences

CONSTANTS
    Names,     \* sandbox names
    Ids,       \* sandbox ids; CreateSandbox draws a fresh one
    Deleters,  \* concurrent DeleteSandbox calls
    None,      \* no record, no CR, no index entry
    Reported,  \* Ready conditions the sandbox controller reports
    EarlyDeletes, \* whether clients delete a sandbox that is being created
    MaxQueue,  \* bound on undelivered watch events
    Faults     \* which of the faults below may happen

\* "error": a Kubernetes call fails; "timeout": it fails after 30 s although
\* it took effect; "cancel": a client goes away and its handler is dropped;
\* "relist": the watch is interrupted; "external": someone else deletes a CR.
FaultKinds == {"error", "timeout", "cancel", "relist", "external"}


Phases == {"Unknown", "Provisioning", "Ready", "Error", "Deleting"}
Conditions == {"none", "transient", "ready", "terminal"}

ASSUME BoundsAssumption ==
    /\ MaxQueue \in Nat \ {0}
    /\ Faults \subseteq FaultKinds
    /\ Reported \subseteq Conditions
    /\ EarlyDeletes \in BOOLEAN

\* aged: created more than ORPHAN_GRACE_PERIOD ago
Records == [name : Names, phase : Phases, spec : BOOLEAN, aged : BOOLEAN]
CRs == [id : Ids, cond : Conditions, deleting : BOOLEAN]
Objects == [name : Names, cr : CRs]
Events == [kind : {"Applied", "Deleted"}, obj : Objects]

ASSUME NoneAssumption ==
    None \notin Names \cup Ids \cup Records \cup CRs \cup Objects

VARIABLES
    store,    \* [Ids -> Records or None], the "sandbox" rows
    index,    \* [Names -> Ids or None], SandboxIndex.sandbox_name_to_id
    cr,       \* [Names -> CRs or None], Kubernetes
    events,   \* watch events not yet handled, oldest first
    resync,   \* objects of a Restarted event not yet handled
    creator,  \* [Ids -> CreateSandbox call]
    deleter,  \* [Deleters -> DeleteSandbox call]
    watcher,  \* the watcher task
    sweep     \* the reconciler task

vars == <<store, index, cr, events, resync, creator, deleter, watcher, sweep>>
gateway == <<creator, deleter, watcher, sweep>>

-----------------------------------------------------------------------------
(* Store and index. *)

Stored == {i \in Ids : store[i] # None}
NameTaken(n, i) == \E j \in Stored \ {i} : store[j].name = n

\* put is an upsert by id that keeps created_at; inserting a taken name fails.
CanPut(i, r) == i \in Stored \/ ~NameTaken(r.name, i)
Put(i, r) ==
    store' = [store EXCEPT ![i] =
                 [r EXCEPT !.aged = IF store[i] = None THEN FALSE ELSE store[i].aged]]

Indexed(n, i) == [index EXCEPT ![n] = i]
Unindexed(i) == [n \in Names |-> IF index[n] = i THEN None ELSE index[n]]

Phase(c) ==
    CASE c.deleting -> "Deleting"
      [] ~c.deleting /\ c.cond = "none" -> "Unknown"
      [] ~c.deleting /\ c.cond = "transient" -> "Provisioning"
      [] ~c.deleting /\ c.cond = "ready" -> "Ready"
      [] ~c.deleting /\ c.cond = "terminal" -> "Error"

-----------------------------------------------------------------------------
(* Kubernetes: what the API server and the sandbox controller do.  Every   *)
(* change of a CR is an event of the watch.                                *)

Emit(kind, n, c) ==
    /\ Len(events) < MaxQueue
    /\ events' = Append(events, [kind |-> kind, obj |-> [name |-> n, cr |-> c]])

Apply(n, c) ==
    /\ cr' = [cr EXCEPT ![n] = c]
    /\ Emit("Applied", n, c)

\* A delete request marks a CR with finalizers, and removes any other.
DeleteCR(n) ==
    \/ Apply(n, [cr[n] EXCEPT !.deleting = TRUE])
    \/ /\ cr' = [cr EXCEPT ![n] = None]
       /\ Emit("Deleted", n, cr[n])

SetCondition(n) ==
    /\ cr[n] # None /\ ~cr[n].deleting
    /\ \E k \in Reported :
           k # cr[n].cond /\ Apply(n, [cr[n] EXCEPT !.cond = k])
    /\ UNCHANGED <<store, index, resync, gateway>>

Finalize(n) ==
    /\ cr[n] # None /\ cr[n].deleting
    /\ cr' = [cr EXCEPT ![n] = None]
    /\ Emit("Deleted", n, cr[n])
    /\ UNCHANGED <<store, index, resync, gateway>>

ExternalDelete(n) ==
    /\ "external" \in Faults
    /\ cr[n] # None /\ ~cr[n].deleting
    /\ DeleteCR(n)
    /\ UNCHANGED <<store, index, resync, gateway>>

\* The watch is set up anew: what was not delivered is lost, and one
\* Restarted event carries the objects that exist now.  The stream is polled
\* only between two events.
Relist ==
    /\ "relist" \in Faults
    /\ watcher.pc = "idle" /\ resync = {}
    /\ events' = <<>>
    /\ resync' = {[name |-> n, cr |-> cr[n]] : n \in {m \in Names : cr[m] # None}}
    /\ UNCHANGED <<store, index, cr, gateway>>

-----------------------------------------------------------------------------
(* CreateSandbox *)

CreateAs(i, pc) == creator' = [creator EXCEPT ![i].pc = pc]

\* "Reject duplicate names early."  An empty name was replaced before.
CreateCheck(i) ==
    /\ creator[i].pc = "new"
    /\ \E n \in Names :
           creator' = [creator EXCEPT ![i] =
               [pc |-> IF NameTaken(n, None) THEN "failed" ELSE "put", name |-> n]]
    /\ UNCHANGED <<store, index, cr, events, resync, deleter, watcher, sweep>>

\* The index is updated first and stays so when the insert fails.
CreatePut(i) ==
    LET n == creator[i].name
        r == [name |-> n, phase |-> "Provisioning", spec |-> TRUE, aged |-> FALSE] IN
    /\ creator[i].pc = "put"
    /\ index' = Indexed(n, i)
    /\ \/ CanPut(i, r) /\ Put(i, r) /\ CreateAs(i, "k8s")
       \/ ~CanPut(i, r) /\ CreateAs(i, "failed") /\ UNCHANGED store
    /\ UNCHANGED <<cr, events, resync, deleter, watcher, sweep>>

NewCR(i) == [id |-> i, cond |-> "none", deleting |-> FALSE]

\* SandboxClient::create.  A CR of that name exists: 409.
CreateCR(i) ==
    LET n == creator[i].name IN
    /\ creator[i].pc = "k8s"
    /\ \/ cr[n] = None /\ Apply(n, NewCR(i)) /\ CreateAs(i, "done")
       \/ /\ "timeout" \in Faults
          /\ cr[n] = None /\ Apply(n, NewCR(i)) /\ CreateAs(i, "rollback")
       \/ /\ cr[n] # None \/ "error" \in Faults
          /\ CreateAs(i, "rollback")
          /\ UNCHANGED <<cr, events>>
    /\ UNCHANGED <<store, index, resync, deleter, watcher, sweep>>

CreateRollback(i) ==
    /\ creator[i].pc = "rollback"
    /\ store' = [store EXCEPT ![i] = None]
    /\ index' = Unindexed(i)
    /\ CreateAs(i, "failed")
    /\ UNCHANGED <<cr, events, resync, deleter, watcher, sweep>>

CreateCancelled(i) ==
    /\ "cancel" \in Faults
    /\ creator[i].pc \in {"put", "k8s", "rollback"}
    /\ CreateAs(i, "failed")
    /\ \/ UNCHANGED <<cr, events>>
       \/ /\ creator[i].pc = "k8s" /\ cr[creator[i].name] = None
          /\ Apply(creator[i].name, NewCR(i))
    /\ UNCHANGED <<store, index, resync, deleter, watcher, sweep>>

-----------------------------------------------------------------------------
(* DeleteSandbox *)

NoCall == [pc |-> "idle", id |-> None, rec |-> None]
DeleteAs(d, pc) == deleter' = [deleter EXCEPT ![d].pc = pc]
DeleteReturns(d) == deleter' = [deleter EXCEPT ![d] = NoCall]

DeleteRead(d) ==
    /\ deleter[d].pc = "idle"
    /\ \E i \in Stored :
           /\ EarlyDeletes \/ creator[i].pc \in {"done", "failed"}
           /\ deleter' = [deleter EXCEPT ![d] = [pc |-> "mark", id |-> i, rec |-> store[i]]]
    /\ UNCHANGED <<store, index, cr, events, resync, creator, watcher, sweep>>

\* The whole record that was read is written back with phase Deleting.
DeleteMark(d) ==
    LET r == [deleter[d].rec EXCEPT !.phase = "Deleting"] IN
    /\ deleter[d].pc = "mark"
    /\ \/ /\ CanPut(deleter[d].id, r)
          /\ Put(deleter[d].id, r)
          /\ index' = Indexed(r.name, deleter[d].id)
          /\ DeleteAs(d, "k8s")
       \/ /\ ~CanPut(deleter[d].id, r)
          /\ DeleteReturns(d)
          /\ UNCHANGED <<store, index>>
    /\ UNCHANGED <<cr, events, resync, creator, watcher, sweep>>

MUT_DeleteInK8s(d) ==
    LET n == deleter[d].rec.name IN
    /\ deleter[d].pc = "k8s"
    /\ \/ cr[n] # None /\ DeleteCR(n) /\ DeleteReturns(d)
       \/ cr[n] = None /\ DeleteReturns(d) /\ UNCHANGED <<cr, events>>
       \/ "error" \in Faults /\ DeleteReturns(d) /\ UNCHANGED <<cr, events>>
    /\ UNCHANGED <<store, index, resync, creator, watcher, sweep>>

\* SandboxClient::delete, by name.  404: only then does the handler remove
\* the record itself.
DeleteInK8s(d) ==
    LET n == deleter[d].rec.name IN
    /\ deleter[d].pc = "k8s"
    /\ \/ cr[n] # None /\ DeleteCR(n) /\ DeleteReturns(d)
       \/ cr[n] = None /\ DeleteAs(d, "forget") /\ UNCHANGED <<cr, events>>
       \/ "error" \in Faults /\ DeleteReturns(d) /\ UNCHANGED <<cr, events>>
    /\ UNCHANGED <<store, index, resync, creator, watcher, sweep>>

DeleteForget(d) ==
    /\ deleter[d].pc = "forget"
    /\ store' = [store EXCEPT ![deleter[d].id] = None]
    /\ DeleteReturns(d)
    /\ UNCHANGED <<index, cr, events, resync, creator, watcher, sweep>>

DeleteCancelled(d) ==
    /\ "cancel" \in Faults
    /\ deleter[d].pc # "idle"
    /\ DeleteReturns(d)
    /\ UNCHANGED <<store, index, cr, events, resync, creator, watcher, sweep>>

-----------------------------------------------------------------------------
(* The watcher *)

Resting == [pc |-> "idle", obj |-> None, seen |-> None]
Handle(o) == watcher' = [pc |-> "put", obj |-> o, seen |-> store[o.cr.id]]

\* handle_applied up to the read of the record, for a Restarted event's
\* objects in any order, then for the events in theirs.
WatchResync ==
    /\ watcher.pc = "idle"
    /\ \E o \in resync : Handle(o) /\ resync' = resync \ {o}
    /\ UNCHANGED <<store, index, cr, events, creator, deleter, sweep>>

WatchApplied ==
    /\ watcher.pc = "idle" /\ resync = {}
    /\ events # <<>> /\ Head(events).kind = "Applied"
    /\ Handle(Head(events).obj)
    /\ events' = Tail(events)
    /\ UNCHANGED <<store, index, cr, resync, creator, deleter, sweep>>

MUT_WatchPut ==
    LET o == watcher.obj
        i == o.cr.id
        r == [name |-> o.name, phase |-> Phase(o.cr), spec |-> FALSE, aged |-> FALSE] IN
    /\ watcher.pc = "put"
    /\ index' = Indexed(r.name, i)
    /\ \/ CanPut(i, r) /\ Put(i, r)
       \/ ~CanPut(i, r) /\ UNCHANGED store
    /\ watcher' = Resting
    /\ UNCHANGED <<cr, events, resync, creator, deleter, sweep>>

\* The rest of handle_applied: phase and status come from the CR, everything
\* else from the record read, or from a placeholder without a spec.
WatchPut ==
    LET o == watcher.obj
        i == o.cr.id
        r == IF watcher.seen = None
             THEN [name |-> o.name, phase |-> Phase(o.cr), spec |-> FALSE, aged |-> FALSE]
             ELSE [watcher.seen EXCEPT !.phase = Phase(o.cr)] IN
    /\ watcher.pc = "put"
    /\ index' = Indexed(r.name, i)
    /\ \/ CanPut(i, r) /\ Put(i, r)
       \/ ~CanPut(i, r) /\ UNCHANGED store
    /\ watcher' = Resting
    /\ UNCHANGED <<cr, events, resync, creator, deleter, sweep>>

\* handle_deleted
WatchDeleted ==
    /\ watcher.pc = "idle" /\ resync = {}
    /\ events # <<>> /\ Head(events).kind = "Deleted"
    /\ LET i == Head(events).obj.cr.id IN
       /\ store' = [store EXCEPT ![i] = None]
       /\ index' = Unindexed(i)
    /\ events' = Tail(events)
    /\ UNCHANGED <<cr, resync, gateway>>

-----------------------------------------------------------------------------
(* reconcile_orphaned_sandboxes *)

\* A record ages while nobody works on it: the calls of CreateSandbox take
\* at most KUBE_API_TIMEOUT (30 s), the grace period is 300 s.
Age(i) ==
    /\ i \in Stored /\ ~store[i].aged
    /\ creator[i].pc \in {"done", "failed"}
    /\ store' = [store EXCEPT ![i].aged = TRUE]
    /\ UNCHANGED <<index, cr, events, resync, gateway>>

MUT_Orphaned(i) == store[i].phase = "Provisioning"

Orphaned(i) == store[i].phase = "Provisioning" /\ store[i].aged

SweepList ==
    /\ sweep.todo = {} /\ sweep.removing = None
    /\ sweep' = [todo |-> {i \in Stored : Orphaned(i)}, removing |-> None]
    /\ UNCHANGED <<store, index, cr, events, resync, creator, deleter, watcher>>

\* agent_sandbox_exists, by the name of the listed record.
SweepCheck(i) ==
    /\ sweep.removing = None /\ i \in sweep.todo
    /\ sweep' = [todo |-> sweep.todo \ {i},
                 removing |-> IF cr[creator[i].name] = None THEN i ELSE None]
    /\ UNCHANGED <<store, index, cr, events, resync, creator, deleter, watcher>>

SweepRemove ==
    /\ sweep.removing # None
    /\ store' = [store EXCEPT ![sweep.removing] = None]
    /\ index' = Unindexed(sweep.removing)
    /\ sweep' = [sweep EXCEPT !.removing = None]
    /\ UNCHANGED <<cr, events, resync, creator, deleter, watcher>>

-----------------------------------------------------------------------------
Init ==
    /\ store = [i \in Ids |-> None]
    /\ index = [n \in Names |-> None]
    /\ cr = [n \in Names |-> None]
    /\ events = <<>>
    /\ resync = {}
    /\ creator = [i \in Ids |-> [pc |-> "new", name |-> None]]
    /\ deleter = [d \in Deleters |-> NoCall]
    /\ watcher = Resting
    /\ sweep = [todo |-> {}, removing |-> None]

Create(i) == CreateCheck(i) \/ CreatePut(i) \/ CreateCR(i) \/ CreateRollback(i)
Delete(d) == DeleteMark(d) \/ DeleteInK8s(d) \/ DeleteForget(d)
Watch == WatchResync \/ WatchApplied \/ WatchPut \/ WatchDeleted
Sweep == SweepList \/ (\E i \in Ids : SweepCheck(i)) \/ SweepRemove

Next ==
    \/ \E n \in Names : SetCondition(n) \/ Finalize(n) \/ ExternalDelete(n)
    \/ Relist
    \/ \E i \in Ids : Create(i) \/ CreateCancelled(i) \/ Age(i)
    \/ \E d \in Deleters : DeleteRead(d) \/ Delete(d) \/ DeleteCancelled(d)
    \/ Watch
    \/ Sweep

\* Handlers and tasks run, finalizers finish, and time passes.
Fairness ==
    /\ \A n \in Names : WF_vars(Finalize(n))
    /\ \A i \in Ids : WF_vars(CreatePut(i) \/ CreateCR(i) \/ CreateRollback(i)) /\ WF_vars(Age(i))
    /\ \A d \in Deleters : WF_vars(Delete(d))
    /\ WF_vars(Watch)
    /\ WF_vars(Sweep)
    /\ \A i \in Ids : SF_vars(SweepCheck(i))

Spec == Init /\ [][Next]_vars /\ Fairness

-----------------------------------------------------------------------------
CreateCalls ==
    [pc : {"new"}, name : {None}]
        \cup [pc : {"put", "k8s", "rollback", "done", "failed"}, name : Names]
DeleteCalls ==
    {NoCall} \cup [pc : {"mark", "k8s", "forget"}, id : Ids, rec : Records]
WatcherStates ==
    {Resting} \cup [pc : {"put"}, obj : Objects, seen : Records \cup {None}]

\* Store, cluster, calls and tasks stay in their types.
TypeOK ==
    /\ store \in [Ids -> Records \cup {None}]
    /\ index \in [Names -> Ids \cup {None}]
    /\ cr \in [Names -> CRs \cup {None}]
    /\ events \in Seq(Events)
    /\ resync \in SUBSET Objects
    /\ creator \in [Ids -> CreateCalls]
    /\ deleter \in [Deleters -> DeleteCalls]
    /\ watcher \in WatcherStates
    /\ sweep \in [todo : SUBSET Ids, removing : Ids \cup {None}]

\* A running sandbox whose creation was acknowledged has its record, with its
\* spec: neither a rollback, a deletion of another sandbox of that name, a late
\* watch event, a resync nor the reconciler takes it away.
RunningHasRecord ==
    \A n \in Names :
        cr[n] # None /\ creator[cr[n].id].pc = "done"
            => store[cr[n].id] # None /\ store[cr[n].id].spec

\* The reconciler never decides to remove the record of a sandbox that has a
\* CR, although it looks at the store first and at Kubernetes later.
ReconcilerSparesLive ==
    \A n \in Names : cr[n] # None => cr[n].id # sweep.removing

\* "Periodically reconcile the store against Kubernetes to clean up orphaned
\* sandbox records.  A record is orphaned when it exists in the store but has
\* no corresponding Kubernetes `Sandbox` CR" (sandbox/mod.rs:410): no record
\* outlives its CR for ever.
OrphansRemoved ==
    \A i \in Ids :
        (/\ i \in Stored
         /\ creator[i].pc \in {"done", "failed"}
         /\ \A n \in Names : cr[n] = None \/ cr[n].id # i) ~> i \notin Stored
=============================================================================
