----------------------- MODULE SandboxLifecycleProofs -----------------------
(***************************************************************************)
(* Theorems about SandboxLifecycle, for any names, ids, concurrent deletes *)
(* and faults: the type invariant, and, when clients delete a sandbox only *)
(* after CreateSandbox answered, that a running sandbox keeps its record.  *)
(***************************************************************************)
EXTENDS SandboxLifecycle, TLAPS

\* An id whose CR is gone, or never came, and cannot come any more.
Live(i) == \E n \in Names : cr[n] # None /\ cr[n].id = i
Spent(i) == creator[i].pc \in {"done", "rollback", "failed"}
Dead(i) == Spent(i) /\ ~Live(i)

\* An id whose record must not be lost.
Owned(i) == creator[i].pc = "k8s" \/ (creator[i].pc = "done" /\ Live(i))

\* Whoever has a CR used its one creation, under its own name.
CrOfCreator ==
    \A n \in Names : cr[n] # None => Spent(cr[n].id) /\ creator[cr[n].id].name = n

OwnedHasRecord == \A i \in Ids : Owned(i) => store[i] # None /\ store[i].spec

RecordOfCreator ==
    \A i \in Stored : /\ creator[i].pc \notin {"new", "put"}
                      /\ store[i].name = creator[i].name

AgedIsSettled ==
    \A i \in Stored : store[i].aged => creator[i].pc \in {"done", "failed"}

\* What the watcher has not handled yet.
GoodEvent(e) ==
    /\ Spent(e.obj.cr.id)
    /\ e.obj.name = creator[e.obj.cr.id].name
    /\ e.kind = "Deleted" => Dead(e.obj.cr.id)
GoodObject(o) == Spent(o.cr.id) /\ o.name = creator[o.cr.id].name

QueueOfCreators ==
    /\ \A k \in 1..Len(events) : GoodEvent(events[k])
    /\ \A o \in resync : GoodObject(o)

WatcherKeepsSpec ==
    watcher.pc = "put" =>
        /\ Spent(watcher.obj.cr.id)
        /\ watcher.obj.name = creator[watcher.obj.cr.id].name
        /\ watcher.seen # None => watcher.seen.name = watcher.obj.name
        /\ Owned(watcher.obj.cr.id) => watcher.seen # None /\ watcher.seen.spec

DeletersAreLate ==
    \A d \in Deleters : deleter[d].pc # "idle" =>
        /\ creator[deleter[d].id].pc \in {"done", "failed"}
        /\ deleter[d].rec.name = creator[deleter[d].id].name
        /\ Owned(deleter[d].id) => deleter[d].rec.spec
        /\ deleter[d].pc = "forget" => ~Live(deleter[d].id)

SweepIsSafe ==
    /\ \A i \in sweep.todo : creator[i].pc \in {"done", "failed"}
    /\ sweep.removing # None =>
           /\ creator[sweep.removing].pc \in {"done", "failed"}
           /\ ~Live(sweep.removing)

Inv ==
    /\ TypeOK /\ CrOfCreator /\ OwnedHasRecord
    /\ RecordOfCreator /\ AgedIsSettled /\ QueueOfCreators /\ WatcherKeepsSpec
    /\ DeletersAreLate /\ SweepIsSafe

-----------------------------------------------------------------------------
(* Types. *)

\* The initial state has the declared types.
LEMMA InitTypeOK == Init => TypeOK
  BY DEF Init, TypeOK, CreateCalls, DeleteCalls, WatcherStates

\* The pieces of Kubernetes objects and calls that steps put together.
LEMMA PieceTypes ==
    /\ \A i \in Ids : NewCR(i) \in CRs
    /\ \A c \in CRs : Phase(c) \in Phases
    /\ \A c \in CRs : [c EXCEPT !.deleting = TRUE] \in CRs
    /\ \A c \in CRs, k \in Conditions : [c EXCEPT !.cond = k] \in CRs
    /\ \A r \in Records, b \in BOOLEAN : [r EXCEPT !.aged = b] \in Records
    /\ \A r \in Records, f \in Phases : [r EXCEPT !.phase = f] \in Records
    /\ \A e \in Events : e.obj.cr.id \in Ids /\ e.obj.name \in Names /\ e.obj \in Objects
  BY DEF NewCR, CRs, Phase, Phases, Conditions, Records, Events, Objects

\* A CR change that is announced keeps the types of CRs and events.
LEMMA ApplyTypes ==
    ASSUME TypeOK, NEW n \in Names, NEW c \in CRs, Apply(n, c)
    PROVE  cr' \in [Names -> CRs \cup {None}] /\ events' \in Seq(Events)
  BY DEF TypeOK, Apply, Emit, Events, Objects

\* So does a delete request.
LEMMA DeleteCRTypes ==
    ASSUME TypeOK, NEW n \in Names, cr[n] # None, DeleteCR(n)
    PROVE  cr' \in [Names -> CRs \cup {None}] /\ events' \in Seq(Events)
  <1>1. cr[n] \in CRs /\ [cr[n] EXCEPT !.deleting = TRUE] \in CRs
    BY PieceTypes DEF TypeOK
  <1>2. CASE Apply(n, [cr[n] EXCEPT !.deleting = TRUE])
    BY <1>1, <1>2, ApplyTypes
  <1>3. CASE cr' = [cr EXCEPT ![n] = None] /\ Emit("Deleted", n, cr[n])
    BY <1>1, <1>3 DEF TypeOK, Emit, Events, Objects
  <1> QED
    BY <1>2, <1>3 DEF DeleteCR

\* A record that is put has the type of records.
LEMMA PutTypes ==
    ASSUME TypeOK, NEW i \in Ids, NEW r \in Records, Put(i, r)
    PROVE  store' \in [Ids -> Records \cup {None}]
  <1>1. store[i] # None => store[i].aged \in BOOLEAN
    BY DEF TypeOK, Records
  <1>2. [r EXCEPT !.aged = IF store[i] = None THEN FALSE ELSE store[i].aged] \in Records
    BY <1>1, PieceTypes
  <1> QED
    BY <1>2 DEF TypeOK, Put

\* Every step keeps the types: what a handler or the watcher carries from one
\* step to the next is a record, an object or nothing.
LEMMA NextTypeOK == TypeOK /\ [Next]_vars => TypeOK'
  <1> SUFFICES ASSUME TypeOK, [Next]_vars PROVE TypeOK'
    OBVIOUS
  <1> USE NoneAssumption, BoundsAssumption
  <1>1. ASSUME NEW n \in Names, SetCondition(n) PROVE TypeOK'
    <2>1. cr' \in [Names -> CRs \cup {None}] /\ events' \in Seq(Events)
      <3>1. PICK k \in Reported : Apply(n, [cr[n] EXCEPT !.cond = k])
        BY <1>1 DEF SetCondition
      <3>2. cr[n] \in CRs /\ k \in Conditions
        BY <1>1 DEF SetCondition, TypeOK
      <3> QED
        BY <3>1, <3>2, PieceTypes, ApplyTypes
    <2> QED
      BY <1>1, <2>1 DEF TypeOK, SetCondition, gateway
  <1>2. ASSUME NEW n \in Names, Finalize(n) PROVE TypeOK'
    <2>1. cr' \in [Names -> CRs \cup {None}] /\ events' \in Seq(Events)
      BY <1>2 DEF Finalize, Emit, TypeOK, Events, Objects
    <2> QED
      BY <1>2, <2>1 DEF TypeOK, Finalize, gateway
  <1>3. ASSUME NEW n \in Names, ExternalDelete(n) PROVE TypeOK'
    <2>1. cr' \in [Names -> CRs \cup {None}] /\ events' \in Seq(Events)
      BY <1>3, DeleteCRTypes DEF ExternalDelete
    <2> QED
      BY <1>3, <2>1 DEF TypeOK, ExternalDelete, gateway
  <1>4. CASE Relist
    <2>1. events' \in Seq(Events) /\ resync' \in SUBSET Objects
      BY <1>4 DEF Relist, TypeOK, Objects
    <2> QED
      BY <1>4, <2>1 DEF TypeOK, Relist, gateway
  <1>5. ASSUME NEW i \in Ids, CreateCheck(i) PROVE TypeOK'
    <2>1. creator' \in [Ids -> CreateCalls]
      BY <1>5 DEF CreateCheck, TypeOK, CreateCalls
    <2> QED
      BY <1>5, <2>1 DEF TypeOK, CreateCheck
  <1>6. ASSUME NEW i \in Ids, CreatePut(i) PROVE TypeOK'
    <2>1. creator' \in [Ids -> CreateCalls]
      BY <1>6 DEF CreatePut, CreateAs, TypeOK, CreateCalls
    <2>2. index' \in [Names -> Ids \cup {None}]
      BY <1>6 DEF CreatePut, Indexed, TypeOK
    <2>3. store' \in [Ids -> Records \cup {None}]
      <3>1. [name |-> creator[i].name, phase |-> "Provisioning", spec |-> TRUE, aged |-> FALSE] \in Records
        BY <1>6 DEF CreatePut, TypeOK, CreateCalls, Records, Phases
      <3> QED
        BY <1>6, <3>1, PutTypes DEF CreatePut, TypeOK
    <2> QED
      BY <1>6, <2>1, <2>2, <2>3 DEF TypeOK, CreatePut
  <1>7. ASSUME NEW i \in Ids, CreateCR(i) PROVE TypeOK'
    <2>1. creator' \in [Ids -> CreateCalls]
      BY <1>7 DEF CreateCR, CreateAs, TypeOK, CreateCalls
    <2>2. cr' \in [Names -> CRs \cup {None}] /\ events' \in Seq(Events)
      <3>1. creator[i].name \in Names
        BY <1>7 DEF CreateCR, TypeOK, CreateCalls
      <3> QED
        BY <1>7, <3>1, PieceTypes, ApplyTypes DEF CreateCR, TypeOK
    <2> QED
      BY <1>7, <2>1, <2>2 DEF TypeOK, CreateCR
  <1>8. ASSUME NEW i \in Ids, CreateRollback(i) PROVE TypeOK'
    <2>1. creator' \in [Ids -> CreateCalls]
      BY <1>8 DEF CreateRollback, CreateAs, TypeOK, CreateCalls
    <2>2. store' \in [Ids -> Records \cup {None}]
      BY <1>8 DEF CreateRollback, TypeOK
    <2>3. index' \in [Names -> Ids \cup {None}]
      BY <1>8 DEF CreateRollback, Unindexed, TypeOK
    <2> QED
      BY <1>8, <2>1, <2>2, <2>3 DEF TypeOK, CreateRollback
  <1>9. ASSUME NEW i \in Ids, CreateCancelled(i) PROVE TypeOK'
    <2>1. creator' \in [Ids -> CreateCalls]
      BY <1>9 DEF CreateCancelled, CreateAs, TypeOK, CreateCalls
    <2>2. cr' \in [Names -> CRs \cup {None}] /\ events' \in Seq(Events)
      <3>1. creator[i].name \in Names
        BY <1>9 DEF CreateCancelled, TypeOK, CreateCalls
      <3> QED
        BY <1>9, <3>1, PieceTypes, ApplyTypes DEF CreateCancelled, TypeOK
    <2> QED
      BY <1>9, <2>1, <2>2 DEF TypeOK, CreateCancelled
  <1>10. ASSUME NEW i \in Ids, Age(i) PROVE TypeOK'
    <2>1. store' \in [Ids -> Records \cup {None}]
      <3>1. store[i] \in Records
        BY <1>10 DEF Age, Stored, TypeOK
      <3>2. store' = [store EXCEPT ![i] = [store[i] EXCEPT !.aged = TRUE]]
        BY <1>10 DEF Age
      <3> QED
        BY <3>1, <3>2, PieceTypes DEF TypeOK
    <2> QED
      BY <1>10, <2>1 DEF TypeOK, Age, gateway
  <1>11. ASSUME NEW d \in Deleters, DeleteRead(d) PROVE TypeOK'
    <2>1. deleter' \in [Deleters -> DeleteCalls]
      BY <1>11 DEF DeleteRead, Stored, TypeOK, DeleteCalls
    <2> QED
      BY <1>11, <2>1 DEF TypeOK, DeleteRead
  <1>12. ASSUME NEW d \in Deleters, DeleteMark(d) PROVE TypeOK'
    <2>1. deleter' \in [Deleters -> DeleteCalls]
      BY <1>12 DEF DeleteMark, DeleteAs, DeleteReturns, NoCall, TypeOK, DeleteCalls
    <2>2. store' \in [Ids -> Records \cup {None}] /\ index' \in [Names -> Ids \cup {None}]
      <3> DEFINE r == [deleter[d].rec EXCEPT !.phase = "Deleting"]
      <3>1. deleter[d].id \in Ids /\ deleter[d].rec \in Records
        BY <1>12 DEF DeleteMark, TypeOK, DeleteCalls, NoCall
      <3>2. r \in Records /\ r.name \in Names
        BY <3>1 DEF Records, Phases
      <3> QED
        BY <1>12, <3>1, <3>2, PutTypes DEF DeleteMark, Indexed, TypeOK
    <2> QED
      BY <1>12, <2>1, <2>2 DEF TypeOK, DeleteMark
  <1>13. ASSUME NEW d \in Deleters, DeleteInK8s(d) PROVE TypeOK'
    <2>1. deleter' \in [Deleters -> DeleteCalls]
      BY <1>13 DEF DeleteInK8s, DeleteAs, DeleteReturns, NoCall, TypeOK, DeleteCalls
    <2>2. cr' \in [Names -> CRs \cup {None}] /\ events' \in Seq(Events)
      <3>1. deleter[d].rec.name \in Names
        BY <1>13 DEF DeleteInK8s, TypeOK, DeleteCalls, NoCall, Records
      <3> QED
        BY <1>13, <3>1, DeleteCRTypes DEF DeleteInK8s, TypeOK
    <2> QED
      BY <1>13, <2>1, <2>2 DEF TypeOK, DeleteInK8s
  <1>14. ASSUME NEW d \in Deleters, DeleteForget(d) PROVE TypeOK'
    <2>1. deleter' \in [Deleters -> DeleteCalls]
      BY <1>14 DEF DeleteForget, DeleteReturns, TypeOK, DeleteCalls
    <2>2. store' \in [Ids -> Records \cup {None}]
      BY <1>14 DEF DeleteForget, TypeOK
    <2> QED
      BY <1>14, <2>1, <2>2 DEF TypeOK, DeleteForget
  <1>15. ASSUME NEW d \in Deleters, DeleteCancelled(d) PROVE TypeOK'
    <2>1. deleter' \in [Deleters -> DeleteCalls]
      BY <1>15 DEF DeleteCancelled, DeleteReturns, TypeOK, DeleteCalls
    <2> QED
      BY <1>15, <2>1 DEF TypeOK, DeleteCancelled
  <1>16. CASE WatchResync
    <2>1. resync' \in SUBSET Objects /\ watcher' \in WatcherStates
      BY <1>16 DEF WatchResync, Handle, TypeOK, WatcherStates, Objects, CRs
    <2> QED
      BY <1>16, <2>1 DEF TypeOK, WatchResync
  <1>17. CASE WatchApplied
    <2>1. events' \in Seq(Events) /\ watcher' \in WatcherStates
      <3>1. Head(events) \in Events /\ Tail(events) \in Seq(Events)
        BY <1>17 DEF WatchApplied, TypeOK
      <3> QED
        BY <1>17, <3>1, PieceTypes DEF WatchApplied, Handle, TypeOK, WatcherStates
    <2> QED
      BY <1>17, <2>1 DEF TypeOK, WatchApplied
  <1>18. CASE WatchPut
    <2>1. watcher' \in WatcherStates
      BY <1>18 DEF WatchPut, WatcherStates
    <2>2. store' \in [Ids -> Records \cup {None}] /\ index' \in [Names -> Ids \cup {None}]
      <3> DEFINE o == watcher.obj
                 r == IF watcher.seen = None
                      THEN [name |-> o.name, phase |-> Phase(o.cr), spec |-> FALSE, aged |-> FALSE]
                      ELSE [watcher.seen EXCEPT !.phase = Phase(o.cr)]
      <3>1. o \in Objects /\ watcher.seen \in Records \cup {None}
        BY <1>18 DEF WatchPut, TypeOK, WatcherStates, Resting
      <3>2. o.cr.id \in Ids /\ o.name \in Names /\ Phase(o.cr) \in Phases
        BY <3>1, PieceTypes DEF Objects, CRs
      <3>3. r \in Records /\ r.name \in Names
        BY <3>1, <3>2 DEF Records
      <3>4. index' = Indexed(r.name, o.cr.id) /\ (Put(o.cr.id, r) \/ UNCHANGED store)
        BY <1>18 DEF WatchPut
      <3> HIDE DEF r, o
      <3> QED
        BY <3>2, <3>3, <3>4, PutTypes DEF Indexed, TypeOK
    <2> QED
      BY <1>18, <2>1, <2>2 DEF TypeOK, WatchPut
  <1>19. CASE WatchDeleted
    <2>1. events' \in Seq(Events)
      BY <1>19 DEF WatchDeleted, TypeOK
    <2>2. store' \in [Ids -> Records \cup {None}] /\ index' \in [Names -> Ids \cup {None}]
      BY <1>19 DEF WatchDeleted, Unindexed, TypeOK
    <2> QED
      BY <1>19, <2>1, <2>2 DEF TypeOK, WatchDeleted, gateway
  <1>20. CASE SweepList
    <2>1. sweep' \in [todo : SUBSET Ids, removing : Ids \cup {None}]
      BY <1>20 DEF SweepList, Stored
    <2> QED
      BY <1>20, <2>1 DEF TypeOK, SweepList
  <1>21. ASSUME NEW i \in Ids, SweepCheck(i) PROVE TypeOK'
    <2>1. sweep' \in [todo : SUBSET Ids, removing : Ids \cup {None}]
      BY <1>21 DEF SweepCheck, TypeOK
    <2> QED
      BY <1>21, <2>1 DEF TypeOK, SweepCheck
  <1>22. CASE SweepRemove
    <2>1. sweep' \in [todo : SUBSET Ids, removing : Ids \cup {None}]
      BY <1>22 DEF SweepRemove, TypeOK
    <2>2. store' \in [Ids -> Records \cup {None}] /\ index' \in [Names -> Ids \cup {None}]
      BY <1>22 DEF SweepRemove, Unindexed, TypeOK
    <2> QED
      BY <1>22, <2>1, <2>2 DEF TypeOK, SweepRemove
  <1>23. CASE UNCHANGED vars
    BY <1>23 DEF TypeOK, vars
  <1> QED
    BY <1>1, <1>2, <1>3, <1>4, <1>5, <1>6, <1>7, <1>8, <1>9, <1>10, <1>11, <1>12, <1>13, <1>14, <1>15, <1>16, <1>17, <1>18, <1>19, <1>20, <1>21, <1>22, <1>23 DEF Next, Create, Delete, Watch, Sweep

-----------------------------------------------------------------------------
(* What a step may do to creations and CRs. *)

CreatorMove(j) ==
    \/ creator'[j] = creator[j]
    \/ creator[j].pc = "new" /\ creator'[j].pc \in {"put", "failed"}
    \/ /\ creator'[j].name = creator[j].name
       /\ \/ creator[j].pc = "put" /\ creator'[j].pc \in {"k8s", "failed"}
          \/ creator[j].pc = "k8s" /\ creator'[j].pc \in {"done", "rollback", "failed"}
          \/ creator[j].pc = "rollback" /\ creator'[j].pc = "failed"

CrMove(m) ==
    \/ cr'[m] = None
    \/ cr[m] # None /\ cr'[m].id = cr[m].id
    \/ \E j \in Ids : /\ creator[j].pc = "k8s" /\ creator[j].name = m
                      /\ cr'[m].id = j
                      /\ creator'[j].pc \in {"done", "rollback", "failed"}

Moves == (\A j \in Ids : CreatorMove(j)) /\ (\A m \in Names : CrMove(m))

\* Creations only move forward, and a CR is new only when its creation is at
\* its Kubernetes call.
LEMMA NextMoves == ASSUME TypeOK, [Next]_vars PROVE Moves
  <1> USE NoneAssumption
  <1>1. ASSUME NEW n \in Names, SetCondition(n) PROVE Moves
    BY <1>1 DEF CreatorMove, CrMove, Moves, SetCondition, DeleteCR, Apply, gateway, TypeOK, CRs
  <1>2. ASSUME NEW n \in Names, Finalize(n) PROVE Moves
    BY <1>2 DEF CreatorMove, CrMove, Moves, Finalize, DeleteCR, Apply, gateway, TypeOK, CRs
  <1>3. ASSUME NEW n \in Names, ExternalDelete(n) PROVE Moves
    BY <1>3 DEF CreatorMove, CrMove, Moves, ExternalDelete, DeleteCR, Apply, gateway, TypeOK, CRs
  <1>4. CASE Relist
    BY <1>4 DEF CreatorMove, CrMove, Moves, Relist, gateway
  <1>5. ASSUME NEW i \in Ids, CreateCheck(i) PROVE Moves
    BY <1>5 DEF CreatorMove, CrMove, Moves, CreateCheck, CreateAs, TypeOK, CreateCalls
  <1>6. ASSUME NEW i \in Ids, CreatePut(i) PROVE Moves
    BY <1>6 DEF CreatorMove, CrMove, Moves, CreatePut, CreateAs, TypeOK, CreateCalls
  <1>7. ASSUME NEW i \in Ids, CreateCR(i) PROVE Moves
    <2>1. \A j \in Ids : CreatorMove(j)
      BY <1>7 DEF CreatorMove, CreateCR, CreateAs, TypeOK, CreateCalls
    <2>2. \A m \in Names : CrMove(m)
      <3>1. creator[i].name \in Names
        BY <1>7 DEF CreateCR, TypeOK, CreateCalls
      <3>2. CASE UNCHANGED cr
        BY <3>2 DEF CrMove, TypeOK
      <3>3. CASE cr' = [cr EXCEPT ![creator[i].name] = NewCR(i)] /\ creator[i].pc = "k8s"
        <4>1. creator'[i].pc \in {"done", "rollback", "failed"}
          BY <1>7, <3>3 DEF CreateCR, CreateAs, TypeOK, CreateCalls
        <4> QED
          BY <3>1, <3>3, <4>1 DEF CrMove, NewCR, TypeOK
      <3> QED
        BY <1>7, <3>2, <3>3 DEF CreateCR, Apply
    <2> QED
      BY <2>1, <2>2 DEF Moves
  <1>8. ASSUME NEW i \in Ids, CreateRollback(i) PROVE Moves
    BY <1>8 DEF CreatorMove, CrMove, Moves, CreateRollback, CreateAs, TypeOK, CreateCalls
  <1>9. ASSUME NEW i \in Ids, CreateCancelled(i) PROVE Moves
    <2>1. \A j \in Ids : CreatorMove(j)
      BY <1>9 DEF CreatorMove, CreateCancelled, CreateAs, TypeOK, CreateCalls
    <2>2. \A m \in Names : CrMove(m)
      <3>1. creator[i].name \in Names
        BY <1>9 DEF CreateCancelled, TypeOK, CreateCalls
      <3>2. CASE UNCHANGED cr
        BY <3>2 DEF CrMove, TypeOK
      <3>3. CASE cr' = [cr EXCEPT ![creator[i].name] = NewCR(i)] /\ creator[i].pc = "k8s"
        <4>1. creator'[i].pc \in {"done", "rollback", "failed"}
          BY <1>9, <3>3 DEF CreateCancelled, CreateAs, TypeOK, CreateCalls
        <4> QED
          BY <3>1, <3>3, <4>1 DEF CrMove, NewCR, TypeOK
      <3> QED
        BY <1>9, <3>2, <3>3 DEF CreateCancelled, Apply
    <2> QED
      BY <2>1, <2>2 DEF Moves
  <1>10. ASSUME NEW i \in Ids, Age(i) PROVE Moves
    BY <1>10 DEF CreatorMove, CrMove, Moves, Age, gateway
  <1>11. ASSUME NEW d \in Deleters, DeleteRead(d) PROVE Moves
    BY <1>11 DEF CreatorMove, CrMove, Moves, DeleteRead
  <1>12. ASSUME NEW d \in Deleters, DeleteMark(d) PROVE Moves
    BY <1>12 DEF CreatorMove, CrMove, Moves, DeleteMark
  <1>13. ASSUME NEW d \in Deleters, DeleteInK8s(d) PROVE Moves
    <2>1. deleter[d].rec.name \in Names
      BY <1>13 DEF DeleteInK8s, TypeOK, DeleteCalls, NoCall, Records
    <2> QED
      BY <1>13, <2>1 DEF CreatorMove, CrMove, Moves, DeleteInK8s, DeleteCR, Apply, TypeOK, CRs
  <1>14. ASSUME NEW d \in Deleters, DeleteForget(d) PROVE Moves
    BY <1>14 DEF CreatorMove, CrMove, Moves, DeleteForget
  <1>15. ASSUME NEW d \in Deleters, DeleteCancelled(d) PROVE Moves
    BY <1>15 DEF CreatorMove, CrMove, Moves, DeleteCancelled
  <1>16. CASE WatchResync
    BY <1>16 DEF CreatorMove, CrMove, Moves, WatchResync
  <1>17. CASE WatchApplied
    BY <1>17 DEF CreatorMove, CrMove, Moves, WatchApplied
  <1>18. CASE WatchPut
    BY <1>18 DEF CreatorMove, CrMove, Moves, WatchPut
  <1>19. CASE WatchDeleted
    BY <1>19 DEF CreatorMove, CrMove, Moves, WatchDeleted, gateway
  <1>20. CASE SweepList
    BY <1>20 DEF CreatorMove, CrMove, Moves, SweepList
  <1>21. ASSUME NEW i \in Ids, SweepCheck(i) PROVE Moves
    BY <1>21 DEF CreatorMove, CrMove, Moves, SweepCheck
  <1>22. CASE SweepRemove
    BY <1>22 DEF CreatorMove, CrMove, Moves, SweepRemove
  <1>23. CASE UNCHANGED vars
    BY <1>23 DEF CreatorMove, CrMove, Moves, vars
  <1> QED
    BY <1>1, <1>2, <1>3, <1>4, <1>5, <1>6, <1>7, <1>8, <1>9, <1>10, <1>11, <1>12, <1>13, <1>14, <1>15, <1>16, <1>17, <1>18, <1>19, <1>20, <1>21, <1>22, <1>23 DEF Next, Create, Delete, Watch, Sweep

Stable ==
    \A i \in Ids :
        /\ creator[i].pc # "new" => creator'[i].name = creator[i].name
        /\ Spent(i) => Spent(i)' /\ (Live(i)' => Live(i)) /\ (Owned(i)' => Owned(i))
        /\ creator[i].pc \in {"done", "failed"} => creator'[i].pc = creator[i].pc
        /\ Owned(i)' => Owned(i) \/ (creator[i].pc = "put" /\ creator'[i].pc = "k8s")

\* An id that used its creation stays so and gets no CR any more.
LEMMA StableStep ==
    ASSUME TypeOK, TypeOK', CrOfCreator, Moves
    PROVE  Stable /\ CrOfCreator'
  <1> USE NoneAssumption
  <1>1. CrOfCreator'
    <2> SUFFICES ASSUME NEW n \in Names, cr'[n] # None
                 PROVE  Spent(cr[n].id)' /\ creator'[cr'[n].id].name = n
      BY DEF CrOfCreator
    <2>1. CrMove(n)
      BY DEF Moves
    <2>2. CASE cr[n] # None /\ cr'[n].id = cr[n].id
      <3>1. cr[n].id \in Ids /\ Spent(cr[n].id) /\ creator[cr[n].id].name = n
        BY <2>2 DEF CrOfCreator, TypeOK, CRs
      <3>2. CreatorMove(cr[n].id)
        BY <3>1 DEF Moves
      <3> QED
        BY <2>2, <3>1, <3>2 DEF CreatorMove, Spent
    <2>3. CASE \E j \in Ids : /\ creator[j].pc = "k8s" /\ creator[j].name = n
                              /\ cr'[n].id = j
                              /\ creator'[j].pc \in {"done", "rollback", "failed"}
      BY <2>3 DEF Moves, CreatorMove, Spent
    <2> QED
      BY <2>1, <2>2, <2>3 DEF CrMove
  <1>2. \A i \in Ids : CreatorMove(i)
    BY DEF Moves
  <1>3. ASSUME NEW i \in Ids, Spent(i), Live(i)' PROVE Live(i)
    <2>1. PICK n \in Names : cr'[n] # None /\ cr'[n].id = i
      BY <1>3 DEF Live
    <2>2. CrMove(n)
      BY DEF Moves
    <2> QED
      BY <1>3, <2>1, <2>2 DEF CrMove, Live, Spent
  <1>4. ASSUME NEW i \in Ids, Spent(i) PROVE Spent(i)' /\ (Owned(i)' => Owned(i))
    BY <1>2, <1>3, <1>4 DEF CreatorMove, Spent, Owned
  <1>5. ASSUME NEW i \in Ids, Owned(i)'
        PROVE  Owned(i) \/ (creator[i].pc = "put" /\ creator'[i].pc = "k8s")
    BY <1>2, <1>3, <1>5 DEF CreatorMove, Owned, Spent
  <1> QED
    BY <1>1, <1>2, <1>3, <1>4, <1>5 DEF Stable, CreatorMove

-----------------------------------------------------------------------------
(* The parts of the inductive invariant.  ~EarlyDeletes is used in two     *)
(* places: a DeleteSandbox call starts on a settled creation, and so never *)
(* removes a record whose CR is about to be created.                       *)

Context == Inv /\ TypeOK' /\ Stable /\ ~EarlyDeletes

\* The ids that calls, events and the sweep carry are ids.
LEMMA CarriedIds ==
    ASSUME TypeOK
    PROVE  /\ \A d \in Deleters : deleter[d].pc # "idle" =>
                   /\ deleter[d].id \in Ids /\ deleter[d].rec \in Records
                   /\ deleter[d].rec.name \in Names
           /\ watcher.pc = "put" =>
                   /\ watcher.obj \in Objects /\ watcher.obj.cr.id \in Ids
                   /\ watcher.obj.name \in Names
                   /\ watcher.seen \in Records \cup {None}
           /\ \A k \in 1..Len(events) :
                   events[k] \in Events /\ events[k].obj \in Objects
                   /\ events[k].obj.cr.id \in Ids /\ events[k].obj.name \in Names
           /\ \A o \in resync : o.cr.id \in Ids /\ o.name \in Names
           /\ \A n \in Names : cr[n] # None => cr[n] \in CRs /\ cr[n].id \in Ids
           /\ \A i \in Stored : i \in Ids /\ store[i] \in Records
  <1> USE NoneAssumption
  <1>1. ASSUME NEW d \in Deleters, deleter[d].pc # "idle"
        PROVE  /\ deleter[d].id \in Ids /\ deleter[d].rec \in Records
               /\ deleter[d].rec.name \in Names
    BY <1>1 DEF TypeOK, DeleteCalls, NoCall, Records
  <1>2. ASSUME watcher.pc = "put"
        PROVE  /\ watcher.obj \in Objects /\ watcher.obj.cr.id \in Ids
               /\ watcher.obj.name \in Names
               /\ watcher.seen \in Records \cup {None}
    BY <1>2 DEF TypeOK, WatcherStates, Resting, Objects, CRs
  <1>3. ASSUME NEW k \in 1..Len(events)
        PROVE  /\ events[k] \in Events /\ events[k].obj \in Objects
               /\ events[k].obj.cr.id \in Ids /\ events[k].obj.name \in Names
    <2>1. events[k] \in Events
      BY DEF TypeOK
    <2> QED
      BY <2>1, PieceTypes
  <1>4. \A o \in resync : o.cr.id \in Ids /\ o.name \in Names
    BY DEF TypeOK, Objects, CRs
  <1>5. \A n \in Names : cr[n] # None => cr[n] \in CRs /\ cr[n].id \in Ids
    BY DEF TypeOK, CRs
  <1>6. \A i \in Stored : i \in Ids /\ store[i] \in Records
    BY DEF TypeOK, Stored
  <1> QED
    BY <1>1, <1>2, <1>3, <1>4, <1>5, <1>6

\* What Put leaves under an id: the record put, but for its age.
LEMMA PutRecord ==
    ASSUME TypeOK, NEW i \in Ids, NEW r \in Records, Put(i, r)
    PROVE  /\ store'[i] # None /\ store'[i].spec = r.spec /\ store'[i].name = r.name
           /\ store'[i].aged => store[i] # None /\ store[i].aged
           /\ \A j \in Ids \ {i} : store'[j] = store[j]
  <1> DEFINE q == [r EXCEPT !.aged = IF store[i] = None THEN FALSE ELSE store[i].aged]
  <1>1. store[i] # None => store[i].aged \in BOOLEAN
    BY DEF TypeOK, Records
  <1>2. q \in Records
    BY <1>1, PieceTypes
  <1>3. q.spec = r.spec /\ q.name = r.name /\ (q.aged => store[i] # None /\ store[i].aged)
    BY DEF Records
  <1>4. store'[i] = q /\ \A j \in Ids \ {i} : store'[j] = store[j]
    BY DEF Put, TypeOK
  <1> QED
    BY <1>2, <1>3, <1>4, NoneAssumption

\* What each step does to the store: a record is put under an id with the
\* name of its creation, aged, or removed when its id is not owned.
StorePut(i, r) ==
    /\ r \in Records
    /\ Put(i, r)
    /\ creator'[i].pc \notin {"new", "put"} /\ r.name = creator'[i].name
    /\ Owned(i)' => r.spec

StoreMove ==
    \/ UNCHANGED store /\ \A i \in Ids : Owned(i)' => Owned(i)
    \/ \E i \in Ids, r \in Records : StorePut(i, r) /\ \A j \in Ids \ {i} : Owned(j)' => Owned(j)
    \/ \E i \in Ids : /\ store' = [store EXCEPT ![i] = None]
                      /\ ~Owned(i)'
                      /\ \A j \in Ids \ {i} : Owned(j)' => Owned(j)
    \/ \E i \in Ids : /\ store[i] # None /\ creator[i].pc \in {"done", "failed"}
                      /\ store' = [store EXCEPT ![i].aged = TRUE]
                      /\ \A j \in Ids : Owned(j)' => Owned(j)

\* Every step is one of these, or leaves the store alone.
LEMMA NextStoreMove == ASSUME Context, [Next]_vars PROVE StoreMove
  <1> USE NoneAssumption
  <1>0. /\ TypeOK /\ TypeOK' /\ Stable
        /\ (UNCHANGED creator => \A i \in Ids : Owned(i)' => Owned(i))
    BY DEF Context, Inv, Stable
  <1> DEFINE Quiet == UNCHANGED <<store, creator>>
  <1>1. CASE Quiet
    BY <1>0, <1>1 DEF StoreMove
  <1>2. ASSUME NEW i \in Ids, CreateCheck(i) PROVE StoreMove
    BY <1>0, <1>2 DEF StoreMove, CreateCheck, Stable, TypeOK
  <1>3. ASSUME NEW i \in Ids, CreatePut(i) PROVE StoreMove
    <2> DEFINE r == [name |-> creator[i].name, phase |-> "Provisioning",
                     spec |-> TRUE, aged |-> FALSE]
    <2>1. creator[i].name \in Names /\ creator[i].pc = "put" /\ r \in Records
      BY <1>0, <1>3 DEF CreatePut, TypeOK, CreateCalls, Records, Phases
    <2>2. \A j \in Ids \ {i} : Owned(j)' => Owned(j)
      BY <1>0, <1>3 DEF CreatePut, CreateAs, Stable, TypeOK
    <2>3. CASE Put(i, r) /\ CreateAs(i, "k8s")
      <3>1. creator'[i].pc = "k8s" /\ creator'[i].name = creator[i].name
        BY <1>0, <2>1, <2>3 DEF CreateAs, TypeOK, CreateCalls
      <3>2. StorePut(i, r)
        BY <2>1, <2>3, <3>1 DEF StorePut
      <3> QED
        BY <2>1, <2>2, <3>2 DEF StoreMove
    <2>4. CASE CreateAs(i, "failed") /\ UNCHANGED store
      <3>1. creator'[i].pc = "failed"
        BY <1>0, <2>4 DEF CreateAs, TypeOK, CreateCalls
      <3> QED
        BY <2>2, <2>4, <3>1 DEF StoreMove, Owned
    <2> QED
      BY <1>3, <2>3, <2>4 DEF CreatePut
  <1>4. ASSUME NEW i \in Ids, CreateCR(i) \/ CreateCancelled(i) PROVE StoreMove
    <2>1. UNCHANGED store
      BY <1>4 DEF CreateCR, CreateCancelled
    <2>2. \A j \in Ids : creator'[j].pc # "k8s" \/ creator'[j] = creator[j]
      BY <1>0, <1>4 DEF CreateCR, CreateCancelled, CreateAs, TypeOK, CreateCalls
    <2>3. \A j \in Ids : Owned(j)' => Owned(j)
      BY <1>0, <2>2 DEF Stable
    <2> QED
      BY <2>1, <2>3 DEF StoreMove
  <1>5. ASSUME NEW i \in Ids, CreateRollback(i) PROVE StoreMove
    <2>1. creator'[i].pc = "failed" /\ \A j \in Ids \ {i} : creator'[j] = creator[j]
      BY <1>0, <1>5 DEF CreateRollback, CreateAs, TypeOK, CreateCalls
    <2>2. ~Owned(i)' /\ \A j \in Ids \ {i} : Owned(j)' => Owned(j)
      BY <1>0, <2>1 DEF Owned, Stable
    <2> QED
      BY <1>5, <2>2 DEF CreateRollback, StoreMove
  <1>6. ASSUME NEW i \in Ids, Age(i) PROVE StoreMove
    BY <1>0, <1>6 DEF Age, Stored, gateway, StoreMove
  <1>7. ASSUME NEW d \in Deleters, DeleteMark(d) PROVE StoreMove
    <2> DEFINE i == deleter[d].id
               r == [deleter[d].rec EXCEPT !.phase = "Deleting"]
    <2>1. deleter[d].pc # "idle"
      BY <1>7 DEF DeleteMark
    <2>2. i \in Ids /\ deleter[d].rec \in Records
      BY <1>0, <2>1, CarriedIds
    <2>3. r \in Records /\ r.name = deleter[d].rec.name /\ r.spec = deleter[d].rec.spec
      BY <2>2 DEF Records, Phases
    <2>4. /\ creator[i].pc \in {"done", "failed"}
          /\ deleter[d].rec.name = creator[i].name
          /\ Owned(i) => deleter[d].rec.spec
      BY <2>1 DEF Context, Inv, DeletersAreLate
    <2>5. UNCHANGED creator /\ (Put(i, r) \/ UNCHANGED store)
      BY <1>7 DEF DeleteMark
    <2> HIDE DEF i, r
    <2>6. PICK j \in Ids, q \in Records : j = i /\ q = r
      BY <2>2, <2>3
    <2>7. Put(j, q) => StorePut(j, q)
      BY <1>0, <2>3, <2>4, <2>5, <2>6 DEF StorePut
    <2> QED
      BY <1>0, <2>5, <2>6, <2>7 DEF StoreMove
  <1>8. ASSUME NEW d \in Deleters, DeleteForget(d) PROVE StoreMove
    <2>1. deleter[d].pc = "forget" /\ deleter[d].id \in Ids
      BY <1>0, <1>8, CarriedIds DEF DeleteForget
    <2>2. ~Owned(deleter[d].id)
      BY <2>1 DEF Context, Inv, DeletersAreLate, Owned
    <2> QED
      BY <1>0, <1>8, <2>1, <2>2 DEF DeleteForget, StoreMove
  <1>9. CASE WatchPut
    <2> DEFINE o == watcher.obj
               i == o.cr.id
               r == IF watcher.seen = None
                    THEN [name |-> o.name, phase |-> Phase(o.cr), spec |-> FALSE, aged |-> FALSE]
                    ELSE [watcher.seen EXCEPT !.phase = Phase(o.cr)]
    <2>1. watcher.pc = "put"
      BY <1>9 DEF WatchPut
    <2>2. o \in Objects /\ i \in Ids /\ o.name \in Names /\ watcher.seen \in Records \cup {None}
      BY <1>0, <2>1, CarriedIds
    <2>3. Phase(o.cr) \in Phases
      BY <2>2, PieceTypes DEF Objects
    <2>4. /\ Spent(i) /\ o.name = creator[i].name
          /\ watcher.seen # None => watcher.seen.name = o.name
          /\ Owned(i) => watcher.seen # None /\ watcher.seen.spec
      BY <2>1 DEF Context, Inv, WatcherKeepsSpec
    <2>5. r \in Records /\ r.name = creator[i].name /\ (Owned(i) => r.spec)
      BY <2>2, <2>3, <2>4 DEF Records
    <2>6. UNCHANGED creator /\ (Put(i, r) \/ UNCHANGED store)
      BY <1>9 DEF WatchPut
    <2> HIDE DEF o, i, r
    <2>7. PICK j \in Ids, q \in Records : j = i /\ q = r
      BY <2>2, <2>5
    <2>8. Put(j, q) => StorePut(j, q)
      BY <1>0, <2>4, <2>5, <2>6, <2>7 DEF StorePut, Spent
    <2> QED
      BY <1>0, <2>6, <2>7, <2>8 DEF StoreMove
  <1>10. CASE WatchDeleted
    <2>1. events # <<>> /\ Head(events) = events[1] /\ 1 \in 1..Len(events)
      BY <1>0, <1>10 DEF WatchDeleted, TypeOK
    <2>2. Head(events).obj.cr.id \in Ids /\ Dead(Head(events).obj.cr.id)
      BY <1>0, <1>10, <2>1, CarriedIds DEF WatchDeleted, Context, Inv, QueueOfCreators, GoodEvent
    <2>3. ~Owned(Head(events).obj.cr.id)
      BY <2>2 DEF Dead, Spent, Owned
    <2> QED
      BY <1>0, <1>10, <2>2, <2>3 DEF WatchDeleted, gateway, StoreMove
  <1>11. CASE SweepRemove
    <2>1. sweep.removing \in Ids /\ ~Owned(sweep.removing)
      BY <1>0, <1>11 DEF SweepRemove, TypeOK, Context, Inv, SweepIsSafe, Owned
    <2> QED
      BY <1>0, <1>11, <2>1 DEF SweepRemove, StoreMove
  <1> QED
    BY <1>1, <1>2, <1>3, <1>4, <1>5, <1>6, <1>7, <1>8, <1>9, <1>10, <1>11
    DEF Next, Create, Delete, Watch, Sweep, vars, SetCondition, Finalize, ExternalDelete,
        Relist, DeleteRead, DeleteInK8s, DeleteCancelled, WatchResync, WatchApplied,
        SweepList, SweepCheck, gateway

\* The invariants about records follow from what a step does to the store.
LEMMA RecordsPreserved ==
    ASSUME Context, StoreMove, Moves
    PROVE  (OwnedHasRecord /\ RecordOfCreator /\ AgedIsSettled)'
  <1> USE NoneAssumption
  <1>0. TypeOK /\ TypeOK' /\ Stable /\ OwnedHasRecord /\ RecordOfCreator /\ AgedIsSettled
    BY DEF Context, Inv
  <1>1. \A i \in Ids : creator[i].pc \notin {"new", "put"} =>
            /\ creator'[i].pc \notin {"new", "put"} /\ creator'[i].name = creator[i].name
            /\ creator[i].pc \in {"done", "failed"} => creator'[i].pc \in {"done", "failed"}
    BY DEF Moves, CreatorMove
  <1>2. ASSUME NEW i \in Ids, store'[i] = store[i], Owned(i)' => Owned(i)
        PROVE  /\ Owned(i)' => store'[i] # None /\ store'[i].spec
               /\ store'[i] # None => /\ creator'[i].pc \notin {"new", "put"}
                                      /\ store'[i].name = creator'[i].name
                                      /\ store'[i].aged => creator'[i].pc \in {"done", "failed"}
    BY <1>0, <1>1, <1>2 DEF OwnedHasRecord, RecordOfCreator, AgedIsSettled, Stored
  <1>3. SUFFICES ASSUME NEW i \in Ids
        PROVE  /\ Owned(i)' => store'[i] # None /\ store'[i].spec
               /\ store'[i] # None => /\ creator'[i].pc \notin {"new", "put"}
                                      /\ store'[i].name = creator'[i].name
                                      /\ store'[i].aged => creator'[i].pc \in {"done", "failed"}
    BY DEF OwnedHasRecord, RecordOfCreator, AgedIsSettled, Stored
  <1>4. CASE UNCHANGED store /\ \A j \in Ids : Owned(j)' => Owned(j)
    BY <1>2, <1>4
  <1>5. ASSUME NEW j \in Ids, NEW r \in Records, StorePut(j, r),
               \A k \in Ids \ {j} : Owned(k)' => Owned(k)
        PROVE  /\ Owned(i)' => store'[i] # None /\ store'[i].spec
               /\ store'[i] # None => /\ creator'[i].pc \notin {"new", "put"}
                                      /\ store'[i].name = creator'[i].name
                                      /\ store'[i].aged => creator'[i].pc \in {"done", "failed"}
    <2>1. /\ store'[j] # None /\ store'[j].spec = r.spec /\ store'[j].name = r.name
          /\ store'[j].aged => store[j] # None /\ store[j].aged
          /\ \A k \in Ids \ {j} : store'[k] = store[k]
      BY <1>0, <1>5, PutRecord DEF StorePut
    <2>2. CASE i # j
      BY <1>2, <1>5, <2>1, <2>2
    <2>3. CASE i = j
      BY <1>0, <1>1, <1>5, <2>1, <2>3 DEF StorePut, AgedIsSettled, Stored
    <2> QED
      BY <2>2, <2>3
  <1>6. ASSUME NEW j \in Ids, store' = [store EXCEPT ![j] = None], ~Owned(j)',
               \A k \in Ids \ {j} : Owned(k)' => Owned(k)
        PROVE  /\ Owned(i)' => store'[i] # None /\ store'[i].spec
               /\ store'[i] # None => /\ creator'[i].pc \notin {"new", "put"}
                                      /\ store'[i].name = creator'[i].name
                                      /\ store'[i].aged => creator'[i].pc \in {"done", "failed"}
    <2>1. store'[j] = None /\ \A k \in Ids \ {j} : store'[k] = store[k]
      BY <1>0, <1>6 DEF TypeOK
    <2> QED
      BY <1>2, <1>6, <2>1
  <1>7. ASSUME NEW j \in Ids, store[j] # None, creator[j].pc \in {"done", "failed"},
               store' = [store EXCEPT ![j].aged = TRUE],
               \A k \in Ids : Owned(k)' => Owned(k)
        PROVE  /\ Owned(i)' => store'[i] # None /\ store'[i].spec
               /\ store'[i] # None => /\ creator'[i].pc \notin {"new", "put"}
                                      /\ store'[i].name = creator'[i].name
                                      /\ store'[i].aged => creator'[i].pc \in {"done", "failed"}
    <2>1. store[j] \in Records
      BY <1>0, <1>7 DEF TypeOK
    <2>2. /\ store'[j] = [store[j] EXCEPT !.aged = TRUE]
          /\ \A k \in Ids \ {j} : store'[k] = store[k]
      BY <1>0, <1>7 DEF TypeOK
    <2>3. store'[j] # None /\ store'[j].spec = store[j].spec /\ store'[j].name = store[j].name
      <3>1. [store[j] EXCEPT !.aged = TRUE] \in Records
        BY <2>1, PieceTypes
      <3> QED
        BY <2>1, <2>2, <3>1 DEF Records
    <2>4. CASE i = j
      BY <1>0, <1>1, <1>7, <2>3, <2>4 DEF OwnedHasRecord, RecordOfCreator, Stored
    <2> QED
      BY <1>2, <1>7, <2>2, <2>4
  <1> QED
    BY <1>4, <1>5, <1>6, <1>7 DEF StoreMove

-----------------------------------------------------------------------------
(* The watch. *)

\* An event that is added tells of a CR as it is now, or was until now.
EventMove ==
    \/ UNCHANGED events
    \/ events' = <<>>
    \/ events # <<>> /\ events' = Tail(events)
    \/ \E n \in Names, e \in Events :
           /\ events' = Append(events, e) /\ e.obj.name = n
           /\ \/ cr'[n] # None /\ e.kind = "Applied" /\ e.obj.cr = cr'[n]
              \/ /\ cr[n] # None /\ e.kind = "Deleted" /\ e.obj.cr = cr[n]
                 /\ cr' = [cr EXCEPT ![n] = None]

ResyncMove ==
    \/ resync' \subseteq resync
    \/ \A o \in resync' : o.name \in Names /\ cr'[o.name] # None /\ o.cr = cr'[o.name]

\* A change of a CR adds the event that tells of it.
LEMMA ApplyEvent ==
    ASSUME TypeOK, NEW n \in Names, NEW c \in CRs, Apply(n, c)
    PROVE  EventMove
  <1> DEFINE e == [kind |-> "Applied", obj |-> [name |-> n, cr |-> c]]
  <1>1. e \in Events /\ e.obj.name = n /\ e.obj.cr = c /\ e.kind = "Applied"
    BY DEF Events, Objects
  <1>2. events' = Append(events, e) /\ cr'[n] = c
    BY DEF Apply, Emit, TypeOK
  <1> HIDE DEF e
  <1> QED
    BY <1>1, <1>2, NoneAssumption DEF EventMove

\* So does the removal of one.
LEMMA RemoveEvent ==
    ASSUME TypeOK, NEW n \in Names, cr[n] # None, cr' = [cr EXCEPT ![n] = None],
           Emit("Deleted", n, cr[n])
    PROVE  EventMove
  <1> DEFINE e == [kind |-> "Deleted", obj |-> [name |-> n, cr |-> cr[n]]]
  <1>1. e \in Events /\ e.obj.name = n /\ e.obj.cr = cr[n] /\ e.kind = "Deleted"
    BY DEF TypeOK, Events, Objects
  <1>2. events' = Append(events, e)
    BY DEF Emit
  <1> HIDE DEF e
  <1> QED
    BY <1>1, <1>2 DEF EventMove

\* A delete request does one or the other.
LEMMA DeleteCREvent ==
    ASSUME TypeOK, NEW n \in Names, cr[n] # None, DeleteCR(n)
    PROVE  EventMove
  <1>1. [cr[n] EXCEPT !.deleting = TRUE] \in CRs
    BY PieceTypes DEF TypeOK
  <1> QED
    BY <1>1, ApplyEvent, RemoveEvent DEF DeleteCR

\* The watch tells of every change of a CR and of nothing else, unless it is
\* set up anew, and then of every CR.
LEMMA NextEventMove == ASSUME TypeOK, [Next]_vars PROVE EventMove /\ ResyncMove
  <1> USE NoneAssumption, BoundsAssumption
  <1>1. ASSUME NEW n \in Names, SetCondition(n) PROVE EventMove /\ ResyncMove
    <2>1. PICK k \in Reported : Apply(n, [cr[n] EXCEPT !.cond = k])
      BY <1>1 DEF SetCondition
    <2>2. [cr[n] EXCEPT !.cond = k] \in CRs
      BY <1>1, PieceTypes DEF SetCondition, TypeOK
    <2> QED
      BY <1>1, <2>1, <2>2, ApplyEvent DEF SetCondition, ResyncMove
  <1>2. ASSUME NEW n \in Names, Finalize(n) \/ ExternalDelete(n) PROVE EventMove /\ ResyncMove
    BY <1>2, RemoveEvent, DeleteCREvent DEF Finalize, ExternalDelete, ResyncMove
  <1>3. CASE Relist
    BY <1>3 DEF Relist, EventMove, ResyncMove
  <1>4. ASSUME NEW i \in Ids, CreateCR(i) \/ CreateCancelled(i) PROVE EventMove /\ ResyncMove
    <2>1. creator[i].name \in Names
      BY <1>4 DEF CreateCR, CreateCancelled, TypeOK, CreateCalls
    <2>2. UNCHANGED events \/ Apply(creator[i].name, NewCR(i))
      BY <1>4 DEF CreateCR, CreateCancelled
    <2>3. CASE UNCHANGED events
      BY <1>4, <2>3 DEF CreateCR, CreateCancelled, EventMove, ResyncMove
    <2>4. CASE Apply(creator[i].name, NewCR(i))
      BY <1>4, <2>1, <2>4, ApplyEvent, PieceTypes DEF CreateCR, CreateCancelled, ResyncMove
    <2> QED
      BY <2>2, <2>3, <2>4
  <1>5. ASSUME NEW d \in Deleters, DeleteInK8s(d) PROVE EventMove /\ ResyncMove
    <2>1. deleter[d].rec.name \in Names
      BY <1>5, CarriedIds DEF DeleteInK8s
    <2> QED
      BY <1>5, <2>1, DeleteCREvent DEF DeleteInK8s, EventMove, ResyncMove
  <1>6. CASE WatchResync \/ WatchApplied \/ WatchDeleted
    BY <1>6 DEF WatchResync, WatchApplied, WatchDeleted, EventMove, ResyncMove
  <1>7. CASE UNCHANGED <<events, resync>>
    BY <1>7 DEF EventMove, ResyncMove
  <1> QED
    BY <1>1, <1>2, <1>3, <1>4, <1>5, <1>6, <1>7
    DEF Next, Create, Delete, Watch, Sweep, vars, CreateCheck, CreatePut, CreateRollback,
        Age, DeleteRead, DeleteMark, DeleteForget, DeleteCancelled, WatchPut,
        SweepList, SweepCheck, SweepRemove

\* Every event is about an id that used its creation, and a Deleted one about
\* an id that has no CR any more: names are not shared by two ids with CRs.
LEMMA QueuePreserved ==
    ASSUME Context, CrOfCreator', EventMove, ResyncMove
    PROVE  QueueOfCreators'
  <1> USE NoneAssumption
  <1>0. TypeOK /\ TypeOK' /\ Stable /\ CrOfCreator /\ QueueOfCreators
    BY DEF Context, Inv
  <1>1. ASSUME NEW e \in Events, GoodEvent(e) PROVE GoodEvent(e)'
    <2>1. e.obj.cr.id \in Ids
      BY PieceTypes
    <2> QED
      BY <1>0, <1>1, <2>1 DEF GoodEvent, Stable, Spent, Dead
  <1>2. \A o \in resync' : GoodObject(o)'
    <2>1. ASSUME NEW o \in resync PROVE GoodObject(o)'
      <3>1. o.cr.id \in Ids
        BY <1>0, CarriedIds
      <3> QED
        BY <1>0, <3>1 DEF QueueOfCreators, GoodObject, Stable, Spent
    <2>2. ASSUME NEW o \in resync', o.name \in Names, cr'[o.name] # None, o.cr = cr'[o.name]
          PROVE  GoodObject(o)'
      BY <2>2 DEF CrOfCreator, GoodObject
    <2> QED
      BY <2>1, <2>2 DEF ResyncMove
  <1>3. ASSUME NEW k \in 1..Len(events)' PROVE GoodEvent(events[k])'
    <2>1. CASE UNCHANGED events
      <3>1. events[k] \in Events /\ GoodEvent(events[k])
        BY <1>0, <2>1, CarriedIds DEF QueueOfCreators
      <3>2. PICK e \in Events : e = events[k] /\ GoodEvent(e)
        BY <3>1
      <3> QED
        BY <1>1, <2>1, <3>2
    <2>2. CASE events' = <<>>
      BY <2>2
    <2>3. CASE events # <<>> /\ events' = Tail(events)
      <3>1. k + 1 \in 1..Len(events) /\ events'[k] = events[k + 1]
        BY <1>0, <2>3 DEF TypeOK
      <3>2. events[k + 1] \in Events /\ GoodEvent(events[k + 1])
        BY <1>0, <3>1, CarriedIds DEF QueueOfCreators
      <3>3. PICK e \in Events : e = events[k + 1] /\ GoodEvent(e)
        BY <3>2
      <3>4. GoodEvent(e)' /\ events'[k] = e
        BY <1>1, <3>1, <3>3
      <3> QED
        BY <3>4
    <2>4. ASSUME NEW n \in Names, NEW e \in Events,
                 events' = Append(events, e), e.obj.name = n,
                 \/ cr'[n] # None /\ e.kind = "Applied" /\ e.obj.cr = cr'[n]
                 \/ /\ cr[n] # None /\ e.kind = "Deleted" /\ e.obj.cr = cr[n]
                    /\ cr' = [cr EXCEPT ![n] = None]
          PROVE  GoodEvent(events[k])'
      <3>1. CASE k \in 1..Len(events)
        <4>1. events[k] \in Events /\ GoodEvent(events[k]) /\ events'[k] = events[k]
          BY <1>0, <2>4, <3>1, CarriedIds DEF QueueOfCreators, TypeOK
        <4>2. PICK f \in Events : f = events[k] /\ GoodEvent(f)
          BY <4>1
        <4>3. GoodEvent(f)' /\ events'[k] = f
          BY <1>1, <4>1, <4>2
        <4> QED
          BY <4>3
      <3>2. CASE k = Len(events) + 1
        <4>1. events'[k] = e
          BY <1>0, <2>4, <3>2 DEF TypeOK
        <4>2. CASE cr'[n] # None /\ e.kind = "Applied" /\ e.obj.cr = cr'[n]
          <5>1. Spent(cr[n].id)' /\ creator'[cr'[n].id].name = n
            BY <4>2 DEF CrOfCreator
          <5>2. GoodEvent(e)'
            BY <2>4, <4>2, <5>1 DEF GoodEvent, Spent
          <5> QED
            BY <4>1, <5>2
        <4>3. CASE /\ cr[n] # None /\ e.kind = "Deleted" /\ e.obj.cr = cr[n]
                   /\ cr' = [cr EXCEPT ![n] = None]
          <5>1. PICK i \in Ids : i = cr[n].id
            BY <1>0, <4>3, CarriedIds
          <5>2. Spent(i) /\ creator[i].name = n
            BY <1>0, <4>3, <5>1 DEF CrOfCreator
          <5>3. Spent(i)' /\ creator'[i].name = n
            BY <1>0, <5>2 DEF Stable, Spent
          <5>4. ~Live(i)'
            <6> SUFFICES ASSUME NEW m \in Names, cr'[m] # None, cr'[m].id = i PROVE FALSE
              BY DEF Live
            <6>1. creator'[i].name = m
              BY DEF CrOfCreator
            <6>2. cr'[n] = None
              BY <1>0, <4>3 DEF TypeOK
            <6> QED
              BY <5>3, <6>1, <6>2
          <5>5. GoodEvent(e)'
            BY <2>4, <4>3, <5>1, <5>3, <5>4 DEF GoodEvent, Dead
          <5> QED
            BY <4>1, <5>5
        <4> QED
          BY <2>4, <4>2, <4>3
      <3>3. k \in 1..Len(events) \/ k = Len(events) + 1
        BY <1>0, <2>4 DEF TypeOK
      <3> QED
        BY <3>1, <3>2, <3>3
    <2> QED
      BY <2>1, <2>2, <2>3, <2>4 DEF EventMove
  <1> QED
    BY <1>2, <1>3 DEF QueueOfCreators

-----------------------------------------------------------------------------
(* What the watcher, the deletions and the sweep carry between two steps.  *)

\* The record the watcher has read and will write back has the spec of an
\* owned sandbox, whatever ran since it was read.
LEMMA WatcherPreserved ==
    ASSUME Context, [Next]_vars
    PROVE  WatcherKeepsSpec'
  <1> USE NoneAssumption
  <1>0. /\ TypeOK /\ TypeOK' /\ Stable /\ OwnedHasRecord /\ RecordOfCreator
        /\ QueueOfCreators /\ WatcherKeepsSpec
    BY DEF Context, Inv
  <1>1. CASE UNCHANGED watcher
    <2> SUFFICES ASSUME watcher.pc = "put"
                 PROVE  WatcherKeepsSpec'
      BY <1>1 DEF WatcherKeepsSpec
    <2>1. PICK i \in Ids : i = watcher.obj.cr.id
      BY <1>0, CarriedIds
    <2>2. /\ Spent(i) /\ watcher.obj.name = creator[i].name
          /\ watcher.seen # None => watcher.seen.name = watcher.obj.name
          /\ Owned(i) => watcher.seen # None /\ watcher.seen.spec
      BY <1>0, <2>1 DEF WatcherKeepsSpec
    <2>3. Spent(i)' /\ creator'[i].name = creator[i].name /\ (Owned(i)' => Owned(i))
      BY <1>0, <2>2 DEF Stable, Spent
    <2> QED
      BY <1>1, <2>1, <2>2, <2>3 DEF WatcherKeepsSpec
  <1>2. CASE watcher' = Resting
    BY <1>2 DEF WatcherKeepsSpec, Resting
  <1>3. ASSUME NEW o \in Objects, GoodObject(o), Handle(o)
        PROVE  WatcherKeepsSpec'
    <2>1. PICK i \in Ids : i = o.cr.id
      BY DEF Objects, CRs
    <2>2. Spent(i) /\ o.name = creator[i].name
      BY <1>3, <2>1 DEF GoodObject
    <2>3. Spent(i)' /\ creator'[i].name = creator[i].name /\ (Owned(i)' => Owned(i))
      BY <1>0, <2>2 DEF Stable, Spent
    <2>4. store[i] # None => store[i].name = o.name
      BY <1>0, <2>2 DEF RecordOfCreator, Stored
    <2>5. Owned(i) => store[i] # None /\ store[i].spec
      BY <1>0 DEF OwnedHasRecord
    <2>6. watcher'.obj = o /\ watcher'.seen = store[i]
      BY <1>3, <2>1 DEF Handle
    <2> QED
      BY <2>1, <2>2, <2>3, <2>4, <2>5, <2>6 DEF WatcherKeepsSpec
  <1>4. CASE WatchResync
    <2>1. PICK o \in resync : Handle(o)
      BY <1>4 DEF WatchResync
    <2>2. o \in Objects /\ GoodObject(o)
      BY <1>0 DEF TypeOK, QueueOfCreators
    <2> QED
      BY <1>3, <2>1, <2>2
  <1>5. CASE WatchApplied
    <2>1. Head(events) = events[1] /\ 1 \in 1..Len(events)
      BY <1>0, <1>5 DEF WatchApplied, TypeOK
    <2>2. PICK o \in Objects : o = events[1].obj /\ GoodObject(o)
      BY <1>0, <2>1, CarriedIds DEF QueueOfCreators, GoodEvent, GoodObject
    <2>3. Handle(o)
      BY <1>5, <2>1, <2>2 DEF WatchApplied
    <2> QED
      BY <1>3, <2>2, <2>3
  <1>6. CASE WatchPut
    BY <1>2, <1>6 DEF WatchPut
  <1> QED
    BY <1>1, <1>4, <1>5, <1>6
    DEF Next, Create, Delete, Watch, Sweep, vars, gateway, SetCondition, Finalize,
        ExternalDelete, Relist, CreateCheck, CreatePut, CreateCR, CreateRollback,
        CreateCancelled, Age, DeleteRead, DeleteMark, DeleteInK8s, DeleteForget,
        DeleteCancelled, WatchDeleted, SweepList, SweepCheck, SweepRemove

\* A name without a CR means an id of that name without one.
LEMMA NoCrNotLive ==
    ASSUME CrOfCreator, NEW i \in Ids, cr[creator[i].name] = None
    PROVE  ~Live(i)
  BY DEF CrOfCreator, Live

GoodDelete(c) ==
    c.pc # "idle" =>
        /\ creator[c.id].pc \in {"done", "failed"}
        /\ c.rec.name = creator[c.id].name
        /\ Owned(c.id) => c.rec.spec
        /\ c.pc = "forget" => ~Live(c.id)

\* A DeleteSandbox call works on a settled creation, and removes the record
\* itself only when its CR is gone for good.
LEMMA DeletersPreserved ==
    ASSUME Context, [Next]_vars
    PROVE  DeletersAreLate'
  <1> USE NoneAssumption
  <1>0. /\ TypeOK /\ TypeOK' /\ Stable /\ CrOfCreator /\ OwnedHasRecord
        /\ RecordOfCreator /\ DeletersAreLate /\ ~EarlyDeletes
    BY DEF Context, Inv
  <1> SUFFICES ASSUME NEW d \in Deleters PROVE GoodDelete(deleter[d])'
    BY DEF DeletersAreLate, GoodDelete
  <1>1. CASE deleter'[d] = deleter[d]
    <2> SUFFICES ASSUME deleter[d].pc # "idle" PROVE GoodDelete(deleter[d])'
      BY <1>1 DEF GoodDelete
    <2>1. PICK i \in Ids : i = deleter[d].id
      BY <1>0, CarriedIds
    <2>2. /\ creator[i].pc \in {"done", "failed"} /\ deleter[d].rec.name = creator[i].name
          /\ Owned(i) => deleter[d].rec.spec
          /\ deleter[d].pc = "forget" => ~Live(i)
      BY <1>0, <2>1 DEF DeletersAreLate
    <2>3. /\ creator'[i].pc = creator[i].pc /\ creator'[i].name = creator[i].name
          /\ (Owned(i)' => Owned(i)) /\ (Live(i)' => Live(i))
      BY <1>0, <2>2 DEF Stable, Spent
    <2> QED
      BY <1>1, <2>1, <2>2, <2>3 DEF GoodDelete
  <1>2. CASE deleter'[d] = NoCall
    BY <1>2 DEF GoodDelete, NoCall
  <1>3. ASSUME DeleteRead(d) PROVE GoodDelete(deleter[d])'
    <2>1. PICK i \in Stored : /\ creator[i].pc \in {"done", "failed"}
                              /\ deleter'[d] = [pc |-> "mark", id |-> i, rec |-> store[i]]
      BY <1>0, <1>3 DEF DeleteRead, TypeOK
    <2>2. i \in Ids /\ store[i].name = creator[i].name /\ (Owned(i) => store[i].spec)
      BY <1>0 DEF RecordOfCreator, OwnedHasRecord, Stored
    <2>3. /\ creator'[i].pc = creator[i].pc /\ creator'[i].name = creator[i].name
          /\ (Owned(i)' => Owned(i))
      BY <1>0, <2>1, <2>2 DEF Stable, Spent
    <2> QED
      BY <2>1, <2>2, <2>3 DEF GoodDelete
  <1>4. ASSUME DeleteMark(d), DeleteAs(d, "k8s") PROVE GoodDelete(deleter[d])'
    <2>1. PICK i \in Ids : i = deleter[d].id /\ deleter[d].pc = "mark"
      BY <1>0, <1>4, CarriedIds DEF DeleteMark
    <2>2. /\ creator[i].pc \in {"done", "failed"} /\ deleter[d].rec.name = creator[i].name
          /\ Owned(i) => deleter[d].rec.spec
      BY <1>0, <2>1 DEF DeletersAreLate
    <2>3. /\ creator'[i].pc = creator[i].pc /\ creator'[i].name = creator[i].name
          /\ (Owned(i)' => Owned(i))
      BY <1>0, <2>2 DEF Stable, Spent
    <2>4. /\ deleter'[d].pc = "k8s" /\ deleter'[d].id = i
          /\ deleter'[d].rec = deleter[d].rec
      BY <1>0, <1>4, <2>1 DEF DeleteAs, TypeOK, DeleteCalls, NoCall
    <2> QED
      BY <2>2, <2>3, <2>4 DEF GoodDelete
  <1>5. ASSUME DeleteInK8s(d), cr[deleter[d].rec.name] = None, DeleteAs(d, "forget")
        PROVE  GoodDelete(deleter[d])'
    <2>1. PICK i \in Ids : i = deleter[d].id /\ deleter[d].pc = "k8s"
      BY <1>0, <1>5, CarriedIds DEF DeleteInK8s
    <2>2. /\ creator[i].pc \in {"done", "failed"} /\ deleter[d].rec.name = creator[i].name
          /\ Owned(i) => deleter[d].rec.spec
      BY <1>0, <2>1 DEF DeletersAreLate
    <2>3. ~Live(i)
      BY <1>0, <1>5, <2>2, NoCrNotLive
    <2>4. /\ creator'[i].pc = creator[i].pc /\ creator'[i].name = creator[i].name
          /\ (Owned(i)' => Owned(i)) /\ ~Live(i)'
      BY <1>0, <2>2, <2>3 DEF Stable, Spent
    <2>5. /\ deleter'[d].pc = "forget" /\ deleter'[d].id = i
          /\ deleter'[d].rec = deleter[d].rec
      BY <1>0, <1>5, <2>1 DEF DeleteAs, TypeOK, DeleteCalls, NoCall
    <2> QED
      BY <2>2, <2>4, <2>5 DEF GoodDelete
  <1>6. ASSUME NEW c \in Deleters,
               DeleteRead(c) \/ Delete(c) \/ DeleteCancelled(c)
        PROVE  GoodDelete(deleter[d])'
    <2>1. CASE c # d
      BY <1>0, <1>1, <1>6, <2>1
      DEF Delete, DeleteRead, DeleteMark, DeleteInK8s, DeleteForget, DeleteCancelled,
          DeleteAs, DeleteReturns, TypeOK
    <2>2. CASE c = d
      <3>1. DeleteReturns(d) => deleter'[d] = NoCall
        BY <1>0 DEF DeleteReturns, TypeOK
      <3> QED
        BY <1>2, <1>3, <1>4, <1>5, <1>6, <2>2, <3>1
        DEF Delete, DeleteMark, DeleteInK8s, DeleteForget, DeleteCancelled
    <2> QED
      BY <2>1, <2>2
  <1>7. UNCHANGED deleter => GoodDelete(deleter[d])'
    BY <1>1
  <1> QED
    BY <1>6, <1>7
    DEF Next, Create, Watch, Sweep, vars, gateway, SetCondition, Finalize,
        ExternalDelete, Relist, CreateCheck, CreatePut, CreateCR, CreateRollback,
        CreateCancelled, Age, WatchResync, WatchApplied, WatchPut, WatchDeleted,
        SweepList, SweepCheck, SweepRemove

\* The record the reconciler decided to remove stays an orphan until it does.
LEMMA SweepPreserved ==
    ASSUME Context, [Next]_vars
    PROVE  SweepIsSafe'
  <1> USE NoneAssumption
  <1>0. TypeOK /\ TypeOK' /\ Stable /\ CrOfCreator /\ AgedIsSettled /\ SweepIsSafe
    BY DEF Context, Inv
  <1>1. \A i \in Ids : creator[i].pc \in {"done", "failed"} =>
            creator'[i].pc \in {"done", "failed"} /\ (Live(i)' => Live(i))
    BY <1>0 DEF Stable, Spent
  <1>2. sweep.todo \subseteq Ids /\ sweep.removing \in Ids \cup {None}
    BY <1>0 DEF TypeOK
  <1>3. CASE UNCHANGED sweep
    <2>1. \A i \in sweep'.todo : creator'[i].pc \in {"done", "failed"}
      BY <1>0, <1>1, <1>2, <1>3 DEF SweepIsSafe
    <2>2. ASSUME sweep'.removing # None
          PROVE  creator'[sweep'.removing].pc \in {"done", "failed"} /\ ~Live(sweep.removing)'
      <3>1. PICK i \in Ids : i = sweep.removing
        BY <1>2, <1>3, <2>2
      <3>2. creator[i].pc \in {"done", "failed"} /\ ~Live(i)
        BY <1>0, <3>1 DEF SweepIsSafe
      <3>3. creator'[i].pc \in {"done", "failed"} /\ ~Live(i)' /\ i = sweep'.removing
        BY <1>1, <1>3, <3>1, <3>2
      <3> QED
        BY <3>3
    <2> QED
      BY <2>1, <2>2 DEF SweepIsSafe
  <1>4. CASE SweepList
    <2>1. sweep'.removing = None /\ UNCHANGED creator
          /\ \A i \in sweep'.todo : i \in Stored /\ store[i].aged
      BY <1>4 DEF SweepList, Orphaned
    <2> QED
      BY <1>0, <2>1 DEF SweepIsSafe, AgedIsSettled
  <1>5. ASSUME NEW i \in Ids, SweepCheck(i) PROVE SweepIsSafe'
    <2>1. /\ i \in sweep.todo /\ UNCHANGED <<creator, cr>>
          /\ sweep'.todo \subseteq sweep.todo
          /\ sweep'.removing # None => sweep'.removing = i /\ cr[creator[i].name] = None
      BY <1>5 DEF SweepCheck
    <2>2. creator[i].pc \in {"done", "failed"}
      BY <1>0, <2>1 DEF SweepIsSafe
    <2>3. sweep'.removing # None => ~Live(i)'
      BY <1>0, <2>1, NoCrNotLive DEF Live
    <2> QED
      BY <1>0, <2>1, <2>2, <2>3 DEF SweepIsSafe
  <1>6. CASE SweepRemove
    <2>1. sweep'.removing = None /\ sweep'.todo = sweep.todo /\ UNCHANGED creator
      BY <1>2, <1>6, <1>0 DEF SweepRemove, TypeOK
    <2> QED
      BY <1>0, <2>1 DEF SweepIsSafe
  <1> QED
    BY <1>3, <1>4, <1>5, <1>6
    DEF Next, Create, Delete, Watch, Sweep, vars, gateway, SetCondition, Finalize,
        ExternalDelete, Relist, CreateCheck, CreatePut, CreateCR, CreateRollback,
        CreateCancelled, Age, DeleteRead, DeleteMark, DeleteInK8s, DeleteForget,
        DeleteCancelled, WatchResync, WatchApplied, WatchPut, WatchDeleted

-----------------------------------------------------------------------------
(* The theorems. *)

\* Every variable keeps its type: in particular a sandbox that is created
\* always has a name, and calls and the watcher carry complete records.
THEOREM TypeCorrect == Spec => []TypeOK
  BY InitTypeOK, NextTypeOK, PTL DEF Spec

\* The initial state satisfies the inductive invariant.
LEMMA InitInv == Init => Inv
  <1> SUFFICES ASSUME Init PROVE Inv
    OBVIOUS
  <1> USE NoneAssumption DEF Init
  <1>1. TypeOK
    BY InitTypeOK
  <1>2. CrOfCreator /\ OwnedHasRecord /\ RecordOfCreator /\ AgedIsSettled
    BY DEF CrOfCreator, OwnedHasRecord, RecordOfCreator, AgedIsSettled, Stored, Owned
  <1>3. QueueOfCreators
    BY DEF QueueOfCreators
  <1>4. WatcherKeepsSpec /\ DeletersAreLate /\ SweepIsSafe
    BY DEF WatcherKeepsSpec, DeletersAreLate, SweepIsSafe, Resting, NoCall
  <1> QED
    BY <1>1, <1>2, <1>3, <1>4 DEF Inv

\* Every step keeps the inductive invariant, unless clients delete a sandbox
\* that is still being created.
LEMMA NextInv == ~EarlyDeletes /\ Inv /\ [Next]_vars => Inv'
  <1> SUFFICES ASSUME ~EarlyDeletes, Inv, [Next]_vars PROVE Inv'
    OBVIOUS
  <1>1. TypeOK /\ CrOfCreator
    BY DEF Inv
  <1>2. TypeOK'
    BY <1>1, NextTypeOK
  <1>3. Moves
    BY <1>1, NextMoves
  <1>4. Stable /\ CrOfCreator'
    BY <1>1, <1>2, <1>3, StableStep
  <1>5. Context
    BY <1>2, <1>4 DEF Context
  <1>6. (OwnedHasRecord /\ RecordOfCreator /\ AgedIsSettled)'
    BY <1>3, <1>5, NextStoreMove, RecordsPreserved
  <1>7. QueueOfCreators'
    BY <1>1, <1>4, <1>5, NextEventMove, QueuePreserved
  <1>8. WatcherKeepsSpec' /\ DeletersAreLate' /\ SweepIsSafe'
    BY <1>5, WatcherPreserved, DeletersPreserved, SweepPreserved
  <1> QED
    BY <1>2, <1>4, <1>6, <1>7, <1>8 DEF Inv

\* When clients delete a sandbox only after CreateSandbox has answered, a
\* running sandbox whose creation was acknowledged has its record and its spec,
\* whatever the Kubernetes calls, the watch and the reconciler do.
THEOREM RunningKeepsRecord == ~EarlyDeletes /\ Spec => []RunningHasRecord
  <1> SUFFICES ASSUME ~EarlyDeletes PROVE Spec => []RunningHasRecord
    OBVIOUS
  <1>1. Inv => RunningHasRecord
    BY NoneAssumption
    DEF Inv, TypeOK, CRs, OwnedHasRecord, Owned, Live, RunningHasRecord
  <1>2. Inv /\ [Next]_vars => Inv'
    BY NextInv
  <1> QED
    BY <1>1, <1>2, InitInv, PTL DEF Spec

\* Under the same condition the reconciler never decides to remove the record
\* of a sandbox that has a CR.
THEOREM ReconcilerSafe == ~EarlyDeletes /\ Spec => []ReconcilerSparesLive
  <1> SUFFICES ASSUME ~EarlyDeletes PROVE Spec => []ReconcilerSparesLive
    OBVIOUS
  <1>1. Inv => ReconcilerSparesLive
    BY NoneAssumption
    DEF Inv, TypeOK, CRs, SweepIsSafe, Live, ReconcilerSparesLive
  <1>2. Inv /\ [Next]_vars => Inv'
    BY NextInv
  <1> QED
    BY <1>1, <1>2, InitInv, PTL DEF Spec
=============================================================================
