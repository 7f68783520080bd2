---------------------------- MODULE ObjectStore ----------------------------
(***************************************************************************)
(* The gateway's Store as its handlers share it (persistence/mod.rs, and   *)
(* postgres.rs, whose statements are those of sqlite.rs): a table of       *)
(* objects with a primary key and a name that is unique within a type, and *)
(* the numbered policy revisions of a sandbox.  A statement is atomic, a   *)
(* handler is not: writers put back what they read, deletions and          *)
(* creations come in between, and clients walk through a table page by     *)
(* page while all of that goes on.  The clock that stamps the rows may be  *)
(* set back.                                                               *)
(***************************************************************************)
EXTENDS Integers, FiniteSets

CONSTANTS
    ObjIds,        \* primary keys
    ObjNames,      \* names, as integers in their textual order
    ObjTypes,      \* object types
    ObjWriters,    \* handlers that read a record and put it back
    ObjWalkers,    \* clients that list a table page by page
    ObjPageSize,   \* rows of a page
    MaxClock,      \* readings of the clock
    MaxPolRows     \* policy revisions

ASSUME StoreAssumption ==
    /\ ObjNames \subseteq Int /\ ObjTypes \cap {"none", "policies"} = {}
    /\ ObjPageSize \in Nat \ {0} /\ MaxClock \in Nat /\ MaxPolRows \in Nat

VARIABLES
    objects,   \* id -> row
    polRows,   \* the versions of one sandbox's policy revisions
    now,       \* the clock
    writers,   \* what each handler has read
    walks      \* how far each walk has come

objVars == <<objects, polRows, now, writers, walks>>

NoRow == [type |-> "none", name |-> 0, created |-> 0, updated |-> 0]
NotWriting == [on |-> FALSE, id |-> CHOOSE i \in ObjIds : TRUE, type |-> "none", name |-> 0]
NotWalking == [table |-> "none", offset |-> 0, seen |-> {}, there |-> {}, ended |-> FALSE]

ObjInit ==
    /\ objects = [i \in ObjIds |-> NoRow] /\ polRows = {} /\ now = 0
    /\ writers = [w \in ObjWriters |-> NotWriting]
    /\ walks = [c \in ObjWalkers |-> NotWalking]

----------------------------------------------------------------------------
\* The statements.

ListedIds(type) == {i \in ObjIds : objects[i].type = type}

NamedIds(type, name) == {i \in ListedIds(type) : objects[i].name = name}

\* ORDER BY updated_at_ms instead of created_at_ms.
MUT_Before(a, b) ==
    \/ objects[a].updated < objects[b].updated
    \/ objects[a].updated = objects[b].updated /\ objects[a].name < objects[b].name

\* ORDER BY created_at_ms, name
Before(a, b) ==
    \/ objects[a].created < objects[b].created
    \/ objects[a].created = objects[b].created /\ objects[a].name < objects[b].name

Rows(table) == IF table = "policies" THEN polRows ELSE ListedIds(table)

\* list_policies: the newest version first.
Ahead(table, a, b) == IF table = "policies" THEN a > b ELSE Before(a, b)

\* The place of a row in the sorted answer: the number of rows ahead of it.
Rank(table, r) == Cardinality({x \in Rows(table) : Ahead(table, x, r)})

\* LIMIT and OFFSET
Page(table, offset) == {r \in Rows(table) : Rank(table, r) \in offset..(offset + ObjPageSize - 1)}

\* INSERT ... ON CONFLICT (id) DO UPDATE: a row of this id keeps its name and the
\* time of its creation; a name that another row of the type has is an error.
PutStatement(id, type, name) ==
    IF objects[id] # NoRow THEN objects' = [objects EXCEPT ![id].updated = now]
    ELSE IF NamedIds(type, name) # {} THEN UNCHANGED objects
    ELSE objects' = [objects EXCEPT ![id] =
                        [type |-> type, name |-> name, created |-> now, updated |-> now]]

\* Rows that go move the later ones to earlier pages: a walk over their table is
\* promised nothing any more.
DeleteRows(ids) ==
    /\ objects' = [i \in ObjIds |-> IF i \in ids THEN NoRow ELSE objects[i]]
    /\ walks' = [c \in ObjWalkers |->
           IF \E i \in ids : objects[i].type = walks[c].table /\ ~walks[c].ended
           THEN [walks[c] EXCEPT !.there = {}] ELSE walks[c]]

----------------------------------------------------------------------------
\* The handlers.

\* A record with a new id is stored.
CreateObject(id, type, name) ==
    /\ objects[id] = NoRow
    /\ \A w \in ObjWriters : ~(writers[w].on /\ writers[w].id = id)
    /\ PutStatement(id, type, name)
    /\ UNCHANGED <<polRows, now, writers, walks>>

\* get or get_by_name; the record goes back under the id and the name it had.
ReadObject(w, id) ==
    /\ ~writers[w].on /\ objects[id] # NoRow
    /\ writers' = [writers EXCEPT ![w] =
          [on |-> TRUE, id |-> id, type |-> objects[id].type, name |-> objects[id].name]]
    /\ UNCHANGED <<objects, polRows, now, walks>>

\* put_message: it stores the record again if it was deleted meanwhile.
PutBack(w) ==
    /\ writers[w].on
    /\ PutStatement(writers[w].id, writers[w].type, writers[w].name)
    /\ writers' = [writers EXCEPT ![w] = NotWriting]
    /\ UNCHANGED <<polRows, now, walks>>

DeleteObject(id) ==
    /\ objects[id] # NoRow
    /\ DeleteRows({id})
    /\ UNCHANGED <<polRows, now, writers>>

DeleteObjectByName(type, name) ==
    /\ NamedIds(type, name) # {}
    /\ DeleteRows(NamedIds(type, name))
    /\ UNCHANGED <<polRows, now, writers>>

\* put_policy_revision of the version after the latest.
PutPolicyRevision ==
    /\ Cardinality(polRows) < MaxPolRows
    /\ polRows' = polRows \cup {Cardinality(polRows) + 1}
    /\ UNCHANGED <<objects, now, writers, walks>>

SetClock ==
    /\ \E t \in (0..MaxClock) \ {now} : now' = t
    /\ UNCHANGED <<objects, polRows, writers, walks>>

----------------------------------------------------------------------------
\* The walks.

StartWalk(c, table) ==
    /\ walks[c].table = "none"
    /\ walks' = [walks EXCEPT ![c] = [NotWalking EXCEPT !.table = table, !.there = Rows(table)]]
    /\ UNCHANGED <<objects, polRows, now, writers>>

\* A short page is the last one.
ReadPage(c) ==
    /\ walks[c].table # "none" /\ ~walks[c].ended
    /\ LET walk == walks[c]
           page == Page(walk.table, walk.offset)
       IN walks' = [walks EXCEPT ![c] =
              [walk EXCEPT !.seen = walk.seen \cup (page \cap walk.there),
                           !.offset = walk.offset + ObjPageSize,
                           !.ended = Cardinality(page) < ObjPageSize]]
    /\ UNCHANGED <<objects, polRows, now, writers>>

LeaveWalk(c) ==
    /\ walks[c].table # "none"
    /\ walks' = [walks EXCEPT ![c] = NotWalking]
    /\ UNCHANGED <<objects, polRows, now, writers>>

----------------------------------------------------------------------------

ObjNext ==
    \/ \E i \in ObjIds, t \in ObjTypes, n \in ObjNames : CreateObject(i, t, n)
    \/ \E w \in ObjWriters, i \in ObjIds : ReadObject(w, i)
    \/ \E w \in ObjWriters : PutBack(w)
    \/ \E i \in ObjIds : DeleteObject(i)
    \/ \E t \in ObjTypes, n \in ObjNames : DeleteObjectByName(t, n)
    \/ PutPolicyRevision \/ SetClock
    \/ \E c \in ObjWalkers, t \in ObjTypes \cup {"policies"} : StartWalk(c, t)
    \/ \E c \in ObjWalkers : ReadPage(c) \/ LeaveWalk(c)

ObjSpec == ObjInit /\ [][ObjNext]_objVars

ObjTypeOK ==
    /\ objects \in [ObjIds -> [type : ObjTypes \cup {"none"}, name : ObjNames \cup {0},
                               created : 0..MaxClock, updated : 0..MaxClock]]
    /\ polRows \subseteq 1..MaxPolRows /\ now \in 0..MaxClock
    /\ \A c \in ObjWalkers : walks[c].table \in ObjTypes \cup {"policies", "none"}

----------------------------------------------------------------------------

\* A client that has listed a table to its end has seen every row that was
\* there when it began, whatever was created and put back meanwhile and
\* wherever the clock was set, as long as no row was deleted: an update never
\* moves a row to another page, and a new row only pushes others to later ones.
WalkMissesNothing ==
    \A c \in ObjWalkers :
        walks[c].ended => walks[c].there \subseteq walks[c].seen

\* However writers, creations and clock changes interleave with a walk, the rows
\* are well formed and the walk misses nothing that was there.
StoreSound == ObjTypeOK /\ WalkMissesNothing
=============================================================================
