--------------------------- MODULE BinaryIdentity ---------------------------
(***************************************************************************)
(* The trust-on-first-use cache of binary hashes (openshell-sandbox,       *)
(* identity.rs).  verify_or_cache stats the file, looks the path up under  *)
(* the lock, hashes the file without the lock and inserts under the lock   *)
(* again: blocking threads run it concurrently, and processes in the       *)
(* sandbox replace files at any time.                                      *)
(***************************************************************************)
EXTENDS Integers

CONSTANTS
    Calls,     \* concurrent calls of verify_or_cache
    Paths,     \* paths of binaries
    Hashes,    \* SHA256 digests
    None,      \* no file, no cache entry, no argument
    MaxWrites  \* bound on replacements of files

\* A fingerprint (length, mtime, ctime, device, inode) is abstracted to the
\* number of the write that made the file: ctime never repeats.
Files == [hash : Hashes, print : Nat]

ASSUME IdentityAssumption ==
    /\ None \notin Paths \cup Hashes \cup Files
    /\ MaxWrites \in Nat

VARIABLES
    file,    \* [Paths -> Files or None], what is on disk
    writes,  \* number of writes so far
    cache,   \* [Paths -> Files or None], BinaryIdentityCache.hashes
    check    \* [Calls -> what a call has seen]

identityVars == <<file, writes, cache, check>>

Unused == [pc |-> "idle", path |-> None, print |-> 0, hash |-> None]
CheckAs(c, pc) == check' = [check EXCEPT ![c].pc = pc]

-----------------------------------------------------------------------------
(* The file system. *)

Write(p) ==
    /\ writes < MaxWrites
    /\ \E h \in Hashes : file' = [file EXCEPT ![p] = [hash |-> h, print |-> writes + 1]]
    /\ writes' = writes + 1
    /\ UNCHANGED <<cache, check>>

Unlink(p) ==
    /\ writes < MaxWrites /\ file[p] # None
    /\ file' = [file EXCEPT ![p] = None]
    /\ writes' = writes + 1
    /\ UNCHANGED <<cache, check>>

-----------------------------------------------------------------------------
(* verify_or_cache_with_hasher *)

Stat(c, p) ==
    /\ check[c].pc = "idle"
    /\ check' = [check EXCEPT ![c] =
           IF file[p] = None
           THEN [Unused EXCEPT !.pc = "failed", !.path = p]
           ELSE [Unused EXCEPT !.pc = "lookup", !.path = p, !.print = file[p].print]]
    /\ UNCHANGED <<file, writes, cache>>

\* The fingerprint is the cached one: a hit.
Lookup(c) ==
    LET entry == cache[check[c].path] IN
    /\ check[c].pc = "lookup"
    /\ \/ /\ entry # None /\ entry.print = check[c].print
          /\ check' = [check EXCEPT ![c].pc = "ok", ![c].hash = entry.hash]
       \/ /\ entry # None => entry.print # check[c].print
          /\ CheckAs(c, "hash")
    /\ UNCHANGED <<file, writes, cache>>

\* A file written since it was stat'ed may be read in any mixture of its
\* contents.
HashFile(c) ==
    LET f == file[check[c].path] IN
    /\ check[c].pc = "hash"
    /\ \/ f = None /\ CheckAs(c, "failed")
       \/ /\ f # None
          /\ \E h \in Hashes :
                 /\ f.print = check[c].print => h = f.hash
                 /\ check' = [check EXCEPT ![c].pc = "insert", ![c].hash = h]
    /\ UNCHANGED <<file, writes, cache>>

\* Mutation: the cached hash is not compared.
MUT_InsertReplace(c) ==
    /\ check[c].pc = "insert"
    /\ cache' = [cache EXCEPT ![check[c].path] =
           [hash |-> check[c].hash, print |-> check[c].print]]
    /\ CheckAs(c, "ok")
    /\ UNCHANGED <<file, writes>>

\* Mutation: the fingerprint is taken when the entry is inserted.
MUT_InsertLate(c) ==
    LET p == check[c].path IN
    /\ check[c].pc = "insert"
    /\ \/ /\ cache[p] # None /\ cache[p].hash # check[c].hash
          /\ CheckAs(c, "failed") /\ UNCHANGED cache
       \/ /\ cache[p] # None => cache[p].hash = check[c].hash
          /\ cache' = [cache EXCEPT ![p] =
                 [hash |-> check[c].hash,
                  print |-> IF file[p] = None THEN check[c].print ELSE file[p].print]]
          /\ CheckAs(c, "ok")
    /\ UNCHANGED <<file, writes>>

\* Compared and inserted under one lock; the fingerprint is the one of the
\* stat before the hashing.
Insert(c) ==
    LET p == check[c].path IN
    /\ check[c].pc = "insert"
    /\ \/ /\ cache[p] # None /\ cache[p].hash # check[c].hash
          /\ CheckAs(c, "failed") /\ UNCHANGED cache
       \/ /\ cache[p] # None => cache[p].hash = check[c].hash
          /\ cache' = [cache EXCEPT ![p] = [hash |-> check[c].hash, print |-> check[c].print]]
          /\ CheckAs(c, "ok")
    /\ UNCHANGED <<file, writes>>

Return(c) ==
    /\ check[c].pc \in {"ok", "failed"}
    /\ check' = [check EXCEPT ![c] = Unused]
    /\ UNCHANGED <<file, writes, cache>>

-----------------------------------------------------------------------------
IdentityInit ==
    /\ writes = 0
    /\ file \in [Paths -> [hash : Hashes, print : {0}]]
    /\ cache = [p \in Paths |-> None]
    /\ check = [c \in Calls |-> Unused]

FileSystem == \E p \in Paths : Write(p) \/ Unlink(p)
Verify(c) == Lookup(c) \/ HashFile(c) \/ Insert(c)

IdentityNext ==
    \/ FileSystem
    \/ \E c \in Calls : (\E p \in Paths : Stat(c, p)) \/ Verify(c) \/ Return(c)

IdentitySpec == IdentityInit /\ [][IdentityNext]_identityVars

-----------------------------------------------------------------------------
Checks ==
    {Unused} \cup
    [pc : {"lookup", "hash", "insert", "ok", "failed"}, path : Paths, print : Nat,
     hash : Hashes \cup {None}]

\* Files, cache and calls stay in their types; a call that has finished well
\* or is about to insert has a hash.
IdentityTypeOK ==
    /\ writes \in Nat
    /\ file \in [Paths -> Files \cup {None}]
    /\ cache \in [Paths -> Files \cup {None}]
    /\ check \in [Calls -> Checks]
    /\ \A c \in Calls : check[c].pc \in {"insert", "ok"} => check[c].hash \in Hashes

\* The hash recorded on the first use of a binary is never replaced, whatever
\* calls race to insert and however often the file changes (architecture
\* README: "If the binary changes later, subsequent requests are denied").
GoldenHash ==
    [][\A p \in Paths :
           cache[p] # None => cache'[p] # None /\ cache'[p].hash = cache[p].hash]_identityVars

\* A call that accepts a path accepts the golden hash, and if the file has not
\* changed since the call's stat, that hash is the hash of the file: no entry
\* pairs an old hash with a newer fingerprint, so no hit hides a replacement.
AcceptedIsGenuine ==
    \A c \in Calls :
        check[c].pc = "ok" =>
            LET p == check[c].path IN
            /\ cache[p] # None /\ cache[p].hash = check[c].hash
            /\ file[p] # None /\ file[p].print = check[c].print =>
                   file[p].hash = check[c].hash
=============================================================================
