-------------------------- MODULE EgressProxyProofs --------------------------
(***************************************************************************)
(* Proofs about the cache of binary hashes (BinaryIdentity), for any       *)
(* number of concurrent calls, paths, hashes and replacements of files;    *)
(* then that the proxy uses the cache as BinaryIdentity says, for any      *)
(* policies, destinations, chains of processes and connections, so that    *)
(* what is proved of the cache holds under the proxy; and that on an       *)
(* inspected connection (L7Framing) client, relay and upstream agree where *)
(* every message ends, for bodies of any length and reads of any size.     *)
(***************************************************************************)
EXTENDS L7Framing, EgressProxy, SequenceTheorems, TLAPS

-----------------------------------------------------------------------------
(* The cache of binary hashes. *)

\* No fingerprint is newer than the last write.
PrintsPast ==
    /\ \A p \in Paths : file[p] # None => file[p].print <= writes
    /\ \A p \in Paths : cache[p] # None => cache[p].print <= writes
    /\ \A c \in Calls : check[c].print <= writes

\* h is the hash of the file at p if the file still has fingerprint n.
Fresh(p, n, h) == file[p] # None /\ file[p].print = n => file[p].hash = h

\* A cached fingerprint stands for the cached hash.
CacheFresh == \A p \in Paths : cache[p] # None => Fresh(p, cache[p].print, cache[p].hash)

\* So do the fingerprint and the hash a call holds.
CheckFresh ==
    \A c \in Calls :
        check[c].pc \in {"insert", "ok"} => Fresh(check[c].path, check[c].print, check[c].hash)

\* What a call has accepted is the cached hash.
OkIsGolden ==
    \A c \in Calls :
        check[c].pc = "ok" =>
            cache[check[c].path] # None /\ cache[check[c].path].hash = check[c].hash

IdentityInv == IdentityTypeOK /\ PrintsPast /\ CacheFresh /\ CheckFresh /\ OkIsGolden

-----------------------------------------------------------------------------
LEMMA InitInv == IdentityInit => IdentityInv
  BY IdentityAssumption
     DEF IdentityInit, IdentityInv, IdentityTypeOK, PrintsPast, CacheFresh, CheckFresh,
         OkIsGolden, Fresh, Checks, Unused, Files

\* A call that is not idle has a path.
LEMMA Busy ==
    ASSUME IdentityTypeOK, NEW c \in Calls
    PROVE  /\ check[c].print \in Nat
           /\ check[c].pc # "idle" =>
                /\ check[c].path \in Paths
                /\ check[c] \in [pc : {"lookup", "hash", "insert", "ok", "failed"},
                                 path : Paths, print : Nat, hash : Hashes \cup {None}]
  <1>1. check[c] \in Checks
    BY DEF IdentityTypeOK
  <1>2. CASE check[c] = Unused
    BY <1>2 DEF Unused
  <1>3. CASE check[c] # Unused
    BY <1>1, <1>3 DEF Checks
  <1> QED BY <1>2, <1>3

\* A new file has a fingerprint of its own; a removed one has none.
LEMMA FileStep ==
    ASSUME IdentityInv, NEW p \in Paths, Write(p) \/ Unlink(p)
    PROVE  IdentityInv'
  <1>1. PICK f \in Files \cup {None} :
          /\ file' = [file EXCEPT ![p] = f]
          /\ f # None => f.print = writes + 1
    <2>1. CASE Write(p)
      <3>1. PICK h \in Hashes : file' = [file EXCEPT ![p] = [hash |-> h, print |-> writes + 1]]
        BY <2>1 DEF Write
      <3>2. [hash |-> h, print |-> writes + 1] \in Files
        BY DEF IdentityInv, IdentityTypeOK, Files
      <3>3. [hash |-> h, print |-> writes + 1].print = writes + 1
        OBVIOUS
      <3> USE <3>2
      <3> WITNESS [hash |-> h, print |-> writes + 1] \in Files \cup {None}
      <3> QED BY <3>1, <3>3
    <2>2. CASE Unlink(p)
      BY <2>2 DEF Unlink
    <2> QED BY <2>1, <2>2
  <1>2. writes' = writes + 1 /\ cache' = cache /\ check' = check
    BY DEF Write, Unlink
  <1>3. \A q \in Paths : file'[q] = IF q = p THEN f ELSE file[q]
    BY <1>1 DEF IdentityInv, IdentityTypeOK
  <1>4. IdentityTypeOK'
    BY <1>1, <1>2 DEF IdentityInv, IdentityTypeOK
  <1>5. PrintsPast'
    <2>1. \A q \in Paths : file[q] # None => file[q].print \in Nat
      BY DEF IdentityInv, IdentityTypeOK, Files
    <2>2. \A q \in Paths : cache[q] # None => cache[q].print \in Nat
      BY DEF IdentityInv, IdentityTypeOK, Files
    <2>3. \A c \in Calls : check[c].print \in Nat
      BY Busy DEF IdentityInv
    <2>4. writes \in Nat
      BY DEF IdentityInv, IdentityTypeOK
    <2>5. PrintsPast
      BY DEF IdentityInv
    <2>6. \A q \in Paths : file'[q] # None => file'[q].print <= writes'
      BY <1>1, <1>2, <1>3, <2>1, <2>4, <2>5 DEF PrintsPast
    <2> QED BY <1>2, <2>2, <2>3, <2>4, <2>5, <2>6 DEF PrintsPast
  <1>6. \A q \in Paths, h \in Hashes : \A n \in Nat :
          n <= writes /\ Fresh(q, n, h) => Fresh(q, n, h)'
    BY <1>1, <1>3 DEF IdentityInv, IdentityTypeOK, Fresh
  <1>7. CacheFresh'
    <2> SUFFICES ASSUME NEW q \in Paths, cache[q] # None
                 PROVE  Fresh(q, cache[q].print, cache[q].hash)'
      BY <1>2 DEF CacheFresh
    <2>1. /\ cache[q].print \in Nat /\ cache[q].print <= writes /\ cache[q].hash \in Hashes
          /\ Fresh(q, cache[q].print, cache[q].hash)
      BY DEF IdentityInv, IdentityTypeOK, PrintsPast, CacheFresh, Files
    <2> QED BY <1>2, <1>6, <2>1 DEF Fresh
  <1>8. CheckFresh'
    <2> SUFFICES ASSUME NEW c \in Calls, check[c].pc \in {"insert", "ok"}
                 PROVE  Fresh(check[c].path, check[c].print, check[c].hash)'
      BY <1>2 DEF CheckFresh
    <2>1. check[c].path \in Paths /\ check[c].print \in Nat
      BY Busy DEF IdentityInv
    <2>2. /\ check[c].print <= writes /\ check[c].hash \in Hashes
          /\ Fresh(check[c].path, check[c].print, check[c].hash)
      BY DEF IdentityInv, IdentityTypeOK, PrintsPast, CheckFresh
    <2> QED BY <1>2, <1>6, <2>1, <2>2 DEF Fresh
  <1>9. OkIsGolden'
    BY <1>2 DEF IdentityInv, OkIsGolden
  <1> QED BY <1>4, <1>5, <1>7, <1>8, <1>9 DEF IdentityInv

\* A step of one call that leaves the cache alone.
LEMMA CallStep ==
    ASSUME IdentityInv, NEW c \in Calls, NEW r \in Checks,
           check' = [check EXCEPT ![c] = r], UNCHANGED <<file, writes, cache>>,
           r.print <= writes,
           r.pc \in {"insert", "ok"} => r.hash \in Hashes /\ Fresh(r.path, r.print, r.hash),
           r.pc = "ok" => cache[r.path] # None /\ cache[r.path].hash = r.hash
    PROVE  IdentityInv'
  <1>1. \A d \in Calls : check'[d] = IF d = c THEN r ELSE check[d]
    BY DEF IdentityInv, IdentityTypeOK
  <1>2. IdentityTypeOK'
    BY <1>1 DEF IdentityInv, IdentityTypeOK
  <1>3. PrintsPast'
    BY <1>1 DEF IdentityInv, PrintsPast
  <1>4. CacheFresh'
    BY DEF IdentityInv, CacheFresh, Fresh
  <1>5. CheckFresh'
    BY <1>1 DEF IdentityInv, CheckFresh, Fresh
  <1>6. OkIsGolden'
    BY <1>1 DEF IdentityInv, OkIsGolden
  <1> QED BY <1>2, <1>3, <1>4, <1>5, <1>6 DEF IdentityInv

LEMMA StatStep ==
    ASSUME IdentityInv, NEW c \in Calls, NEW p \in Paths, Stat(c, p)
    PROVE  IdentityInv'
  <1> DEFINE r == IF file[p] = None
                  THEN [Unused EXCEPT !.pc = "failed", !.path = p]
                  ELSE [Unused EXCEPT !.pc = "lookup", !.path = p, !.print = file[p].print]
  <1>1. check' = [check EXCEPT ![c] = r] /\ UNCHANGED <<file, writes, cache>>
    BY DEF Stat
  <1>2. file[p] # None => file[p].print \in Nat /\ file[p].print <= writes
    BY DEF IdentityInv, IdentityTypeOK, PrintsPast, Files
  <1>3. r \in Checks /\ r.print <= writes /\ r.pc \in {"failed", "lookup"}
    <2>1. writes \in Nat
      BY DEF IdentityInv, IdentityTypeOK
    <2>2. CASE file[p] = None
      <3>1. r = [pc |-> "failed", path |-> p, print |-> 0, hash |-> None]
        BY <2>2 DEF Unused
      <3> HIDE DEF r
      <3> QED BY <2>1, <3>1 DEF Checks
    <2>3. CASE file[p] # None
      <3>1. r = [pc |-> "lookup", path |-> p, print |-> file[p].print, hash |-> None]
        BY <2>3 DEF Unused
      <3> HIDE DEF r
      <3> QED BY <1>2, <2>3, <3>1 DEF Checks
    <2> QED BY <2>2, <2>3
  <1> HIDE DEF r
  <1> QED BY <1>1, <1>3, CallStep

\* A hit: the cached hash is the hash of that fingerprint.
LEMMA LookupStep ==
    ASSUME IdentityInv, NEW c \in Calls, Lookup(c)
    PROVE  IdentityInv'
  <1>1. /\ check[c].pc = "lookup" /\ check[c].path \in Paths
        /\ check[c] \in [pc : {"lookup", "hash", "insert", "ok", "failed"},
                         path : Paths, print : Nat, hash : Hashes \cup {None}]
    BY Busy DEF Lookup, IdentityInv
  <1>2. check[c].print <= writes
    BY DEF IdentityInv, PrintsPast
  <1>3. UNCHANGED <<file, writes, cache>>
    BY DEF Lookup
  <1> DEFINE p == check[c].path
  <1>4. CASE /\ cache[p] # None /\ cache[p].print = check[c].print
             /\ check' = [check EXCEPT ![c].pc = "ok", ![c].hash = cache[p].hash]
    <2> DEFINE r == [check[c] EXCEPT !.pc = "ok", !.hash = cache[p].hash]
    <2>1. cache[p].hash \in Hashes
      BY <1>1, <1>4 DEF IdentityInv, IdentityTypeOK, Files
    <2>2. /\ r \in Checks /\ r.print <= writes /\ r.path = p
          /\ r.hash = cache[p].hash /\ r.print = cache[p].print
      BY <1>1, <1>2, <1>4, <2>1 DEF Checks
    <2>3. Fresh(p, cache[p].print, cache[p].hash)
      BY <1>1, <1>4 DEF IdentityInv, CacheFresh
    <2>4. check' = [check EXCEPT ![c] = r]
      BY <1>4
    <2> HIDE DEF r
    <2> QED BY <1>3, <1>4, <2>1, <2>2, <2>3, <2>4, CallStep
  <1>5. CASE check' = [check EXCEPT ![c].pc = "hash"]
    <2> DEFINE r == [check[c] EXCEPT !.pc = "hash"]
    <2>1. r \in Checks /\ r.print <= writes /\ r.pc = "hash"
      BY <1>1, <1>2 DEF Checks
    <2>2. check' = [check EXCEPT ![c] = r]
      BY <1>5
    <2> HIDE DEF r
    <2> QED BY <1>3, <2>1, <2>2, CallStep
  <1> QED BY <1>4, <1>5 DEF Lookup, CheckAs

\* The hash is of the file unless the file has changed since the stat.
LEMMA HashStep ==
    ASSUME IdentityInv, NEW c \in Calls, HashFile(c)
    PROVE  IdentityInv'
  <1>1. /\ check[c].pc = "hash" /\ check[c].path \in Paths
        /\ check[c] \in [pc : {"lookup", "hash", "insert", "ok", "failed"},
                         path : Paths, print : Nat, hash : Hashes \cup {None}]
    BY Busy DEF HashFile, IdentityInv
  <1>2. check[c].print <= writes
    BY DEF IdentityInv, PrintsPast
  <1>3. UNCHANGED <<file, writes, cache>>
    BY DEF HashFile
  <1> DEFINE p == check[c].path
  <1>4. CASE check' = [check EXCEPT ![c].pc = "failed"]
    <2> DEFINE r == [check[c] EXCEPT !.pc = "failed"]
    <2>1. r \in Checks /\ r.print <= writes /\ r.pc = "failed"
      BY <1>1, <1>2 DEF Checks
    <2>2. check' = [check EXCEPT ![c] = r]
      BY <1>4
    <2> HIDE DEF r
    <2> QED BY <1>3, <2>1, <2>2, CallStep
  <1>5. CASE \E h \in Hashes :
               /\ file[p].print = check[c].print => h = file[p].hash
               /\ check' = [check EXCEPT ![c].pc = "insert", ![c].hash = h]
    <2>1. PICK h \in Hashes :
            /\ file[p].print = check[c].print => h = file[p].hash
            /\ check' = [check EXCEPT ![c].pc = "insert", ![c].hash = h]
      BY <1>5
    <2> DEFINE r == [check[c] EXCEPT !.pc = "insert", !.hash = h]
    <2>2. /\ r \in Checks /\ r.print <= writes /\ r.pc = "insert" /\ r.hash \in Hashes
          /\ r.hash = h /\ r.path = p /\ r.print = check[c].print
      BY <1>1, <1>2 DEF Checks
    <2>3. Fresh(r.path, r.print, r.hash)
      BY <2>1, <2>2 DEF Fresh
    <2>4. check' = [check EXCEPT ![c] = r]
      BY <2>1
    <2> HIDE DEF r
    <2> QED BY <1>3, <2>2, <2>3, <2>4, CallStep
  <1> QED BY <1>4, <1>5 DEF HashFile, CheckAs

LEMMA ReturnStep ==
    ASSUME IdentityInv, NEW c \in Calls, Return(c)
    PROVE  IdentityInv'
  <1>1. check' = [check EXCEPT ![c] = Unused] /\ UNCHANGED <<file, writes, cache>>
    BY DEF Return
  <1>2. Unused \in Checks /\ Unused.print <= writes /\ Unused.pc = "idle"
    BY DEF Checks, Unused, IdentityInv, IdentityTypeOK
  <1> QED BY <1>1, <1>2, CallStep

\* The insertion replaces a hash by itself only.
LEMMA InsertStep ==
    ASSUME IdentityInv, NEW c \in Calls, Insert(c)
    PROVE  IdentityInv'
  <1> DEFINE p == check[c].path
             e == [hash |-> check[c].hash, print |-> check[c].print]
  <1>1. /\ check[c].pc = "insert" /\ p \in Paths
        /\ check[c] \in [pc : {"lookup", "hash", "insert", "ok", "failed"},
                         path : Paths, print : Nat, hash : Hashes \cup {None}]
    BY Busy DEF Insert, IdentityInv
  <1>2. check[c].print <= writes /\ check[c].hash \in Hashes
    BY <1>1 DEF IdentityInv, PrintsPast, IdentityTypeOK
  <1>3. UNCHANGED <<file, writes>>
    BY DEF Insert
  <1>4. CASE check' = [check EXCEPT ![c].pc = "failed"] /\ UNCHANGED cache
    <2> DEFINE r == [check[c] EXCEPT !.pc = "failed"]
    <2>1. r \in Checks /\ r.print <= writes /\ r.pc = "failed"
      BY <1>1, <1>2 DEF Checks
    <2>2. check' = [check EXCEPT ![c] = r]
      BY <1>4
    <2> HIDE DEF r
    <2> QED BY <1>3, <1>4, <2>1, <2>2, CallStep
  <1>5. CASE /\ cache[p] # None => cache[p].hash = check[c].hash
             /\ cache' = [cache EXCEPT ![p] = e]
             /\ check' = [check EXCEPT ![c].pc = "ok"]
    <2> DEFINE r == [check[c] EXCEPT !.pc = "ok"]
    <2>1. /\ r \in Checks /\ r.pc = "ok" /\ r.hash = check[c].hash /\ r.path = p
          /\ r.print = check[c].print
      BY <1>1 DEF Checks
    <2>2. e \in Files /\ e.hash = check[c].hash /\ e.print = check[c].print /\ e # None
      BY <1>1, <1>2, IdentityAssumption DEF Files
    <2>3. Fresh(p, check[c].print, check[c].hash)
      BY <1>1 DEF IdentityInv, CheckFresh
    <2>4. \A d \in Calls : check'[d] = IF d = c THEN r ELSE check[d]
      BY <1>5 DEF IdentityInv, IdentityTypeOK
    <2>5. \A q \in Paths : cache'[q] = IF q = p THEN e ELSE cache[q]
      BY <1>5 DEF IdentityInv, IdentityTypeOK
    <2> HIDE DEF r, e
    <2>6. IdentityTypeOK'
      <3>1. cache' \in [Paths -> Files \cup {None}]
        BY <1>1, <1>5, <2>2 DEF IdentityInv, IdentityTypeOK
      <3>2. check' \in [Calls -> Checks]
        <4>1. check' = [check EXCEPT ![c] = r]
          BY <1>5 DEF r
        <4> QED BY <2>1, <4>1 DEF IdentityInv, IdentityTypeOK
      <3>3. \A d \in Calls : check'[d].pc \in {"insert", "ok"} => check'[d].hash \in Hashes
        BY <1>2, <2>1, <2>4 DEF IdentityInv, IdentityTypeOK
      <3> QED BY <1>3, <3>1, <3>2, <3>3 DEF IdentityInv, IdentityTypeOK
    <2>7. PrintsPast'
      BY <1>2, <1>3, <2>1, <2>2, <2>4, <2>5 DEF IdentityInv, PrintsPast
    <2>8. CacheFresh'
      BY <1>3, <2>2, <2>3, <2>5 DEF IdentityInv, CacheFresh, Fresh
    <2>9. CheckFresh'
      BY <1>3, <2>1, <2>3, <2>4 DEF IdentityInv, CheckFresh, Fresh
    <2>10. OkIsGolden'
      <3> SUFFICES ASSUME NEW d \in Calls, check'[d].pc = "ok"
                   PROVE  /\ cache'[check'[d].path] # None
                          /\ cache'[check'[d].path].hash = check'[d].hash
        BY DEF OkIsGolden
      <3>1. CASE d = c
        BY <1>1, <2>1, <2>2, <2>4, <2>5, <3>1
      <3>2. CASE d # c
        <4>1. check'[d] = check[d]
          BY <2>4, <3>2
        <4>2. /\ check[d].path \in Paths /\ cache[check[d].path] # None
              /\ cache[check[d].path].hash = check[d].hash
          BY <4>1, Busy DEF IdentityInv, OkIsGolden
        <4> QED BY <1>5, <2>2, <2>5, <4>1, <4>2
      <3> QED BY <3>1, <3>2
    <2> QED BY <2>6, <2>7, <2>8, <2>9, <2>10 DEF IdentityInv
  <1> QED BY <1>4, <1>5 DEF Insert, CheckAs

LEMMA NextInv ==
    ASSUME IdentityInv, [IdentityNext]_identityVars
    PROVE  IdentityInv'
  <1>1. CASE UNCHANGED identityVars
    BY <1>1 DEF identityVars, IdentityInv, IdentityTypeOK, PrintsPast, CacheFresh,
                CheckFresh, OkIsGolden, Fresh
  <1>2. CASE FileSystem
    BY <1>2, FileStep DEF FileSystem
  <1>3. CASE \E c \in Calls : (\E p \in Paths : Stat(c, p)) \/ Verify(c) \/ Return(c)
    BY <1>3, StatStep, LookupStep, HashStep, InsertStep, ReturnStep DEF Verify
  <1> QED BY <1>1, <1>2, <1>3 DEF IdentityNext

LEMMA Invariance == IdentitySpec => []IdentityInv
  <1>1. IdentityInit => IdentityInv
    BY InitInv
  <1>2. IdentityInv /\ [IdentityNext]_identityVars => IdentityInv'
    BY NextInv
  <1> QED BY <1>1, <1>2, PTL DEF IdentitySpec

-----------------------------------------------------------------------------
\* verify_or_cache never accepts a hash that is not the golden one, nor one
\* that is not of the file it has stat'ed.
THEOREM Genuine == IdentitySpec => []AcceptedIsGenuine
  <1>1. IdentityInv => AcceptedIsGenuine
    BY DEF IdentityInv, CheckFresh, OkIsGolden, Fresh, AcceptedIsGenuine
  <1> QED BY <1>1, Invariance, PTL

LEMMA CacheKept ==
    ASSUME IdentityInv, [IdentityNext]_identityVars
    PROVE  \A p \in Paths :
               cache[p] # None => cache'[p] # None /\ cache'[p].hash = cache[p].hash
  <1>1. CASE cache' = cache
    BY <1>1
  <1>2. CASE \E c \in Calls : Insert(c)
    <2>1. PICK c \in Calls : Insert(c)
      BY <1>2
    <2> DEFINE q == check[c].path
               e == [hash |-> check[c].hash, print |-> check[c].print]
    <2>2. CASE /\ cache[q] # None => cache[q].hash = check[c].hash
               /\ cache' = [cache EXCEPT ![q] = e]
      <3>1. q \in Paths /\ check[c].hash \in Hashes /\ check[c].print \in Nat
        BY <2>1, Busy DEF Insert, IdentityInv, IdentityTypeOK
      <3>2. e \in Files /\ e # None /\ e.hash = check[c].hash
        BY <3>1, IdentityAssumption DEF Files
      <3>3. \A p \in Paths : cache'[p] = IF p = q THEN e ELSE cache[p]
        BY <2>2 DEF IdentityInv, IdentityTypeOK
      <3> HIDE DEF e
      <3> QED BY <2>2, <3>2, <3>3
    <2> QED BY <1>1, <2>1, <2>2 DEF Insert
  <1> QED
    BY <1>1, <1>2
       DEF IdentityNext, FileSystem, Write, Unlink, Stat, Verify, Lookup, HashFile, Return,
           identityVars

\* Whatever calls race, the first hash recorded for a path stays.
THEOREM Golden == IdentitySpec => GoldenHash
  <1> DEFINE Kept == \A p \in Paths :
                        cache[p] # None => cache'[p] # None /\ cache'[p].hash = cache[p].hash
  <1>1. IdentityInv /\ [IdentityNext]_identityVars => [Kept]_identityVars
    BY CacheKept
  <1> QED BY <1>1, Invariance, PTL DEF IdentitySpec, GoldenHash

-----------------------------------------------------------------------------
(* Types of the proxy's own state. *)

ProxyTypeOK ==
    /\ spawned \in BOOLEAN
    /\ engine \in Policies
    /\ conn \in [Conns -> Connections] /\ \A c \in Conns : Connected(conn[c])

LEMMA ClosedType == Connected(Closed) /\ Closed.pc = "idle"
  BY DEF Connected, Connections, Closed

\* The engine's answers have the types of an endpoint's fields.
LEMMA ConfigType ==
    ASSUME NEW p \in Policies, NEW c \in Conns, ProxyTypeOK, conn[c].pc # "idle"
    PROVE  /\ Config(p, c).ips \in SUBSET (Addresses \cup {"invalid"})
           /\ Config(p, c).l7 \in {"none", "audit", "enforce", "sql"}
  <1>1. conn[c].dest \in Dests
    BY DEF ProxyTypeOK, Connected
  <1>2. p[conn[c].dest] \in Endpoints \cup {None}
    BY <1>1, ProxyAssumption
  <1>3. CASE Matches(p, c)
    <2>1. p[conn[c].dest] \in Endpoints
      BY <1>2, <1>3 DEF Matches
    <2> QED BY <1>3, <2>1 DEF Config, Endpoints
  <1>4. CASE ~Matches(p, c)
    <2>1. Config(p, c) = Plain
      BY <1>4 DEF Config
    <2> QED BY <2>1 DEF Plain
  <1> QED BY <1>3, <1>4

\* A step that gives one connection a new record.
LEMMA ConnUpdate ==
    ASSUME ProxyTypeOK, NEW c \in Conns, NEW r, Connected(r),
           conn' = [conn EXCEPT ![c] = r], UNCHANGED <<spawned, engine>>
    PROVE  ProxyTypeOK'
  <1>1. r \in Connections
    BY DEF Connected
  <1>2. \A d \in Conns : conn'[d] = IF d = c THEN r ELSE conn[d]
    BY DEF ProxyTypeOK
  <1>3. \A d \in Conns : Connected(conn'[d])
    BY <1>2 DEF ProxyTypeOK
  <1>4. conn' \in [Conns -> Connections]
    BY <1>1 DEF ProxyTypeOK
  <1> QED BY <1>3, <1>4 DEF ProxyTypeOK

\* Closing a connection.
LEMMA CloseStep ==
    ASSUME ProxyTypeOK, NEW c \in Conns, Close(c), UNCHANGED <<spawned, engine>>
    PROVE  ProxyTypeOK'
  BY ClosedType, ConnUpdate DEF Close

\* Going on in another place, and nothing else.
LEMMA ToStep ==
    ASSUME ProxyTypeOK, NEW c \in Conns, conn[c].pc # "idle",
           NEW pc \in {"decide", "ips", "l7", "peek", "passthrough"},
           To(c, pc), UNCHANGED <<spawned, engine>>
    PROVE  ProxyTypeOK'
  <1> DEFINE r == [conn[c] EXCEPT !.pc = pc]
  <1>1. conn' = [conn EXCEPT ![c] = r]
    BY DEF To
  <1>2. Connected(conn[c])
    BY DEF ProxyTypeOK
  <1>3. Connected(r)
    BY <1>2 DEF Connected, Connections
  <1> HIDE DEF r
  <1> QED BY <1>1, <1>3, ConnUpdate

LEMMA TailNonEmpty ==
    ASSUME NEW s \in Seq(Paths), s # <<>>, Len(s) # 1
    PROVE  Tail(s) # <<>>
  <1>1. Tail(s) \in Seq(Paths) /\ Len(Tail(s)) = Len(s) - 1 /\ Len(s) \in Nat
    BY HeadTailProperties
  <1>2. PICK t \in Seq(Paths) : t = Tail(s)
    BY <1>1
  <1>3. Len(t) # 0
    BY <1>1, <1>2
  <1>4. t # <<>>
    BY <1>3, EmptySeq
  <1> QED BY <1>2, <1>4

LEMMA SetupType ==
    ASSUME ProxyTypeOK, NEW c \in Conns, Setup(c)
    PROVE  ProxyTypeOK'
  <1>0. Connected(conn[c]) /\ engine \in Policies
    BY DEF ProxyTypeOK
  <1>1. CASE Receive(c)
    <2>1. PICK k \in {"connect", "forward"}, ch \in Chains, d \in Dests :
            conn' = [conn EXCEPT ![c] =
                [Closed EXCEPT !.pc = "identify", !.kind = k, !.chain = ch, !.dest = d,
                               !.todo = ch, !.since = {engine}]]
      BY <1>1 DEF Receive
    <2> DEFINE r == [Closed EXCEPT !.pc = "identify", !.kind = k, !.chain = ch, !.dest = d,
                                   !.todo = ch, !.since = {engine}]
    <2>2. ch \in Seq(Paths) /\ ch # <<>>
      BY ProxyAssumption
    <2>3. Connected(r)
      BY <1>0, <2>2 DEF Closed, Connected, Connections
    <2> HIDE DEF r
    <2>4. conn' = [conn EXCEPT ![c] = r] /\ UNCHANGED <<spawned, engine>>
      BY <1>1, <2>1 DEF r, Receive
    <2> QED BY <2>3, <2>4, ConnUpdate
  <1>2. CASE Unidentified(c)
    BY <1>2, CloseStep DEF Unidentified, Refuse
  <1>3. CASE UNCHANGED <<spawned, engine, conn>>
    BY <1>3 DEF ProxyTypeOK
  <1>4. CASE Identified(c)
    <2>1. CASE Close(c)
      BY <1>4, <2>1, CloseStep DEF Identified
    <2>2. CASE conn' = [conn EXCEPT ![c].todo = Tail(@),
                                    ![c].pc = IF Len(conn[c].todo) = 1 THEN "decide" ELSE @]
      <3> DEFINE n == IF Len(conn[c].todo) = 1 THEN "decide" ELSE conn[c].pc
                 r == [conn[c] EXCEPT !.todo = Tail(@), !.pc = n]
      <3>1. conn' = [conn EXCEPT ![c] = r]
        BY <2>2
      <3>2. Tail(conn[c].todo) \in Seq(Paths) /\ conn[c].pc = "identify"
        <4>1. conn[c].todo \in Seq(Paths) /\ conn[c].pc = "identify" /\ conn[c].todo # <<>>
          BY <1>0, <1>4 DEF Connected, Connections, Identified
        <4> QED BY <4>1
      <3>3. n \in {"decide", "identify"} /\ (n = "identify" => Tail(conn[c].todo) # <<>>)
        <4>1. conn[c].todo \in Seq(Paths) /\ conn[c].todo # <<>>
          BY <1>0, <1>4 DEF Connected, Connections, Identified
        <4>2. Len(conn[c].todo) # 1 => Tail(conn[c].todo) # <<>>
          BY <4>1, TailNonEmpty
        <4> QED BY <3>2, <4>2
      <3> HIDE DEF n
      <3>4. Connected(r)
        BY <1>0, <3>2, <3>3 DEF Connected, Connections
      <3> HIDE DEF r
      <3> QED BY <1>4, <3>1, <3>4, ConnUpdate DEF Identified
    <2> QED BY <1>4, <2>1, <2>2 DEF Identified, Refuse
  <1>5. CASE Decide(c)
    <2>1. PICK pc \in {"ips", "l7"} : To(c, pc) \/ Close(c)
      BY <1>5 DEF Decide, Refuse
    <2> QED BY <1>5, <2>1, ToStep, CloseStep DEF Decide
  <1>6. CASE QueryIps(c)
    <2> DEFINE i == Config(engine, c).ips
               r == [conn[c] EXCEPT !.pc = "resolve", !.ips = i]
    <2>1. i \in SUBSET (Addresses \cup {"invalid"})
      BY <1>0, <1>6, ConfigType DEF QueryIps
    <2>2. conn' = [conn EXCEPT ![c] = r] /\ conn[c].pc = "ips"
      BY <1>6 DEF QueryIps
    <2> HIDE DEF i
    <2>3. Connected(r)
      BY <1>0, <2>1, <2>2 DEF Connected, Connections
    <2> HIDE DEF r
    <2> QED BY <1>6, <2>2, <2>3, ConnUpdate DEF QueryIps
  <1>7. CASE Resolve(c)
    <2>1. CASE Close(c)
      BY <1>7, <2>1, CloseStep DEF Resolve
    <2>2. CASE \E a \in Addresses :
                 conn' = [conn EXCEPT ![c].pc = AfterConnect(c), ![c].addr = a, ![c].ips = {}]
      <3>1. PICK a \in Addresses :
              conn' = [conn EXCEPT ![c].pc = AfterConnect(c), ![c].addr = a, ![c].ips = {}]
        BY <2>2
      <3> DEFINE n == AfterConnect(c)
                 r == [conn[c] EXCEPT !.pc = n, !.addr = a, !.ips = {}]
      <3>2. n \in {"l7", "send"} /\ conn[c].pc = "resolve"
        BY <1>7 DEF AfterConnect, Resolve
      <3>3. conn' = [conn EXCEPT ![c] = r]
        BY <3>1
      <3> HIDE DEF n
      <3>4. Connected(r)
        BY <1>0, <3>2 DEF Connected, Connections
      <3> HIDE DEF r
      <3> QED BY <1>7, <3>3, <3>4, ConnUpdate DEF Resolve
    <2> QED BY <1>7, <2>1, <2>2 DEF Resolve
  <1> QED BY <1>1, <1>2, <1>3, <1>4, <1>5, <1>6, <1>7 DEF Setup, Identify

LEMMA TunnelType ==
    ASSUME ProxyTypeOK, NEW c \in Conns, Tunnel(c)
    PROVE  ProxyTypeOK'
  <1>0. Connected(conn[c]) /\ engine \in Policies
    BY DEF ProxyTypeOK
  <1>1. CASE QueryL7(c)
    <2> DEFINE l == Config(engine, c).l7
               r == [conn[c] EXCEPT !.pc = "tls", !.l7 = l]
    <2>1. l \in {"none", "audit", "enforce", "sql"}
      BY <1>0, <1>1, ConfigType DEF QueryL7
    <2>2. conn' = [conn EXCEPT ![c] = r] /\ conn[c].pc = "l7"
      BY <1>1 DEF QueryL7
    <2> HIDE DEF l
    <2>3. Connected(r)
      BY <1>0, <2>1, <2>2 DEF Connected, Connections
    <2> HIDE DEF r
    <2> QED BY <1>1, <2>2, <2>3, ConnUpdate DEF QueryL7
  <1>2. ASSUME NEW w \in {"skip", "sql", "other", "no ca"}, conn[c].pc # "idle",
               conn' = [conn EXCEPT ![c].pc = "raw", ![c].raw = w],
               UNCHANGED <<spawned, engine>>
        PROVE  ProxyTypeOK'
    <2> DEFINE r == [conn[c] EXCEPT !.pc = "raw", !.raw = w]
    <2>1. conn' = [conn EXCEPT ![c] = r]
      BY <1>2
    <2>2. Connected(r)
      BY <1>0, <1>2 DEF Connected, Connections
    <2> HIDE DEF r
    <2> QED BY <1>2, <2>1, <2>2, ConnUpdate
  <1>3. CASE QueryTls(c)
    BY <1>2, <1>3, ToStep DEF QueryTls, To
  <1>4. CASE Peek(c)
    <2>1. CASE conn' = [conn EXCEPT ![c].pc = "inspect", ![c].tunnel = engine]
      <3> DEFINE r == [conn[c] EXCEPT !.pc = "inspect", !.tunnel = engine]
      <3>1. conn' = [conn EXCEPT ![c] = r]
        BY <2>1
      <3>2. Connected(r)
        BY <1>0, <1>4 DEF Connected, Connections, Peek
      <3> HIDE DEF r
      <3> QED BY <1>4, <3>1, <3>2, ConnUpdate DEF Peek
    <2> QED BY <1>2, <1>4, <2>1, ToStep DEF Peek
  <1>5. CASE Relay(c)
    <2>1. PICK q \in Requests :
            /\ conn[c].pc \in {"inspect", "passthrough"}
            /\ \/ conn' = [conn EXCEPT ![c].sent = q]
               \/ conn' = [conn EXCEPT ![c].sent = q, ![c].pc = "raw", ![c].raw = "upgrade"]
      BY <1>5 DEF Relay, Forwardable
    <2>2. CASE conn' = [conn EXCEPT ![c].sent = q]
      <3> DEFINE r == [conn[c] EXCEPT !.sent = q]
      <3>1. conn' = [conn EXCEPT ![c] = r]
        BY <2>2
      <3>2. Connected(r)
        BY <1>0, <2>1 DEF Connected, Connections
      <3> HIDE DEF r
      <3> QED BY <1>5, <3>1, <3>2, ConnUpdate DEF Relay
    <2>3. CASE conn' = [conn EXCEPT ![c].sent = q, ![c].pc = "raw", ![c].raw = "upgrade"]
      <3> DEFINE r == [conn[c] EXCEPT !.sent = q, !.pc = "raw", !.raw = "upgrade"]
      <3>1. conn' = [conn EXCEPT ![c] = r]
        BY <2>3
      <3>2. Connected(r)
        BY <1>0, <2>1 DEF Connected, Connections
      <3> HIDE DEF r
      <3> QED BY <1>5, <3>1, <3>2, ConnUpdate DEF Relay
    <2> QED BY <2>1, <2>2, <2>3
  <1>6. CASE Deny(c) \/ Finish(c)
    BY <1>6, CloseStep DEF Deny, Finish
  <1> QED BY <1>1, <1>3, <1>4, <1>5, <1>6 DEF Tunnel

LEMMA ForwardType ==
    ASSUME ProxyTypeOK, NEW c \in Conns, Forward(c)
    PROVE  ProxyTypeOK'
  <1>0. Connected(conn[c]) /\ engine \in Policies
    BY DEF ProxyTypeOK
  <1>1. CASE ForwardL7(c)
    <2> DEFINE l == Config(engine, c).l7
               n == IF l = "none" THEN "ips" ELSE "evaluate"
               r == [conn[c] EXCEPT !.pc = n, !.l7 = l]
    <2>1. l \in {"none", "audit", "enforce", "sql"}
      BY <1>0, <1>1, ConfigType DEF ForwardL7
    <2>2. conn' = [conn EXCEPT ![c] = r] /\ conn[c].pc = "l7"
      BY <1>1 DEF ForwardL7
    <2>3. n \in {"ips", "evaluate"}
      OBVIOUS
    <2> HIDE DEF l, n
    <2>4. Connected(r)
      BY <1>0, <2>1, <2>2, <2>3 DEF Connected, Connections
    <2> HIDE DEF r
    <2> QED BY <1>1, <2>2, <2>4, ConnUpdate DEF ForwardL7
  <1>2. CASE ForwardEvaluate(c)
    <2>1. CASE Close(c)
      BY <1>2, <2>1, CloseStep DEF ForwardEvaluate
    <2>2. CASE \E q \in Requests :
                 conn' = [conn EXCEPT ![c].pc = "ips", ![c].tunnel = engine, ![c].sent = q]
      <3>1. PICK q \in Requests :
              conn' = [conn EXCEPT ![c].pc = "ips", ![c].tunnel = engine, ![c].sent = q]
        BY <2>2
      <3> DEFINE r == [conn[c] EXCEPT !.pc = "ips", !.tunnel = engine, !.sent = q]
      <3>2. conn' = [conn EXCEPT ![c] = r]
        BY <3>1
      <3>3. Connected(r)
        BY <1>0, <1>2 DEF Connected, Connections, ForwardEvaluate
      <3> HIDE DEF r
      <3> QED BY <1>2, <3>2, <3>3, ConnUpdate DEF ForwardEvaluate
    <2> QED BY <1>2, <2>1, <2>2 DEF ForwardEvaluate, Refuse
  <1>3. CASE Send(c)
    <2> DEFINE r == [conn[c] EXCEPT !.pc = "raw", !.raw = "forward"]
    <2>1. conn' = [conn EXCEPT ![c] = r]
      BY <1>3 DEF Send
    <2>2. Connected(r)
      BY <1>0, <1>3 DEF Connected, Connections, Send
    <2> HIDE DEF r
    <2> QED BY <1>3, <2>1, <2>2, ConnUpdate DEF Send
  <1> QED BY <1>1, <1>2, <1>3 DEF Forward

LEMMA ReloadType ==
    ASSUME ProxyTypeOK, Reload
    PROVE  ProxyTypeOK'
  <1>1. engine' \in Policies /\ spawned' = spawned
    BY DEF Reload
  <1>2. \A c \in Conns : Connected(IF conn[c].pc = "idle" THEN conn[c]
                                   ELSE [conn[c] EXCEPT !.since = @ \cup {engine'}])
    <2> SUFFICES ASSUME NEW c \in Conns
                 PROVE  Connected([conn[c] EXCEPT !.since = @ \cup {engine'}])
      BY DEF ProxyTypeOK
    <2>1. Connected(conn[c])
      BY DEF ProxyTypeOK
    <2>2. conn[c] \in Connections
      BY <2>1 DEF Connected
    <2> DEFINE r == [conn[c] EXCEPT !.since = @ \cup {engine'}]
    <2>3. /\ r \in Connections /\ r.pc = conn[c].pc /\ r.dest = conn[c].dest
          /\ r.chain = conn[c].chain /\ r.todo = conn[c].todo
      BY <1>1, <2>2 DEF Connections
    <2> HIDE DEF r
    <2>4. Connected(r)
      BY <2>1, <2>3 DEF Connected
    <2> QED BY <2>4 DEF r
  <1>3. \A c \in Conns : conn'[c] = IF conn[c].pc = "idle" THEN conn[c]
                                    ELSE [conn[c] EXCEPT !.since = @ \cup {engine'}]
    BY DEF Reload
  <1>4. DOMAIN conn' = Conns /\ conn' = [c \in Conns |-> conn'[c]]
    BY <1>3 DEF Reload
  <1>5. \A c \in Conns : Connected(conn'[c])
    BY <1>2, <1>3
  <1>6. \A c \in Conns : conn'[c] \in Connections
    BY <1>5 DEF Connected
  <1>7. conn' \in [Conns -> Connections]
    BY <1>4, <1>6
  <1> QED BY <1>1, <1>5, <1>7 DEF ProxyTypeOK

LEMMA NextType ==
    ASSUME ProxyTypeOK, [Next]_vars
    PROVE  ProxyTypeOK'
  <1>1. CASE UNCHANGED <<spawned, engine, conn>>
    BY <1>1 DEF ProxyTypeOK
  <1>2. CASE Spawn
    BY <1>2 DEF Spawn, ProxyTypeOK
  <1> QED
    BY <1>1, <1>2, ReloadType, SetupType, TunnelType, ForwardType DEF Next, vars, OtherCall

-----------------------------------------------------------------------------
(* The proxy's calls are the ones of BinaryIdentity. *)

\* A connection's steps in the cache are the ones of a call; its other steps
\* leave files, cache and calls alone.
LEMMA ConnIdentity ==
    ASSUME ProxyTypeOK, NEW c \in Conns, Setup(c) \/ Tunnel(c) \/ Forward(c)
    PROVE  [IdentityNext]_identityVars
  <1>0. c \in Calls
    BY ProxyAssumption
  <1>1. CASE Identify(c)
    <2>1. conn[c].todo \in Seq(Paths) /\ conn[c].todo # <<>>
      BY <1>1 DEF Identify, ProxyTypeOK, Connections
    <2>2. Head(conn[c].todo) \in Paths
      BY <2>1
    <2> QED BY <1>0, <1>1, <2>2 DEF Identify, IdentityNext
  <1>2. CASE Identified(c)
    BY <1>0, <1>2 DEF Identified, IdentityNext
  <1>3. CASE Verify(c)
    BY <1>0, <1>3 DEF IdentityNext
  <1>4. CASE UNCHANGED identityVars
    BY <1>4
  <1> QED
    BY <1>1, <1>2, <1>3, <1>4
       DEF Setup, Tunnel, Forward, Receive, Unidentified, Decide, QueryIps, Resolve, QueryL7,
           QueryTls, Peek, Relay, Deny, Finish, ForwardL7, ForwardEvaluate, Send

LEMMA NextIdentity ==
    ASSUME ProxyTypeOK, [Next]_vars
    PROVE  [IdentityNext]_identityVars
  <1>1. CASE UNCHANGED identityVars
    BY <1>1
  <1>2. CASE FileSystem
    BY <1>2 DEF IdentityNext
  <1>3. CASE \E c \in Calls \ Conns : OtherCall(c)
    BY <1>3 DEF OtherCall, IdentityNext
  <1>4. CASE \E c \in Conns : Setup(c) \/ Tunnel(c) \/ Forward(c)
    BY <1>4, ConnIdentity
  <1> QED BY <1>1, <1>2, <1>3, <1>4 DEF Next, Reload, Spawn, vars, identityVars

LEMMA InitType == Init => ProxyTypeOK
  BY ClosedType DEF Init, ProxyTypeOK, Connected

LEMMA ProxyTypes == Spec => []ProxyTypeOK
  <1>1. ProxyTypeOK /\ [Next]_vars => ProxyTypeOK'
    BY NextType
  <1> QED BY <1>1, InitType, PTL DEF Spec

\* The proxy implements BinaryIdentity: all it does with files, cache and
\* calls are steps of concurrent calls of verify_or_cache.
THEOREM ImplementsIdentity == Spec => IdentitySpec
  <1>1. Init => IdentityInit
    BY DEF Init
  <1>2. ProxyTypeOK /\ [Next]_vars => [IdentityNext]_identityVars
    BY NextIdentity
  <1> QED BY <1>1, <1>2, ProxyTypes, PTL DEF Spec, IdentitySpec

\* Identities, engine and connections stay in their types.
THEOREM TypeCorrect == Spec => []TypeOK
  <1>1. IdentityInv /\ ProxyTypeOK => TypeOK
    BY DEF IdentityInv, ProxyTypeOK, TypeOK
  <1> QED BY <1>1, ImplementsIdentity, Invariance, ProxyTypes, PTL

-----------------------------------------------------------------------------
(* Verification of the whole chain. *)

\* A binary of the chain is in the cache or still to be verified.
Covered(c) ==
    \A i \in DOMAIN conn[c].chain :
        \/ cache[conn[c].chain[i]] # None
        \/ /\ conn[c].pc = "identify"
           /\ \E j \in DOMAIN conn[c].todo : conn[c].todo[j] = conn[c].chain[i]

\* A connection's call is on the first binary still to be verified.
CallInv(c) ==
    check[c].pc # "idle" => conn[c].pc = "identify" /\ check[c].path = Head(conn[c].todo)

ChainInv == \A c \in Conns : (conn[c].pc # "idle" => Covered(c)) /\ CallInv(c)

CacheGrows == \A p \in Paths : cache[p] # None => cache'[p] # None

\* Nothing happens to a connection.
LEMMA Untouched ==
    ASSUME ProxyTypeOK, CacheGrows, NEW c \in Conns,
           conn'[c].pc = conn[c].pc, conn'[c].chain = conn[c].chain, conn'[c].todo = conn[c].todo,
           conn[c].pc # "idle" => Covered(c)
    PROVE  conn'[c].pc # "idle" => Covered(c)'
  <1> SUFFICES ASSUME conn[c].pc # "idle" PROVE Covered(c)'
    OBVIOUS
  <1>1. conn[c].chain \in Seq(Paths)
    BY ProxyAssumption DEF ProxyTypeOK, Connected
  <1>2. \A i \in DOMAIN conn[c].chain : conn[c].chain[i] \in Paths
    BY <1>1
  <1> QED BY <1>2 DEF Covered, CacheGrows

\* Past identification, the chain stays and no call is made.
LEMMA Passes ==
    ASSUME ProxyTypeOK, NEW c \in Conns,
           \/ Decide(c) \/ QueryIps(c) \/ Resolve(c) \/ Tunnel(c) \/ Forward(c)
    PROVE  /\ conn[c].pc \notin {"idle", "identify"} /\ UNCHANGED <<check, cache>>
           /\ \A d \in Conns \ {c} : conn'[d] = conn[d]
           /\ conn'[c].pc # "identify"
           /\ conn'[c].pc # "idle" => conn'[c].chain = conn[c].chain
  <1>1. conn[c] \in Connections /\ conn \in [Conns -> Connections] /\ Closed.pc = "idle"
    BY ClosedType DEF ProxyTypeOK
  <1> DEFINE Goal == /\ \A d \in Conns \ {c} : conn'[d] = conn[d]
                     /\ conn'[c].pc # "identify"
                     /\ conn'[c].pc # "idle" => conn'[c].chain = conn[c].chain
  <1>2. Close(c) => Goal
    BY <1>1 DEF Close
  <1>3. CASE Decide(c)
    <2>1. ASSUME NEW pc \in {"ips", "l7"}, To(c, pc) PROVE Goal
      BY <1>1, <2>1 DEF To, Connections
    <2> HIDE DEF Goal
    <2>2. Goal
      BY <1>2, <1>3, <2>1 DEF Decide, Refuse
    <2> QED BY <1>3, <2>2 DEF Decide, Goal, identityVars
  <1>4. CASE QueryIps(c)
    BY <1>1, <1>4 DEF QueryIps, identityVars, Connections
  <1>5. CASE Resolve(c)
    <2>1. ASSUME NEW a \in Addresses,
                 conn' = [conn EXCEPT ![c].pc = AfterConnect(c), ![c].addr = a, ![c].ips = {}]
          PROVE  Goal
      BY <1>1, <2>1 DEF AfterConnect, Connections
    <2> HIDE DEF Goal
    <2>2. Goal
      BY <1>2, <1>5, <2>1 DEF Resolve
    <2> QED BY <1>5, <2>2 DEF Resolve, Goal, identityVars
  <1>6. CASE QueryL7(c)
    BY <1>1, <1>6 DEF QueryL7, identityVars, Connections
  <1>7. CASE QueryTls(c)
    BY <1>1, <1>7 DEF QueryTls, identityVars, Connections
  <1>8. CASE Peek(c)
    <2>1. ASSUME conn' = [conn EXCEPT ![c].pc = "inspect", ![c].tunnel = engine] PROVE Goal
      BY <1>1, <2>1 DEF Connections
    <2>2. ASSUME NEW w \in {"sql", "other", "no ca"},
                 conn' = [conn EXCEPT ![c].pc = "raw", ![c].raw = w]
          PROVE  Goal
      BY <1>1, <2>2 DEF Connections
    <2>3. ASSUME To(c, "passthrough") PROVE Goal
      BY <1>1, <2>3 DEF To, Connections
    <2> HIDE DEF Goal
    <2>4. Goal
      BY <1>8, <2>1, <2>2, <2>3 DEF Peek
    <2> QED BY <1>8, <2>4 DEF Peek, Goal, identityVars
  <1>9. CASE Relay(c)
    <2>0. conn[c].pc \in {"inspect", "passthrough"}
      BY <1>9 DEF Relay, Forwardable
    <2>1. ASSUME NEW q \in Requests, conn' = [conn EXCEPT ![c].sent = q] PROVE Goal
      BY <1>1, <2>0, <2>1 DEF Connections
    <2>2. ASSUME NEW q \in Requests,
                 conn' = [conn EXCEPT ![c].sent = q, ![c].pc = "raw", ![c].raw = "upgrade"]
          PROVE  Goal
      BY <1>1, <2>2 DEF Connections
    <2> HIDE DEF Goal
    <2>3. Goal
      BY <1>9, <2>1, <2>2 DEF Relay
    <2> QED BY <1>9, <2>0, <2>3 DEF Relay, Goal, identityVars
  <1>10. CASE Deny(c) \/ Finish(c)
    BY <1>2, <1>10 DEF Deny, Finish, identityVars
  <1>11. CASE ForwardL7(c)
    BY <1>1, <1>11 DEF ForwardL7, identityVars, Connections
  <1>12. CASE ForwardEvaluate(c)
    <2>1. ASSUME NEW q \in Requests,
                 conn' = [conn EXCEPT ![c].pc = "ips", ![c].tunnel = engine, ![c].sent = q]
          PROVE  Goal
      BY <1>1, <2>1 DEF Connections
    <2> HIDE DEF Goal
    <2>2. Goal
      BY <1>2, <1>12, <2>1 DEF ForwardEvaluate, Refuse
    <2> QED BY <1>12, <2>2 DEF ForwardEvaluate, Goal, identityVars
  <1>13. CASE Send(c)
    BY <1>1, <1>13 DEF Send, identityVars, Connections
  <1> QED
    BY <1>3, <1>4, <1>5, <1>6, <1>7, <1>8, <1>9, <1>10, <1>11, <1>12, <1>13 DEF Tunnel, Forward

\* Only a connection's own call changes.
LEMMA OtherCalls ==
    ASSUME IdentityInv, NEW c \in Calls, (\E p \in Paths : Stat(c, p)) \/ Verify(c) \/ Return(c)
    PROVE  \A d \in Calls \ {c} : check'[d] = check[d]
  BY DEF IdentityInv, IdentityTypeOK, Stat, Verify, Lookup, HashFile, Insert, Return, CheckAs

\* A call keeps its path until it returns.
LEMMA VerifyKeeps ==
    ASSUME IdentityInv, NEW c \in Calls, Verify(c)
    PROVE  check[c].pc # "idle" /\ check'[c].path = check[c].path
  <1>1. check[c].pc # "idle"
    BY DEF Verify, Lookup, HashFile, Insert
  <1>2. /\ check[c] \in [pc : {"lookup", "hash", "insert", "ok", "failed"},
                         path : Paths, print : Nat, hash : Hashes \cup {None}]
        /\ check \in [Calls -> Checks]
    BY <1>1, Busy DEF IdentityInv, IdentityTypeOK
  <1>3. ASSUME NEW pc \in {"hash", "failed", "ok"}, CheckAs(c, pc)
        PROVE  check'[c].path = check[c].path
    BY <1>2, <1>3 DEF CheckAs
  <1>4. CASE Lookup(c)
    <2>1. ASSUME NEW h, check' = [check EXCEPT ![c].pc = "ok", ![c].hash = h]
          PROVE  check'[c].path = check[c].path
      BY <1>2, <2>1
    <2> QED BY <1>3, <1>4, <2>1 DEF Lookup
  <1>5. CASE HashFile(c)
    <2>1. ASSUME NEW h, check' = [check EXCEPT ![c].pc = "insert", ![c].hash = h]
          PROVE  check'[c].path = check[c].path
      BY <1>2, <2>1
    <2> QED BY <1>3, <1>5, <2>1 DEF HashFile
  <1>6. CASE Insert(c)
    BY <1>3, <1>6 DEF Insert
  <1> QED BY <1>1, <1>4, <1>5, <1>6 DEF Verify

\* The binary just verified is the only one that leaves the list.
LEMMA IdentifiedChain ==
    ASSUME IdentityInv, ProxyTypeOK, NEW c \in Conns, c \in Calls, Covered(c), CallInv(c),
           CacheGrows, Identified(c)
    PROVE  (conn'[c].pc # "idle" => Covered(c)') /\ CallInv(c)'
  <1>1. check'[c].pc = "idle"
    BY DEF Identified, Return, Unused, IdentityInv, IdentityTypeOK
  <1>2. CASE Refuse(c)
    BY <1>1, <1>2, ClosedType DEF Refuse, Close, CallInv, ProxyTypeOK
  <1>3. CASE /\ check[c].pc = "ok"
             /\ conn' = [conn EXCEPT ![c].todo = Tail(@),
                                     ![c].pc = IF Len(conn[c].todo) = 1 THEN "decide" ELSE @]
    <2>1. /\ conn[c].pc = "identify" /\ conn[c].todo \in Seq(Paths) /\ conn[c].todo # <<>>
          /\ conn[c].chain \in Seq(Paths) /\ conn[c] \in Connections
      BY ProxyAssumption DEF Identified, ProxyTypeOK, Connected, Connections
    <2> DEFINE todo == conn[c].todo
               chain == conn[c].chain
    <2>2. /\ conn'[c].chain = chain /\ conn'[c].todo = Tail(todo)
          /\ conn'[c].pc = IF Len(todo) = 1 THEN "decide" ELSE "identify"
      BY <1>3, <2>1 DEF ProxyTypeOK, Connections
    <2>3. todo[1] \in Paths /\ cache'[todo[1]] # None
      <3>1. check[c].path = todo[1] /\ todo[1] \in Paths
        BY <1>3, <2>1 DEF CallInv
      <3>2. cache[check[c].path] # None
        BY <1>3 DEF IdentityInv, OkIsGolden
      <3> QED BY <3>1, <3>2 DEF CacheGrows
    <2>4. /\ Len(todo) \in Nat /\ Len(Tail(todo)) = Len(todo) - 1 /\ Tail(todo) \in Seq(Paths)
          /\ DOMAIN todo = 1 .. Len(todo) /\ DOMAIN Tail(todo) = 1 .. Len(Tail(todo))
          /\ \A j \in 1 .. Len(Tail(todo)) : Tail(todo)[j] = todo[j + 1]
      BY <2>1, HeadTailProperties
    <2>5. ASSUME NEW i \in DOMAIN chain
          PROVE  \/ cache'[chain[i]] # None
                 \/ /\ conn'[c].pc = "identify"
                    /\ \E j \in DOMAIN Tail(todo) : Tail(todo)[j] = chain[i]
      <3>1. chain[i] \in Paths
        BY <2>1
      <3>2. CASE cache[chain[i]] # None
        BY <3>1, <3>2 DEF CacheGrows
      <3>3. CASE \E j \in DOMAIN todo : todo[j] = chain[i]
        <4>1. PICK j \in DOMAIN todo : todo[j] = chain[i]
          BY <3>3
        <4>2. CASE j = 1
          BY <2>3, <4>1, <4>2
        <4>3. CASE j # 1
          <5> HIDE DEF todo, chain
          <5>1. j - 1 \in DOMAIN Tail(todo) /\ j - 1 + 1 = j /\ Len(todo) # 1
            BY <2>4, <4>1, <4>3
          <5>2. Tail(todo)[j - 1] = chain[i]
            BY <2>4, <4>1, <5>1
          <5> QED BY <2>2, <5>1, <5>2
        <4> QED BY <4>2, <4>3
      <3> QED BY <3>2, <3>3 DEF Covered
    <2>6. Covered(c)'
      <3>1. \A i \in DOMAIN conn'[c].chain :
              \/ cache'[conn'[c].chain[i]] # None
              \/ /\ conn'[c].pc = "identify"
                 /\ \E j \in DOMAIN conn'[c].todo : conn'[c].todo[j] = conn'[c].chain[i]
        BY <2>2, <2>5
      <3> QED BY <3>1 DEF Covered
    <2> QED BY <1>1, <2>6 DEF CallInv
  <1> QED BY <1>2, <1>3 DEF Identified

\* A step of the connection itself.
LEMMA OwnChain ==
    ASSUME IdentityInv, ProxyTypeOK, ChainInv, CacheGrows, NEW c \in Conns, c \in Calls,
           Setup(c) \/ Tunnel(c) \/ Forward(c)
    PROVE  (conn'[c].pc # "idle" => Covered(c)') /\ CallInv(c)'
  <1>0. conn[c].pc # "idle" => Covered(c)
    BY DEF ChainInv
  <1>1. CallInv(c)
    BY DEF ChainInv
  <1>2. CASE Receive(c)
    <2>1. PICK k \in {"connect", "forward"}, ch \in Chains, d \in Dests :
            conn' = [conn EXCEPT ![c] =
                [Closed EXCEPT !.pc = "identify", !.kind = k, !.chain = ch, !.dest = d,
                               !.todo = ch, !.since = {engine}]]
      BY <1>2 DEF Receive
    <2>2. conn'[c].pc = "identify" /\ conn'[c].chain = ch /\ conn'[c].todo = ch
      BY <2>1 DEF Closed, ProxyTypeOK
    <2>3. Covered(c)'
      BY <2>2 DEF Covered
    <2>4. check'[c].pc = "idle"
      BY <1>2 DEF Receive, identityVars
    <2> QED BY <2>3, <2>4 DEF CallInv
  <1>3. CASE Unidentified(c)
    <2>1. conn'[c].pc = "idle" /\ check'[c].pc = "idle"
      BY <1>3, ClosedType DEF Unidentified, Refuse, Close, identityVars, ProxyTypeOK
    <2> QED BY <2>1 DEF CallInv
  <1>4. CASE Identify(c)
    <2>1. conn' = conn /\ conn[c].pc = "identify" /\ Stat(c, Head(conn[c].todo))
      BY <1>4 DEF Identify
    <2>2. Covered(c)'
      BY <1>0, <2>1, Untouched
    <2>3. check'[c].path = Head(conn[c].todo)
      <3> DEFINE p == Head(conn[c].todo)
      <3>1. check' = [check EXCEPT ![c] =
               IF file[p] = None
               THEN [Unused EXCEPT !.pc = "failed", !.path = p]
               ELSE [Unused EXCEPT !.pc = "lookup", !.path = p, !.print = file[p].print]]
        BY <2>1 DEF Stat
      <3> HIDE DEF p
      <3>2. check'[c].path = p
        BY <3>1 DEF Unused, IdentityInv, IdentityTypeOK
      <3> QED BY <3>2 DEF p
    <2> QED BY <2>1, <2>2, <2>3 DEF CallInv
  <1>5. CASE Identified(c)
    <2>1. conn[c].pc # "idle"
      BY <1>5 DEF Identified
    <2> QED BY <1>0, <1>1, <1>5, <2>1, IdentifiedChain
  <1>6. CASE Verify(c) /\ UNCHANGED <<spawned, engine, conn>>
    <2>1. check[c].pc # "idle" /\ check'[c].path = check[c].path /\ conn' = conn
      BY <1>6, VerifyKeeps
    <2>2. conn'[c].pc # "idle" => Covered(c)'
      BY <1>0, <2>1, Untouched
    <2> QED BY <1>1, <2>1, <2>2 DEF CallInv
  <1>7. CASE Decide(c) \/ QueryIps(c) \/ Resolve(c) \/ Tunnel(c) \/ Forward(c)
    <2>1. /\ conn[c].pc \notin {"idle", "identify"} /\ check' = check /\ cache' = cache
          /\ conn'[c].pc # "identify"
          /\ conn'[c].pc # "idle" => conn'[c].chain = conn[c].chain
      BY <1>7, Passes
    <2>2. conn'[c].pc # "idle" => Covered(c)'
      BY <1>0, <2>1 DEF Covered
    <2> QED BY <1>1, <2>1, <2>2 DEF CallInv
  <1> QED BY <1>2, <1>3, <1>4, <1>5, <1>6, <1>7 DEF Setup

\* A step of a connection leaves the others alone.
LEMMA OthersSame ==
    ASSUME IdentityInv, ProxyTypeOK, NEW c \in Conns, c \in Calls,
           Setup(c) \/ Tunnel(c) \/ Forward(c)
    PROVE  /\ \A d \in Conns \ {c} : conn'[d] = conn[d]
           /\ \A d \in Calls \ {c} : check'[d] = check[d]
  <1>1. CASE Receive(c) \/ Unidentified(c)
    BY <1>1 DEF Receive, Unidentified, Refuse, Close, identityVars, ProxyTypeOK
  <1>2. CASE Identify(c)
    <2>1. Head(conn[c].todo) \in Paths
      <3>1. conn[c].todo \in Seq(Paths) /\ conn[c].todo # <<>>
        BY <1>2 DEF Identify, ProxyTypeOK, Connections
      <3> QED BY <3>1
    <2> QED BY <1>2, <2>1, OtherCalls DEF Identify
  <1>3. CASE Identified(c)
    <2>1. \A d \in Conns \ {c} : conn'[d] = conn[d]
      BY <1>3 DEF Identified, Refuse, Close, ProxyTypeOK
    <2> QED BY <1>3, <2>1, OtherCalls DEF Identified
  <1>4. CASE Verify(c) /\ UNCHANGED <<spawned, engine, conn>>
    BY <1>4, OtherCalls
  <1>5. CASE Decide(c) \/ QueryIps(c) \/ Resolve(c) \/ Tunnel(c) \/ Forward(c)
    BY <1>5, Passes
  <1> QED BY <1>1, <1>2, <1>3, <1>4, <1>5 DEF Setup

LEMMA NextChain ==
    ASSUME IdentityInv, ProxyTypeOK, ChainInv, [Next]_vars
    PROVE  ChainInv'
  <1>1. CacheGrows
    BY NextIdentity, CacheKept DEF CacheGrows
  <1>2. Conns \subseteq Calls
    BY ProxyAssumption
  <1>3. ASSUME NEW d \in Conns, conn'[d].pc = conn[d].pc, conn'[d].chain = conn[d].chain,
               conn'[d].todo = conn[d].todo, check'[d] = check[d]
        PROVE  (conn'[d].pc # "idle" => Covered(d)') /\ CallInv(d)'
    <2>1. (conn[d].pc # "idle" => Covered(d)) /\ CallInv(d)
      BY DEF ChainInv
    <2>2. conn'[d].pc # "idle" => Covered(d)'
      BY <1>1, <1>3, <2>1, Untouched
    <2> QED BY <1>3, <2>1, <2>2 DEF CallInv
  <1>4. CASE UNCHANGED <<conn, check>>
    BY <1>3, <1>4 DEF ChainInv
  <1>5. CASE \E e \in Calls \ Conns : OtherCall(e)
    <2>1. PICK e \in Calls \ Conns : OtherCall(e)
      BY <1>5
    <2>2. conn' = conn /\ \A d \in Conns : check'[d] = check[d]
      BY <1>2, <2>1, OtherCalls DEF OtherCall
    <2> QED BY <1>3, <2>2 DEF ChainInv
  <1>6. CASE Reload
    <2>1. check' = check /\ conn \in [Conns -> Connections]
      BY <1>6 DEF Reload, identityVars, ProxyTypeOK
    <2>2. \A d \in Conns : /\ conn'[d].pc = conn[d].pc /\ conn'[d].chain = conn[d].chain
                           /\ conn'[d].todo = conn[d].todo
      BY <1>6, <2>1 DEF Reload, Connections
    <2> QED BY <1>3, <2>1, <2>2 DEF ChainInv
  <1>7. CASE \E c \in Conns : Setup(c) \/ Tunnel(c) \/ Forward(c)
    <2>1. PICK c \in Conns : Setup(c) \/ Tunnel(c) \/ Forward(c)
      BY <1>7
    <2>2. c \in Calls
      BY <1>2
    <2>3. /\ \A d \in Conns \ {c} : conn'[d] = conn[d]
          /\ \A d \in Calls \ {c} : check'[d] = check[d]
      BY <2>1, <2>2, OthersSame
    <2>4. (conn'[c].pc # "idle" => Covered(c)') /\ CallInv(c)'
      BY <1>1, <2>1, <2>2, OwnChain
    <2>5. \A d \in Conns \ {c} : (conn'[d].pc # "idle" => Covered(d)') /\ CallInv(d)'
      BY <1>2, <1>3, <2>3
    <2> QED BY <2>4, <2>5 DEF ChainInv
  <1> QED
    BY <1>4, <1>5, <1>6, <1>7 DEF Next, vars, FileSystem, Write, Unlink, Spawn, identityVars

\* No connection reaches the policy before its binary and every ancestor have
\* been verified, whatever other calls, writes and reloads happen meanwhile.
THEOREM WholeChain == Spec => []ChainVerified
  <1>1. Init => ChainInv
    <2> SUFFICES ASSUME Init, NEW c \in Conns
                 PROVE  (conn[c].pc # "idle" => Covered(c)) /\ CallInv(c)
      BY DEF ChainInv
    <2>1. conn[c].pc = "idle"
      BY ClosedType DEF Init
    <2>2. c \in Calls
      BY ProxyAssumption
    <2>3. check[c].pc = "idle"
      BY <2>2 DEF Init, IdentityInit, Unused
    <2> QED BY <2>1, <2>3 DEF CallInv
  <1>2. IdentityInv /\ ProxyTypeOK /\ ChainInv /\ [Next]_vars => ChainInv'
    BY NextChain
  <1>3. ChainInv => ChainVerified
    BY DEF ChainInv, Covered, ChainVerified
  <1> QED BY <1>1, <1>2, <1>3, ImplementsIdentity, Invariance, ProxyTypes, PTL DEF Spec

-----------------------------------------------------------------------------
(* What a connection has been told by the policies in force since it       *)
(* arrived.  The rego answers as functions of destination and chain, which *)
(* an open connection keeps.                                               *)

MatchesOf(p, d, ch) == p[d] # None /\ \E i \in DOMAIN ch : ch[i] \in p[d].bins
ConfigOf(p, d, ch) == IF MatchesOf(p, d, ch) THEN p[d] ELSE Plain
AllowsOf(p, d, ch, q) == MatchesOf(p, d, ch) /\ q \in p[d].ok

LEMMA RegoOf ==
    ASSUME NEW p, NEW c, NEW q
    PROVE  /\ Matches(p, c) = MatchesOf(p, conn[c].dest, conn[c].chain)
           /\ Config(p, c) = ConfigOf(p, conn[c].dest, conn[c].chain)
           /\ AllowsRequest(p, c, q) = AllowsOf(p, conn[c].dest, conn[c].chain, q)
  BY DEF Matches, Config, AllowsRequest, MatchesOf, ConfigOf, AllowsOf

\* Where a connection may be, by its kind.
Placed(s) ==
    /\ s.pc = "idle" => s = Closed
    /\ s.pc \in {"evaluate", "send"} => s.kind = "forward"
    /\ s.pc \in {"tls", "peek", "inspect", "passthrough"} => s.kind = "connect"

\* The allowed_ips at hand are the answer of a policy, the address connected
\* to is licensed by one.
Addressed(s) ==
    /\ s.ips # {} => \E p \in s.since : s.ips = ConfigOf(p, s.dest, s.chain).ips
    /\ s.addr # "blocked"
    /\ s.addr = "private" =>
           /\ s.dest \notin ControlPorts
           /\ \/ s.dest \in Literal
              \/ \E p \in s.since : "private" \in ConfigOf(p, s.dest, s.chain).ips

\* Nothing is sent before the place where requests are evaluated; an inspected
\* tunnel has a copy of a policy; what was sent under enforcement was allowed.
Evaluated(s) ==
    /\ s.pc \in {"identify", "decide", "l7", "tls", "peek", "evaluate"} => s.sent = None
    /\ s.pc \in {"ips", "resolve"} /\ s.kind = "connect" => s.sent = None
    /\ s.pc = "inspect" => s.tunnel \in s.since
    /\ s.sent # None /\ s.l7 = "enforce" =>
           s.tunnel \in s.since /\ AllowsOf(s.tunnel, s.dest, s.chain, s.sent)

\* Each way of relaying without inspection goes back to a policy's answer, to
\* an evaluated request or to one of the exceptions.
Answered(s, l7) == \E p \in s.since : ConfigOf(p, s.dest, s.chain).l7 = l7
Exempt(s) ==
    /\ s.pc \in {"tls", "peek", "passthrough"} => Answered(s, s.l7)
    /\ s.pc = "passthrough" => s.l7 = "none"
    /\ s.pc \in {"ips", "resolve", "send"} /\ s.kind = "forward" =>
           s.sent # None \/ Answered(s, "none")
    /\ s.pc = "raw" =>
           \/ s.raw \in {"other", "no ca"}
           \/ s.raw \in {"upgrade", "forward"} /\ s.sent # None
           \/ s.raw = "skip" /\ \E p \in s.since : ConfigOf(p, s.dest, s.chain).skip
           \/ s.raw = "sql" /\ Answered(s, "sql")
           \/ s.raw = "forward" /\ Answered(s, "none")

Policed(s, e) ==
    /\ s.pc # "idle" => e \in s.since
    /\ Placed(s) /\ Addressed(s) /\ Evaluated(s) /\ Exempt(s)

AllPoliced == \A c \in Conns : Policed(conn[c], engine)

LEMMA ClosedPoliced ==
    ASSUME NEW e
    PROVE  Policed(Closed, e)
  <1>1. None \notin Addresses
    BY ProxyAssumption
  <1>2. Closed.pc = "idle" /\ Closed.ips = {} /\ Closed.addr = None /\ Closed.sent = None
    BY DEF Closed
  <1> QED BY <1>1, <1>2 DEF Policed, Placed, Addressed, Evaluated, Exempt, Addresses

\* A step that gives one connection a new record.
LEMMA PolicedUpdate ==
    ASSUME ProxyTypeOK, AllPoliced, NEW c \in Conns, NEW r, Policed(r, engine),
           conn' = [conn EXCEPT ![c] = r], engine' = engine
    PROVE  AllPoliced'
  <1>1. \A d \in Conns : conn'[d] = IF d = c THEN r ELSE conn[d]
    BY DEF ProxyTypeOK
  <1>2. \A d \in Conns : Policed(conn'[d], engine)
    BY <1>1 DEF AllPoliced
  <1> QED BY <1>2 DEF AllPoliced

LEMMA ClosePoliced ==
    ASSUME ProxyTypeOK, AllPoliced, NEW c \in Conns, Close(c), engine' = engine
    PROVE  AllPoliced'
  BY ClosedPoliced, PolicedUpdate DEF Close

\* A reload adds the new policy to what every open connection has seen.
LEMMA ReloadPoliced ==
    ASSUME NEW s \in Connections, NEW e, NEW f, Policed(s, e), s.pc # "idle"
    PROVE  Policed([s EXCEPT !.since = @ \cup {f}], f)
  <1> DEFINE r == [s EXCEPT !.since = @ \cup {f}]
  <1>1. /\ r.pc = s.pc /\ r.kind = s.kind /\ r.chain = s.chain /\ r.dest = s.dest
        /\ r.ips = s.ips /\ r.addr = s.addr /\ r.l7 = s.l7 /\ r.tunnel = s.tunnel
        /\ r.sent = s.sent /\ r.raw = s.raw /\ r.since = s.since \cup {f}
    BY DEF Connections
  <1> HIDE DEF r
  <1>2. Placed(r)
    BY <1>1 DEF Policed, Placed
  <1>3. Addressed(r)
    BY <1>1 DEF Policed, Addressed
  <1>4. Evaluated(r)
    BY <1>1 DEF Policed, Evaluated
  <1>5. Exempt(r)
    BY <1>1 DEF Policed, Exempt, Answered
  <1>6. Policed(r, f)
    BY <1>1, <1>2, <1>3, <1>4, <1>5 DEF Policed
  <1> QED BY <1>6 DEF r

LEMMA SetupPoliced ==
    ASSUME ProxyTypeOK, AllPoliced, NEW c \in Conns, Setup(c)
    PROVE  AllPoliced'
  <1> DEFINE s == conn[c]
  <1>0. s \in Connections /\ Policed(s, engine)
    BY DEF ProxyTypeOK, AllPoliced
  <1>1. CASE Receive(c)
    <2>1. PICK k \in {"connect", "forward"}, ch \in Chains, d \in Dests :
            conn' = [conn EXCEPT ![c] =
                [Closed EXCEPT !.pc = "identify", !.kind = k, !.chain = ch, !.dest = d,
                               !.todo = ch, !.since = {engine}]]
      BY <1>1 DEF Receive
    <2> DEFINE r == [Closed EXCEPT !.pc = "identify", !.kind = k, !.chain = ch, !.dest = d,
                                   !.todo = ch, !.since = {engine}]
    <2>2. /\ r.pc = "identify" /\ r.ips = {} /\ r.addr = None /\ r.sent = None
          /\ r.since = {engine}
      BY DEF Closed
    <2>3. None \notin Addresses
      BY ProxyAssumption
    <2>4. conn' = [conn EXCEPT ![c] = r] /\ engine' = engine
      BY <1>1, <2>1 DEF Receive
    <2> HIDE DEF r
    <2>5. Policed(r, engine)
      BY <2>2, <2>3 DEF Policed, Placed, Addressed, Evaluated, Exempt, Addresses
    <2> QED BY <2>4, <2>5, PolicedUpdate
  <1>2. CASE Unidentified(c)
    BY <1>2, ClosePoliced DEF Unidentified, Refuse
  <1>3. CASE UNCHANGED <<spawned, engine, conn>>
    BY <1>3 DEF AllPoliced
  <1>4. CASE Identified(c)
    <2>1. CASE Close(c)
      BY <1>4, <2>1, ClosePoliced DEF Identified
    <2>2. CASE conn' = [conn EXCEPT ![c].todo = Tail(@),
                                    ![c].pc = IF Len(conn[c].todo) = 1 THEN "decide" ELSE @]
      <3> DEFINE n == IF Len(conn[c].todo) = 1 THEN "decide" ELSE conn[c].pc
                 r == [conn[c] EXCEPT !.todo = Tail(@), !.pc = n]
      <3>1. conn' = [conn EXCEPT ![c] = r] /\ engine' = engine
        BY <1>4, <2>2 DEF Identified
      <3>2. n \in {"identify", "decide"} /\ s.pc = "identify"
        BY <1>4 DEF Identified
      <3> HIDE DEF n
      <3>3. /\ r.pc = n /\ r.kind = s.kind /\ r.chain = s.chain /\ r.dest = s.dest
            /\ r.ips = s.ips /\ r.addr = s.addr /\ r.l7 = s.l7 /\ r.tunnel = s.tunnel
            /\ r.sent = s.sent /\ r.raw = s.raw /\ r.since = s.since
        BY <1>0 DEF Connections
      <3> HIDE DEF r
      <3>4. Policed(r, engine)
        BY <1>0, <3>2, <3>3 DEF Policed, Placed, Addressed, Evaluated, Exempt
      <3> QED BY <3>1, <3>4, PolicedUpdate
    <2> QED BY <1>4, <2>1, <2>2 DEF Identified, Refuse
  <1>5. CASE Decide(c)
    <2>1. CASE Close(c)
      BY <1>5, <2>1, ClosePoliced DEF Decide
    <2>2. CASE To(c, IF conn[c].kind = "connect" THEN "ips" ELSE "l7")
      <3> DEFINE n == IF conn[c].kind = "connect" THEN "ips" ELSE "l7"
                 r == [conn[c] EXCEPT !.pc = n]
      <3>1. conn' = [conn EXCEPT ![c] = r] /\ engine' = engine
        BY <1>5, <2>2 DEF Decide, To
      <3>2. /\ s.kind = "connect" => n = "ips"
            /\ s.kind # "connect" => n = "l7"
            /\ s.pc = "decide"
        BY <1>5 DEF Decide
      <3> HIDE DEF n
      <3>3. /\ r.pc = n /\ r.kind = s.kind /\ r.chain = s.chain /\ r.dest = s.dest
            /\ r.ips = s.ips /\ r.addr = s.addr /\ r.l7 = s.l7 /\ r.tunnel = s.tunnel
            /\ r.sent = s.sent /\ r.raw = s.raw /\ r.since = s.since
        BY <1>0 DEF Connections
      <3> HIDE DEF r
      <3>4. Policed(r, engine)
        BY <1>0, <3>2, <3>3 DEF Policed, Placed, Addressed, Evaluated, Exempt
      <3> QED BY <3>1, <3>4, PolicedUpdate
    <2> QED BY <1>5, <2>1, <2>2 DEF Decide, Refuse
  <1>6. CASE QueryIps(c)
    <2> DEFINE i == ConfigOf(engine, s.dest, s.chain).ips
               r == [conn[c] EXCEPT !.pc = "resolve", !.ips = i]
    <2>1. conn' = [conn EXCEPT ![c] = r] /\ engine' = engine /\ s.pc = "ips"
      BY <1>6, RegoOf DEF QueryIps
    <2>2. /\ r.pc = "resolve" /\ r.kind = s.kind /\ r.chain = s.chain /\ r.dest = s.dest
          /\ r.ips = i /\ r.addr = s.addr /\ r.l7 = s.l7 /\ r.tunnel = s.tunnel
          /\ r.sent = s.sent /\ r.raw = s.raw /\ r.since = s.since
      BY <1>0 DEF Connections
    <2> HIDE DEF r
    <2>3. Addressed(r)
      BY <1>0, <2>1, <2>2 DEF Policed, Addressed
    <2> HIDE DEF i
    <2>4. Policed(r, engine)
      BY <1>0, <2>1, <2>2, <2>3 DEF Policed, Placed, Evaluated, Exempt, Answered
    <2> QED BY <2>1, <2>4, PolicedUpdate
  <1>7. CASE Resolve(c)
    <2>1. CASE Close(c)
      BY <1>7, <2>1, ClosePoliced DEF Resolve
    <2>2. ASSUME NEW answer \in SUBSET Addresses, Acceptable(c, answer), NEW a \in answer,
                 conn' = [conn EXCEPT ![c].pc = AfterConnect(c), ![c].addr = a, ![c].ips = {}]
          PROVE  AllPoliced'
      <3> DEFINE n == AfterConnect(c)
                 r == [conn[c] EXCEPT !.pc = n, !.addr = a, !.ips = {}]
      <3>1. conn' = [conn EXCEPT ![c] = r] /\ engine' = engine
        BY <1>7, <2>2 DEF Resolve
      <3>2. /\ s.kind = "connect" => n = "l7"
            /\ s.kind # "connect" => n = "send" /\ s.kind = "forward"
            /\ s.pc = "resolve"
        <4>1. s.kind \in {"connect", "forward"}
          BY <1>0 DEF Connections
        <4> QED BY <1>7, <4>1 DEF Resolve, AfterConnect
      <3> HIDE DEF n
      <3>3. /\ r.pc = n /\ r.kind = s.kind /\ r.chain = s.chain /\ r.dest = s.dest
            /\ r.ips = {} /\ r.addr = a /\ r.l7 = s.l7 /\ r.tunnel = s.tunnel
            /\ r.sent = s.sent /\ r.raw = s.raw /\ r.since = s.since
        BY <1>0 DEF Connections
      <3> HIDE DEF r
      <3>4. /\ a # "blocked"
            /\ a = "private" => s.dest \notin ControlPorts
            /\ a = "private" => s.dest \in Literal \/ "private" \in s.ips
        BY <2>2 DEF Acceptable, Listed
      <3>5. Addressed(r)
        BY <1>0, <3>3, <3>4 DEF Policed, Addressed
      <3>6. Policed(r, engine)
        BY <1>0, <3>2, <3>3, <3>5 DEF Policed, Placed, Evaluated, Exempt, Answered
      <3> QED BY <3>1, <3>6, PolicedUpdate
    <2> QED BY <1>7, <2>1, <2>2 DEF Resolve
  <1> QED BY <1>1, <1>2, <1>3, <1>4, <1>5, <1>6, <1>7 DEF Setup, Identify

LEMMA TunnelPoliced ==
    ASSUME ProxyTypeOK, AllPoliced, NEW c \in Conns, Tunnel(c)
    PROVE  AllPoliced'
  <1> DEFINE s == conn[c]
  <1>0. s \in Connections /\ Policed(s, engine)
    BY DEF ProxyTypeOK, AllPoliced
  <1>1. CASE QueryL7(c)
    <2> DEFINE l == ConfigOf(engine, s.dest, s.chain).l7
               r == [conn[c] EXCEPT !.pc = "tls", !.l7 = l]
    <2>1. /\ conn' = [conn EXCEPT ![c] = r] /\ engine' = engine
          /\ s.pc = "l7" /\ s.kind = "connect"
      BY <1>1, RegoOf DEF QueryL7
    <2>2. /\ r.pc = "tls" /\ r.kind = s.kind /\ r.chain = s.chain /\ r.dest = s.dest
          /\ r.ips = s.ips /\ r.addr = s.addr /\ r.l7 = l /\ r.tunnel = s.tunnel
          /\ r.sent = s.sent /\ r.raw = s.raw /\ r.since = s.since
      BY <1>0 DEF Connections
    <2> HIDE DEF r
    <2>3. Exempt(r)
      BY <1>0, <2>1, <2>2 DEF Policed, Exempt, Answered
    <2> HIDE DEF l
    <2>4. Policed(r, engine)
      BY <1>0, <2>1, <2>2, <2>3 DEF Policed, Placed, Addressed, Evaluated
    <2> QED BY <2>1, <2>4, PolicedUpdate
  <1>2. ASSUME NEW w \in {"skip", "sql", "other", "no ca"}, s.pc \in {"tls", "peek"},
               engine' = engine,
               conn' = [conn EXCEPT ![c].pc = "raw", ![c].raw = w],
               \/ w \in {"other", "no ca"}
               \/ w = "sql" /\ s.l7 = "sql"
               \/ w = "skip" /\ ConfigOf(engine, s.dest, s.chain).skip
        PROVE  AllPoliced'
    <2> DEFINE r == [conn[c] EXCEPT !.pc = "raw", !.raw = w]
    <2>1. conn' = [conn EXCEPT ![c] = r]
      BY <1>2
    <2>2. /\ r.pc = "raw" /\ r.kind = s.kind /\ r.chain = s.chain /\ r.dest = s.dest
          /\ r.ips = s.ips /\ r.addr = s.addr /\ r.l7 = s.l7 /\ r.tunnel = s.tunnel
          /\ r.sent = s.sent /\ r.raw = w /\ r.since = s.since
      BY <1>0 DEF Connections
    <2> HIDE DEF r
    <2>3. Exempt(r)
      BY <1>0, <1>2, <2>2 DEF Policed, Exempt, Answered
    <2>4. Policed(r, engine)
      BY <1>0, <1>2, <2>2, <2>3 DEF Policed, Placed, Addressed, Evaluated
    <2> QED BY <1>2, <2>1, <2>4, PolicedUpdate
  <1>3. ASSUME NEW n, engine' = engine, To(c, n),
               \/ n = "peek" /\ s.pc = "tls"
               \/ n = "passthrough" /\ s.pc = "peek" /\ s.l7 = "none"
        PROVE  AllPoliced'
    <2> DEFINE r == [conn[c] EXCEPT !.pc = n]
    <2>1. conn' = [conn EXCEPT ![c] = r]
      BY <1>3 DEF To
    <2>2. /\ r.pc = n /\ r.kind = s.kind /\ r.chain = s.chain /\ r.dest = s.dest
          /\ r.ips = s.ips /\ r.addr = s.addr /\ r.l7 = s.l7 /\ r.tunnel = s.tunnel
          /\ r.sent = s.sent /\ r.raw = s.raw /\ r.since = s.since
      BY <1>0 DEF Connections
    <2> HIDE DEF r
    <2>3. Policed(r, engine)
      BY <1>0, <1>3, <2>2 DEF Policed, Placed, Addressed, Evaluated, Exempt, Answered
    <2> QED BY <1>3, <2>1, <2>3, PolicedUpdate
  <1>4. CASE QueryTls(c)
    <2>1. /\ s.pc = "tls" /\ engine' = engine
          /\ \/ /\ ConfigOf(engine, s.dest, s.chain).skip
                /\ conn' = [conn EXCEPT ![c].pc = "raw", ![c].raw = "skip"]
             \/ To(c, "peek")
      BY <1>4, RegoOf DEF QueryTls, To
    <2>2. CASE To(c, "peek")
      BY <1>3, <2>1, <2>2
    <2>3. CASE /\ ConfigOf(engine, s.dest, s.chain).skip
               /\ conn' = [conn EXCEPT ![c].pc = "raw", ![c].raw = "skip"]
      BY <1>2, <2>1, <2>3
    <2> QED BY <2>1, <2>2, <2>3
  <1>5. CASE Peek(c)
    <2>1. CASE conn' = [conn EXCEPT ![c].pc = "inspect", ![c].tunnel = engine]
      <3> DEFINE r == [conn[c] EXCEPT !.pc = "inspect", !.tunnel = engine]
      <3>1. conn' = [conn EXCEPT ![c] = r] /\ engine' = engine /\ s.pc = "peek"
        BY <1>5, <2>1 DEF Peek
      <3>2. /\ r.pc = "inspect" /\ r.kind = s.kind /\ r.chain = s.chain /\ r.dest = s.dest
            /\ r.ips = s.ips /\ r.addr = s.addr /\ r.l7 = s.l7 /\ r.tunnel = engine
            /\ r.sent = s.sent /\ r.raw = s.raw /\ r.since = s.since
        BY <1>0 DEF Connections
      <3> HIDE DEF r
      <3>3. Policed(r, engine)
        BY <1>0, <3>1, <3>2 DEF Policed, Placed, Addressed, Evaluated, Exempt
      <3> QED BY <3>1, <3>3, PolicedUpdate
    <2>2. s.pc = "peek" /\ engine' = engine
      BY <1>5 DEF Peek
    <2>3. CASE s.l7 = "none" /\ To(c, "passthrough")
      BY <1>3, <2>2, <2>3
    <2>4. CASE s.l7 = "sql" /\ conn' = [conn EXCEPT ![c].pc = "raw", ![c].raw = "sql"]
      BY <1>2, <2>2, <2>4
    <2>5. CASE conn' = [conn EXCEPT ![c].pc = "raw", ![c].raw = "other"]
      BY <1>2, <2>2, <2>5
    <2>6. CASE conn' = [conn EXCEPT ![c].pc = "raw", ![c].raw = "no ca"]
      BY <1>2, <2>2, <2>6
    <2> QED BY <1>5, <2>1, <2>3, <2>4, <2>5, <2>6 DEF Peek
  <1>6. CASE Relay(c)
    <2>1. PICK q \in Requests :
            /\ Forwardable(c, q)
            /\ \/ conn' = [conn EXCEPT ![c].sent = q]
               \/ conn' = [conn EXCEPT ![c].sent = q, ![c].pc = "raw", ![c].raw = "upgrade"]
      BY <1>6 DEF Relay
    <2>2. /\ engine' = engine /\ q # None
          /\ \/ s.pc = "passthrough"
             \/ s.pc = "inspect" /\ s.l7 = "audit"
             \/ s.pc = "inspect" /\ AllowsOf(s.tunnel, s.dest, s.chain, q)
      BY <1>6, <2>1, RegoOf, ProxyAssumption DEF Relay, Forwardable
    <2>3. CASE conn' = [conn EXCEPT ![c].sent = q]
      <3> DEFINE r == [conn[c] EXCEPT !.sent = q]
      <3>1. conn' = [conn EXCEPT ![c] = r]
        BY <2>3
      <3>2. /\ r.pc = s.pc /\ r.kind = s.kind /\ r.chain = s.chain /\ r.dest = s.dest
            /\ r.ips = s.ips /\ r.addr = s.addr /\ r.l7 = s.l7 /\ r.tunnel = s.tunnel
            /\ r.sent = q /\ r.raw = s.raw /\ r.since = s.since
        BY <1>0 DEF Connections
      <3> HIDE DEF r
      <3>3. Placed(r) /\ Addressed(r)
        BY <1>0, <2>2, <3>2 DEF Policed, Placed, Addressed
      <3>4. Evaluated(r) /\ Exempt(r)
        BY <1>0, <2>2, <3>2 DEF Policed, Evaluated, Exempt, Answered
      <3>5. Policed(r, engine)
        BY <1>0, <2>2, <3>2, <3>3, <3>4 DEF Policed
      <3> QED BY <2>2, <3>1, <3>5, PolicedUpdate
    <2>4. CASE conn' = [conn EXCEPT ![c].sent = q, ![c].pc = "raw", ![c].raw = "upgrade"]
      <3> DEFINE r == [conn[c] EXCEPT !.sent = q, !.pc = "raw", !.raw = "upgrade"]
      <3>1. conn' = [conn EXCEPT ![c] = r]
        BY <2>4
      <3>2. /\ r.pc = "raw" /\ r.kind = s.kind /\ r.chain = s.chain /\ r.dest = s.dest
            /\ r.ips = s.ips /\ r.addr = s.addr /\ r.l7 = s.l7 /\ r.tunnel = s.tunnel
            /\ r.sent = q /\ r.raw = "upgrade" /\ r.since = s.since
        BY <1>0 DEF Connections
      <3> HIDE DEF r
      <3>3. Placed(r) /\ Addressed(r)
        BY <1>0, <2>2, <3>2 DEF Policed, Placed, Addressed
      <3>4. Evaluated(r) /\ Exempt(r)
        BY <1>0, <2>2, <3>2 DEF Policed, Evaluated, Exempt, Answered
      <3>5. Policed(r, engine)
        BY <1>0, <2>2, <3>2, <3>3, <3>4 DEF Policed
      <3> QED BY <2>2, <3>1, <3>5, PolicedUpdate
    <2> QED BY <2>1, <2>3, <2>4
  <1>7. CASE Deny(c) \/ Finish(c)
    BY <1>7, ClosePoliced DEF Deny, Finish
  <1> QED BY <1>1, <1>4, <1>5, <1>6, <1>7 DEF Tunnel

LEMMA ForwardPoliced ==
    ASSUME ProxyTypeOK, AllPoliced, NEW c \in Conns, Forward(c)
    PROVE  AllPoliced'
  <1> DEFINE s == conn[c]
  <1>0. s \in Connections /\ Policed(s, engine)
    BY DEF ProxyTypeOK, AllPoliced
  <1>1. CASE ForwardL7(c)
    <2> DEFINE l == ConfigOf(engine, s.dest, s.chain).l7
               n == IF l = "none" THEN "ips" ELSE "evaluate"
               r == [conn[c] EXCEPT !.pc = n, !.l7 = l]
    <2>1. /\ conn' = [conn EXCEPT ![c] = r] /\ engine' = engine
          /\ s.pc = "l7" /\ s.kind = "forward"
      <3>1. Config(engine, c).l7 = l
        BY RegoOf
      <3> QED BY <1>1, <3>1 DEF ForwardL7
    <2> HIDE DEF l
    <2>2. l = "none" => n = "ips"
      OBVIOUS
    <2>6. l # "none" => n = "evaluate"
      OBVIOUS
    <2> HIDE DEF n
    <2>3. /\ r.pc = n /\ r.kind = s.kind /\ r.chain = s.chain /\ r.dest = s.dest
          /\ r.ips = s.ips /\ r.addr = s.addr /\ r.l7 = l /\ r.tunnel = s.tunnel
          /\ r.sent = s.sent /\ r.raw = s.raw /\ r.since = s.since
      BY <1>0 DEF Connections
    <2> HIDE DEF r
    <2>4. Exempt(r)
      BY <1>0, <2>1, <2>2, <2>6, <2>3 DEF Policed, Exempt, Answered, l
    <2>5. Policed(r, engine)
      BY <1>0, <2>1, <2>2, <2>6, <2>3, <2>4 DEF Policed, Placed, Addressed, Evaluated
    <2> QED BY <2>1, <2>5, PolicedUpdate
  <1>2. CASE ForwardEvaluate(c)
    <2>1. CASE Close(c)
      BY <1>2, <2>1, ClosePoliced DEF ForwardEvaluate
    <2>2. ASSUME NEW q \in Requests, s.l7 # "enforce" \/ AllowsRequest(engine, c, q),
                 conn' = [conn EXCEPT ![c].pc = "ips", ![c].tunnel = engine, ![c].sent = q]
          PROVE  AllPoliced'
      <3> DEFINE r == [conn[c] EXCEPT !.pc = "ips", !.tunnel = engine, !.sent = q]
      <3>1. /\ conn' = [conn EXCEPT ![c] = r] /\ engine' = engine /\ s.pc = "evaluate"
            /\ s.kind = "forward" /\ q # None
        BY <1>0, <1>2, <2>2, ProxyAssumption DEF ForwardEvaluate, Policed, Placed
      <3>2. s.l7 # "enforce" \/ AllowsOf(engine, s.dest, s.chain, q)
        BY <2>2, RegoOf
      <3>3. /\ r.pc = "ips" /\ r.kind = s.kind /\ r.chain = s.chain /\ r.dest = s.dest
            /\ r.ips = s.ips /\ r.addr = s.addr /\ r.l7 = s.l7 /\ r.tunnel = engine
            /\ r.sent = q /\ r.raw = s.raw /\ r.since = s.since
        BY <1>0 DEF Connections
      <3> HIDE DEF r
      <3>4. Policed(r, engine)
        BY <1>0, <3>1, <3>2, <3>3 DEF Policed, Placed, Addressed, Evaluated, Exempt
      <3> QED BY <3>1, <3>4, PolicedUpdate
    <2> QED BY <1>2, <2>1, <2>2 DEF ForwardEvaluate, Refuse
  <1>3. CASE Send(c)
    <2> DEFINE r == [conn[c] EXCEPT !.pc = "raw", !.raw = "forward"]
    <2>1. conn' = [conn EXCEPT ![c] = r] /\ engine' = engine /\ s.pc = "send"
      BY <1>3 DEF Send
    <2>2. /\ r.pc = "raw" /\ r.kind = s.kind /\ r.chain = s.chain /\ r.dest = s.dest
          /\ r.ips = s.ips /\ r.addr = s.addr /\ r.l7 = s.l7 /\ r.tunnel = s.tunnel
          /\ r.sent = s.sent /\ r.raw = "forward" /\ r.since = s.since
      BY <1>0 DEF Connections
    <2> HIDE DEF r
    <2>3. Policed(r, engine)
      BY <1>0, <2>1, <2>2 DEF Policed, Placed, Addressed, Evaluated, Exempt, Answered
    <2> QED BY <2>1, <2>3, PolicedUpdate
  <1> QED BY <1>1, <1>2, <1>3 DEF Forward

LEMMA NextPoliced ==
    ASSUME ProxyTypeOK, AllPoliced, [Next]_vars
    PROVE  AllPoliced'
  <1>1. CASE UNCHANGED <<spawned, engine, conn>>
    BY <1>1 DEF AllPoliced
  <1>2. CASE Spawn
    BY <1>2 DEF Spawn, AllPoliced
  <1>3. CASE Reload
    <2>1. \A c \in Conns : conn'[c] = IF conn[c].pc = "idle" THEN conn[c]
                                      ELSE [conn[c] EXCEPT !.since = @ \cup {engine'}]
      BY <1>3 DEF Reload
    <2>2. PICK f : f = engine'
      OBVIOUS
    <2>3. ASSUME NEW c \in Conns
          PROVE  Policed(conn'[c], f)
      <3>1. conn[c] \in Connections /\ Policed(conn[c], engine)
        BY DEF ProxyTypeOK, AllPoliced
      <3>2. CASE conn[c].pc = "idle"
        <4>1. conn'[c] = Closed
          BY <2>1, <3>1, <3>2 DEF Policed, Placed
        <4> QED BY <4>1, ClosedPoliced
      <3>3. CASE conn[c].pc # "idle"
        <4>1. conn'[c] = [conn[c] EXCEPT !.since = @ \cup {f}]
          BY <2>1, <2>2, <3>3
        <4>2. Policed([conn[c] EXCEPT !.since = @ \cup {f}], f)
          BY <3>1, <3>3, ReloadPoliced
        <4> QED BY <4>1, <4>2
      <3> QED BY <3>2, <3>3
    <2> QED BY <2>2, <2>3 DEF AllPoliced
  <1> QED
    BY <1>1, <1>2, <1>3, SetupPoliced, TunnelPoliced, ForwardPoliced DEF Next, vars, OtherCall

LEMMA PolicedHolds == Spec => []AllPoliced
  <1>1. Init => AllPoliced
    BY ClosedPoliced DEF Init, AllPoliced
  <1>2. ProxyTypeOK /\ AllPoliced /\ [Next]_vars => AllPoliced'
    BY NextPoliced
  <1> QED BY <1>1, <1>2, ProxyTypes, PTL DEF Spec

\* No lookup and no reload makes the proxy connect to a blocked address, or to
\* a private one that no policy in force since the request arrived lists.
THEOREM LicensedAddresses == Spec => []AddressLicensed
  <1>1. AllPoliced => AddressLicensed
    <2> SUFFICES ASSUME AllPoliced, NEW c \in Conns
                 PROVE  /\ conn[c].addr # "blocked"
                        /\ conn[c].addr = "private" =>
                             /\ conn[c].dest \notin ControlPorts
                             /\ \/ conn[c].dest \in Literal
                                \/ \E p \in conn[c].since : "private" \in Config(p, c).ips
      BY DEF AddressLicensed
    <2>1. Addressed(conn[c])
      BY DEF AllPoliced, Policed
    <2>2. \A p : Config(p, c) = ConfigOf(p, conn[c].dest, conn[c].chain)
      BY RegoOf
    <2> QED BY <2>1, <2>2 DEF Addressed
  <1> QED BY <1>1, PolicedHolds, PTL

\* Whatever an enforced connection sends was allowed by a policy in force since
\* it arrived, also on a kept-alive tunnel whose copy is older than the engine.
THEOREM PolicyObeyed == Spec => []RequestsObeyPolicy
  <1>1. AllPoliced => RequestsObeyPolicy
    <2> SUFFICES ASSUME AllPoliced, NEW c \in Conns, conn[c].sent # None,
                        conn[c].l7 = "enforce"
                 PROVE  /\ conn[c].tunnel \in conn[c].since
                        /\ AllowsRequest(conn[c].tunnel, c, conn[c].sent)
      BY DEF RequestsObeyPolicy
    <2>1. Evaluated(conn[c])
      BY DEF AllPoliced, Policed
    <2>2. AllowsRequest(conn[c].tunnel, c, conn[c].sent)
            = AllowsOf(conn[c].tunnel, conn[c].dest, conn[c].chain, conn[c].sent)
      BY RegoOf
    <2> QED BY <2>1, <2>2 DEF Evaluated
  <1> QED BY <1>1, PolicedHolds, PTL

\* No sequence of reloads between the engine's answers makes a relay without
\* inspection of a connection that every policy since its arrival inspects.
THEOREM NoUninspectedRelay == Spec => []InspectedUnlessExempt
  <1>1. AllPoliced => InspectedUnlessExempt
    <2> SUFFICES ASSUME AllPoliced, NEW c \in Conns, conn[c].pc \in {"passthrough", "raw"},
                        \A p \in conn[c].since : Inspects(p, c)
                 PROVE  \/ conn[c].raw \in {"other", "no ca"}
                        \/ conn[c].raw \in {"upgrade", "forward"} /\ conn[c].sent # None
      BY DEF InspectedUnlessExempt
    <2>1. Exempt(conn[c])
      BY DEF AllPoliced, Policed
    <2>2. \A p \in conn[c].since :
            LET e == ConfigOf(p, conn[c].dest, conn[c].chain)
            IN  e.l7 \in {"audit", "enforce"} /\ ~e.skip
      BY RegoOf DEF Inspects, ConfigOf
    <2>3. ~Answered(conn[c], "none") /\ ~Answered(conn[c], "sql")
      BY <2>2 DEF Answered
    <2> QED BY <2>1, <2>2, <2>3 DEF Exempt
  <1> QED BY <1>1, PolicedHolds, PTL

-----------------------------------------------------------------------------
(* L7Framing: one request at a time, whose bytes and whose answer's bytes  *)
(* are on their way between client, relay and upstream.                    *)

Items ==
    [t : {"head", "unit", "last"}, id : 0..MaxRequests, method : {"GET", "HEAD", "POST"},
     frame : {"none", "length", "chunked", "both"}, len : 0..BodyUnits, upgrade : BOOLEAN,
     target : Targets \cup {"secret"}, header : Headers \cup {"secret"}, status : Nat, close : BOOLEAN]

ClRecs == [pc : {"idle", "wait", "body"}, need : Nat, from : SUBSET (0..MaxRequests)]
SvRecs == [pc : {"head", "body", "answer", "done"}, req : Items, need : Nat]
RlRecs ==
    [pc : {"parse", "eval", "forward", "body", "resp", "respbody", "eof", "raw", "closed"},
     req : Items, resp : Items, left : 0..BodyUnits]

L7Types ==
    /\ resolver \in BOOLEAN /\ inspected \in BOOLEAN /\ sent \in 0..MaxRequests
    /\ toProxy \in Seq(Items) /\ toServer \in Seq(Items) /\ toRelay \in Seq(Items) /\ toClient \in Seq(Items)
    /\ server \in SvRecs /\ cl \in ClRecs /\ rly \in RlRecs

\* What ends a chunked body comes at its end and nowhere else.
Closes(s, frame) == \A i \in DOMAIN s : s[i].t = IF frame = "chunked" /\ i = Len(s) THEN "last" ELSE "unit"
Owned(s, n) == \A i \in DOMAIN s : s[i].id = n

\* How many units the client reads behind the head of an answer.
Want(head) ==
    IF head.frame = "none" \/ head.method = "HEAD" \/ head.status \in {204, 304} THEN 0 ELSE Units(head)

\* A head h with all of its body, s, behind it.
Whole(h, s, n) ==
    /\ h.t = "head" /\ h.id = n /\ Len(s) = Units(h) /\ Closes(s, h.frame)
    /\ h.frame \in {"none", "both"} => h.len = 0

\* The client has, of the answer to request n, all but rest units before it or behind it.
Gets(c, s, n, rest) ==
    \/ c.pc = "idle" /\ s = <<>> /\ rest = 0
    \/ c.pc = "wait" /\ s # <<>> /\ ~Interim(s[1]) /\ Want(s[1]) = Len(s) - 1 + rest
    \/ c.pc = "body" /\ c.need = Len(s) + rest

\* The upstream has the request n of this method, or gets it with the units on their way.
Owing(v, s, n, method, rest) ==
    \/ v.pc = "head" /\ s # <<>> /\ Units(s[1]) = Len(s) - 1 + rest /\ s[1].id = n /\ s[1].method = method
    \/ v.pc = "body" /\ v.need = Len(s) + rest /\ v.req.id = n /\ v.req.method = method
    \/ v.pc = "answer" /\ rest = 0 /\ v.req.id = n /\ v.req.method = method
    \/ v.pc = "done"

\* An answer that is an interim one, whatever follows, or final and whole.
Answer1(v, s, n, method) ==
    /\ s # <<>> /\ s[1].t = "head" /\ s[1].id = n /\ s[1].method = method
    /\ Interim(s[1]) => v.pc # "body"
    /\ ~Interim(s[1]) =>
          /\ v.pc \in {"head", "done"} /\ Owned(s, n) /\ Want(s[1]) = Len(s) - 1
          /\ Want(s[1]) > 0 => Closes(Tail(s), s[1].frame)
          /\ s[1].frame # "both" 
          /\ s[1].status \in {101, 200, 204, 304}
          /\ s[1].close \/ s[1].status = 101 => v.pc = "done"

Quiet == toServer = <<>> /\ toRelay = <<>> /\ server.pc \in {"head", "done"}
Waiting == cl.pc = "wait" /\ toClient = <<>>

Parsing ==
    \/ toProxy # <<>> /\ Quiet /\ Waiting /\ Whole(toProxy[1], Tail(toProxy), sent)
    \/ toProxy = <<>> /\ Quiet /\ Gets(cl, toClient, sent, 0)
    \/ toProxy = <<>> /\ toServer = <<>> /\ cl.pc = "wait" /\ \A i \in DOMAIN toClient : Interim(toClient[i])

Forwarding == Quiet /\ Waiting /\ Whole(rly.req, toProxy, sent)
Sending ==
    /\ toRelay = <<>> /\ Waiting /\ toProxy # <<>> /\ Closes(toProxy, rly.req.frame)
    /\ rly.req.frame \in {"length", "chunked"} /\ (rly.req.frame = "length" => rly.left = Len(toProxy))
    /\ Owing(server, toServer, sent, rly.req.method, Len(toProxy))
Responding ==
    /\ Waiting /\ toProxy = <<>>
    /\ \/ toRelay = <<>> /\ Owing(server, toServer, sent, rly.req.method, 0)
       \/ toServer = <<>> /\ Answer1(server, toRelay, sent, rly.req.method)
Copying ==
    /\ toProxy = <<>> /\ toServer = <<>> /\ server.pc \in {"head", "done"}
    /\ toRelay # <<>> /\ Owned(toRelay, sent) /\ Closes(toRelay, rly.resp.frame)
    /\ rly.resp.frame \in {"length", "chunked"} /\ (rly.resp.frame = "length" => rly.left = Len(toRelay))
    /\ Gets(cl, toClient, sent, Len(toRelay))
Draining ==
    /\ toServer = <<>> /\ toRelay = <<>> /\ server.pc = "done"
    /\ Gets(cl, toClient, sent, 0) \/ Waiting

Phase ==
    /\ rly.pc = "parse" => Parsing
    /\ rly.pc \in {"eval", "forward"} => Forwarding
    /\ rly.pc = "body" => Sending
    /\ rly.pc = "resp" => Responding
    /\ rly.pc = "respbody" => Copying
    /\ rly.pc = "eof" => Draining

\* Whatever becomes of the connection, the client reads what is of its request,
\* beginning with a head, and the upstream a head with no more behind it than its body.
ClientTrue(c, s, n) ==
    /\ c.from \subseteq {n} /\ Owned(s, n)
    /\ c.pc = "body" => c.need > 0
    /\ c.pc = "wait" /\ s # <<>> => s[1].t = "head" /\ (Interim(s[1]) => Len(s) = 1)
ServerTrue(v, s) ==
    /\ v.pc = "head" /\ s # <<>> => s[1].t = "head" /\ Len(s) - 1 <= Units(s[1])
    /\ v.pc = "body" => v.need > 0 /\ Len(s) <= v.need
    /\ v.pc = "answer" => s = <<>>

L7Inv ==
    /\ L7Types /\ Phase
    /\ ClientTrue(cl, toClient, sent) /\ ServerTrue(server, toServer) /\ PlaceholdersResolved

LEMMA L7Bounds ==
    /\ BodyUnits \in Nat /\ MaxRequests \in Nat /\ 0 \in 0..BodyUnits /\ 1 \in 0..BodyUnits /\ 0 \in 0..MaxRequests
    /\ \A s \in Statuses : s \in Nat /\ (s \in 100..199 \/ s \in {200, 204, 304})
  BY L7Assumption

LEMMA Head0Is ==
    /\ Head0 \in Items /\ Head0.t = "head" /\ Head0.id = 0 /\ Head0.method = "GET" /\ Head0.frame = "none" /\ Head0.len = 0
    /\ Head0.status = 0 /\ Head0.target = "plain" /\ Head0.header = "plain"
  BY L7Bounds DEF Head0, Items, Targets, Headers

LEMMA RestingIs ==
    ASSUME NEW pc \in {"parse", "eval", "forward", "body", "resp", "respbody", "eof", "raw", "closed"}
    PROVE  Resting(pc) \in RlRecs /\ Resting(pc).pc = pc
  BY Head0Is, L7Bounds DEF Resting, RlRecs

LEMMA UnitsAre ==
    ASSUME NEW h \in Items
    PROVE  /\ Units(h) \in Nat /\ h.len \in Nat
           /\ h.frame = "chunked" => Units(h) = h.len + 1
           /\ h.frame # "chunked" => Units(h) = h.len
           /\ Want(h) \in Nat
  <1>1. h.len \in Nat
    BY L7Bounds DEF Items
  <1>2. /\ Units(h) \in Nat
        /\ h.frame = "chunked" => Units(h) = h.len + 1
        /\ h.frame # "chunked" => Units(h) = h.len
    BY <1>1 DEF Units
  <1> QED BY <1>1, <1>2 DEF Want

LEMMA UnitIs ==
    ASSUME NEW n \in 0..MaxRequests
    PROVE  /\ Unit(n) \in Items /\ Unit(n).t = "unit" /\ Unit(n).id = n
           /\ LastChunk(n) \in Items /\ LastChunk(n).t = "last" /\ LastChunk(n).id = n
  <1>1. Unit(n) \in Items /\ Unit(n).t = "unit" /\ Unit(n).id = n
    BY Head0Is DEF Items, Unit
  <1>2. LastChunk(n) \in Items /\ LastChunk(n).t = "last" /\ LastChunk(n).id = n
    BY Head0Is DEF Items, LastChunk
  <1> QED BY <1>1, <1>2

LEMMA BodyIs ==
    ASSUME NEW n \in 0..MaxRequests, NEW frame, NEW len \in 0..BodyUnits
    PROVE  /\ Body(n, frame, len) \in Seq(Items) /\ Owned(Body(n, frame, len), n) /\ Closes(Body(n, frame, len), frame)
           /\ Len(Body(n, frame, len)) = len + IF frame = "chunked" THEN 1 ELSE 0
  <1> DEFINE u == [i \in 1..len |-> Unit(n)]
             e == IF frame = "chunked" THEN <<LastChunk(n)>> ELSE <<>>
             b == u \o e
  <1>1. len \in Nat
    BY L7Bounds
  <1>2. u \in Seq(Items) /\ Len(u) = len /\ \A i \in 1..len : u[i] = Unit(n)
    BY <1>1, UnitIs
  <1>3. e \in Seq(Items) /\ Len(e) = (IF frame = "chunked" THEN 1 ELSE 0) /\ (frame = "chunked" => e[1] = LastChunk(n))
    BY UnitIs
  <1> HIDE DEF u, e
  <1>a. u \in Seq(Items) /\ e \in Seq(Items)
    BY <1>2, <1>3
  <1>4. /\ b \in Seq(Items) /\ Len(b) = Len(u) + Len(e)
        /\ \A i \in DOMAIN b : IF i <= Len(u) THEN b[i] = u[i] ELSE b[i] = e[i - Len(u)]
    BY <1>a
  <1>5. Body(n, frame, len) = b
    BY DEF Body, u, e
  <1>6. Len(b) = len + IF frame = "chunked" THEN 1 ELSE 0
    BY <1>1, <1>2, <1>3, <1>4
  <1> HIDE DEF b
  <1>7. \A i \in DOMAIN b : b[i] = IF frame = "chunked" /\ i = Len(b) THEN LastChunk(n) ELSE Unit(n)
    <2> TAKE i \in DOMAIN b
    <2>1. i \in 1..Len(b)
      BY <1>4
    <2>2. CASE i <= len
      BY <1>1, <1>2, <1>4, <1>6, <2>1, <2>2
    <2>3. CASE i > len
      <3>1. frame = "chunked" /\ i = len + 1
        BY <1>1, <1>6, <2>1, <2>3
      <3>2. b[i] = e[1]
        BY <1>1, <1>2, <1>4, <2>1, <2>3, <3>1
      <3> QED BY <1>3, <1>6, <3>1, <3>2
    <2> QED BY <1>1, <2>1, <2>2, <2>3
  <1>8. Owned(b, n) /\ Closes(b, frame)
    BY <1>7, UnitIs DEF Owned, Closes
  <1> QED BY <1>4, <1>5, <1>6, <1>8

\* What is left of a stream from a position on is as the stream was.
LEMMA LaterPart ==
    ASSUME NEW s \in Seq(Items), NEW k \in 0..Len(s)
    PROVE  LET r == SubSeq(s, k + 1, Len(s))
           IN  /\ r \in Seq(Items) /\ Len(r) = Len(s) - k
               /\ \A n : Owned(s, n) => Owned(r, n)
               /\ \A f : Closes(s, f) => Closes(r, f)
  <1> DEFINE r == SubSeq(s, k + 1, Len(s))
  <1>1. Len(s) \in Nat /\ k \in Nat
    OBVIOUS
  <1>2. r \in Seq(Items) /\ Len(r) = Len(s) - k /\ \A i \in 1..Len(r) : r[i] = s[i + k]
    BY <1>1
  <1> HIDE DEF r
  <1>3. \A i \in DOMAIN r : i + k \in DOMAIN s /\ r[i] = s[i + k] /\ (i = Len(r) <=> i + k = Len(s))
    BY <1>1, <1>2
  <1>4. \A n : Owned(s, n) => Owned(r, n)
    BY <1>3 DEF Owned
  <1>5. ASSUME NEW f, Closes(s, f) PROVE Closes(r, f)
    BY <1>3, <1>5 DEF Closes
  <1> QED BY <1>2, <1>4, <1>5 DEF r

LEMMA BehindHead ==
    ASSUME NEW s \in Seq(Items), s # <<>>
    PROVE  /\ Head(s) = s[1] /\ s[1] \in Items /\ Tail(s) \in Seq(Items) /\ Len(Tail(s)) = Len(s) - 1 /\ Len(s) \in Nat \ {0}
           /\ \A i \in DOMAIN Tail(s) : i + 1 \in DOMAIN s /\ Tail(s)[i] = s[i + 1]
           /\ \A n : Owned(s, n) => s[1].id = n /\ Owned(Tail(s), n)
           /\ (Tail(s) = <<>>) <=> (Len(s) = 1)
  <1>1. /\ Head(s) = s[1] /\ s[1] \in Items /\ Tail(s) \in Seq(Items) /\ Len(Tail(s)) = Len(s) - 1 /\ Len(s) \in Nat \ {0}
        /\ \A i \in DOMAIN Tail(s) : i + 1 \in DOMAIN s /\ Tail(s)[i] = s[i + 1]
    OBVIOUS
  <1>2. \A n : Owned(s, n) => s[1].id = n /\ Owned(Tail(s), n)
    BY <1>1 DEF Owned
  <1>3. (Tail(s) = <<>>) <=> (Len(s) = 1)
    BY <1>1
  <1> QED BY <1>1, <1>2, <1>3

\* The end of a chunked body is found in what was read if everything was read.
LEMMA EndFound ==
    ASSUME NEW s \in Seq(Items), NEW n \in 0..Len(s), NEW f, Closes(s, f)
    PROVE  LET r == SubSeq(s, 1, n)
           IN  /\ r \in Seq(Items) /\ Len(r) = n /\ (\A i \in DOMAIN r : i \in DOMAIN s /\ r[i] = s[i])
               /\ RelayChunked(r) <=> (f = "chunked" /\ n = Len(s) /\ n > 0)
               /\ \A m : Owned(s, m) => Owned(r, m)
  <1> DEFINE r == SubSeq(s, 1, n)
  <1>1. r \in Seq(Items) /\ Len(r) = n /\ (\A i \in DOMAIN r : i \in DOMAIN s /\ r[i] = s[i]) /\ DOMAIN r = 1..n /\ Len(s) \in Nat
    OBVIOUS
  <1> HIDE DEF r
  <1>2. ASSUME RelayChunked(r) PROVE f = "chunked" /\ n = Len(s) /\ n > 0
    <2>1. PICK i \in DOMAIN r : r[i].t = "last"
      BY <1>2 DEF RelayChunked
    <2>2. f = "chunked" /\ i = Len(s)
      BY <1>1, <2>1 DEF Closes
    <2> QED BY <1>1, <2>1, <2>2
  <1>3. ASSUME f = "chunked", n = Len(s), n > 0 PROVE RelayChunked(r)
    <2>1. n \in DOMAIN r
      BY <1>1, <1>3
    <2>2. r[n].t = "last"
      BY <1>1, <1>3, <2>1 DEF Closes
    <2> QED BY <2>1, <2>2 DEF RelayChunked
  <1>4. \A m : Owned(s, m) => Owned(r, m)
    BY <1>1 DEF Owned
  <1> QED BY <1>1, <1>2, <1>3, <1>4 DEF r

LEMMA Joined ==
    ASSUME NEW s \in Seq(Items), NEW r \in Seq(Items)
    PROVE  /\ s \o r \in Seq(Items) /\ Len(s \o r) = Len(s) + Len(r)
           /\ s # <<>> => s \o r # <<>> /\ (s \o r)[1] = s[1]
           /\ \A i \in DOMAIN (s \o r) : (\E j \in DOMAIN s : (s \o r)[i] = s[j]) \/ (\E j \in DOMAIN r : (s \o r)[i] = r[j])
           /\ \A n : Owned(s, n) /\ Owned(r, n) => Owned(s \o r, n)
  <1> DEFINE q == s \o r
  <1>1. q \in Seq(Items) /\ Len(q) = Len(s) + Len(r) /\ Len(s) \in Nat /\ Len(r) \in Nat
        /\ \A i \in 1..Len(q) : q[i] = IF i <= Len(s) THEN s[i] ELSE r[i - Len(s)]
    OBVIOUS
  <1> HIDE DEF q
  <1>2. s # <<>> => q # <<>> /\ q[1] = s[1]
    <2> SUFFICES ASSUME s # <<>> PROVE q # <<>> /\ q[1] = s[1]
      OBVIOUS
    <2>1. Len(s) >= 1
      OBVIOUS
    <2>2. Len(q) >= 1 /\ 1 \in 1..Len(q)
      BY <1>1, <2>1
    <2> QED BY <1>1, <2>1, <2>2
  <1>3. \A i \in DOMAIN q : (\E j \in DOMAIN s : q[i] = s[j]) \/ (\E j \in DOMAIN r : q[i] = r[j])
    <2> TAKE i \in DOMAIN q
    <2>1. i \in 1..Len(q)
      BY <1>1
    <2>2. i <= Len(s) => i \in DOMAIN s /\ q[i] = s[i]
      BY <1>1, <2>1
    <2>3. ~(i <= Len(s)) => i - Len(s) \in DOMAIN r /\ q[i] = r[i - Len(s)]
      BY <1>1, <2>1
    <2> QED BY <2>2, <2>3
  <1>4. \A n : Owned(s, n) /\ Owned(r, n) => Owned(q, n)
    BY <1>3 DEF Owned
  <1> QED BY <1>1, <1>2, <1>3, <1>4 DEF q

LEMMA RequestIs ==
    ASSUME NEW n \in 0..MaxRequests, NEW method \in {"GET", "HEAD", "POST"},
           NEW frame \in {"none", "length", "chunked", "both"}, NEW len \in 0..BodyUnits, NEW upgrade \in BOOLEAN,
           NEW target \in Targets, NEW header \in Headers
    PROVE  LET h == Request(n, method, frame, len, upgrade, target, header)
           IN  h \in Items /\ h.t = "head" /\ h.id = n /\ h.frame = frame /\ h.len = len
  BY Head0Is DEF Items, Request

LEMMA ResponseIs ==
    ASSUME NEW req \in Items, NEW status \in Nat, NEW frame \in {"none", "length", "chunked"}, NEW len \in 0..BodyUnits,
           NEW close \in BOOLEAN
    PROVE  LET h == Response(req, status, frame, len, close)
           IN  /\ h \in Items /\ h.t = "head" /\ h.id = req.id /\ h.frame = frame /\ h.len = len
               /\ h.method = req.method /\ h.status = status /\ h.close = close
  BY Head0Is DEF Items, Response

\* The client reads the first item of s and is d afterwards.
Reads(c, s, d) ==
    LET next == IF c.pc = "body" THEN c.need - 1 ELSE Want(s[1])
    IN  d.pc = (IF next = 0 THEN "idle" ELSE "body") /\ d.need = next

LEMMA GetsStep ==
    ASSUME NEW c \in ClRecs, NEW d \in ClRecs, NEW s \in Seq(Items), s # <<>>, NEW n, NEW rest \in Nat,
           c.pc # "idle", Gets(c, s, n, rest), Reads(c, s, d)
    PROVE  Gets(d, Tail(s), n, rest)
  <1>1. Len(Tail(s)) = Len(s) - 1 /\ Len(s) \in Nat \ {0} /\ ((Tail(s) = <<>>) <=> (Len(s) = 1)) /\ s[1] \in Items
    BY BehindHead
  <1>2. Want(s[1]) \in Nat
    BY <1>1, UnitsAre
  <1>3. d.need = Len(s) - 1 + rest /\ d.pc = IF d.need = 0 THEN "idle" ELSE "body"
    <2>1. CASE c.pc = "wait"
      BY <1>1, <1>2, <2>1 DEF Gets, Reads
    <2>2. CASE c.pc = "body"
      BY <1>1, <2>2 DEF Gets, Reads
    <2> QED BY <2>1, <2>2 DEF ClRecs
  <1>4. CASE d.need = 0
    <2>1. Len(s) = 1 /\ rest = 0
      BY <1>1, <1>3, <1>4
    <2> QED BY <1>1, <1>3, <1>4, <2>1 DEF Gets
  <1>5. CASE d.need # 0
    BY <1>1, <1>3, <1>5 DEF Gets
  <1> QED BY <1>4, <1>5

LEMMA OwingStep ==
    ASSUME NEW v \in SvRecs, NEW w \in SvRecs, NEW s \in Seq(Items), s # <<>>, NEW n, NEW m, NEW rest \in Nat,
           v.pc \in {"head", "body"}, ServerTrue(v, s),
           v.pc = "body" => w.need = v.need - 1 /\ w.req = v.req /\ w.pc = IF v.need = 1 THEN "answer" ELSE "body",
           v.pc = "head" => w.need = Units(s[1]) /\ w.req = s[1] /\ w.pc = IF Units(s[1]) > 0 THEN "body" ELSE "answer"
    PROVE  ServerTrue(w, Tail(s)) /\ (Owing(v, s, n, m, rest) => Owing(w, Tail(s), n, m, rest))
  <1>1. Len(Tail(s)) = Len(s) - 1 /\ Len(s) \in Nat \ {0} /\ ((Tail(s) = <<>>) <=> (Len(s) = 1)) /\ s[1] \in Items
    BY BehindHead
  <1>2. Units(s[1]) \in Nat
    BY <1>1, UnitsAre
  <1>3. CASE v.pc = "head"
    <2>1. Len(s) - 1 <= Units(s[1])
      BY <1>3 DEF ServerTrue
    <2>2. ServerTrue(w, Tail(s))
      BY <1>1, <1>2, <1>3, <2>1 DEF ServerTrue
    <2>3. ASSUME Owing(v, s, n, m, rest) PROVE Owing(w, Tail(s), n, m, rest)
      <3>1. Units(s[1]) = Len(s) - 1 + rest /\ s[1].id = n /\ s[1].method = m
        BY <1>3, <2>3 DEF Owing
      <3> QED BY <1>1, <1>2, <1>3, <3>1 DEF Owing
    <2> QED BY <2>2, <2>3
  <1>4. CASE v.pc = "body"
    <2>1. v.need > 0 /\ Len(s) <= v.need /\ v.need \in Nat
      BY <1>4 DEF ServerTrue, SvRecs
    <2>2. ServerTrue(w, Tail(s))
      BY <1>1, <1>4, <2>1 DEF ServerTrue
    <2>3. ASSUME Owing(v, s, n, m, rest) PROVE Owing(w, Tail(s), n, m, rest)
      <3>1. v.need = Len(s) + rest /\ v.req.id = n /\ v.req.method = m
        BY <1>4, <2>3 DEF Owing
      <3> QED BY <1>1, <1>4, <2>1, <3>1 DEF Owing
    <2> QED BY <2>2, <2>3
  <1> QED BY <1>3, <1>4

LEMMA OwingMore ==
    ASSUME NEW v \in SvRecs, NEW s \in Seq(Items), NEW r \in Seq(Items), NEW n, NEW m, NEW rest \in Nat,
           r # <<>>, Len(r) <= rest, ServerTrue(v, s), Owing(v, s, n, m, rest)
    PROVE  ServerTrue(v, s \o r) /\ Owing(v, s \o r, n, m, rest - Len(r))
  <1>1. Len(s \o r) = Len(s) + Len(r) /\ (s # <<>> => s \o r # <<>> /\ (s \o r)[1] = s[1]) /\ Len(s) \in Nat /\ Len(r) \in Nat \ {0}
    BY Joined
  <1> DEFINE q == s \o r
  <1> HIDE DEF q
  <1>2. Len(q) = Len(s) + Len(r) /\ (s # <<>> => q # <<>> /\ q[1] = s[1])
    BY <1>1 DEF q
  <1>3. CASE v.pc = "head"
    <2>1. s # <<>> /\ Units(s[1]) = Len(s) - 1 + rest /\ s[1].id = n /\ s[1].method = m /\ s[1].t = "head"
      BY <1>3 DEF Owing, ServerTrue
    <2>2. q # <<>> /\ q[1] = s[1]
      BY <1>2, <2>1
    <2>3. Units(q[1]) = Len(q) - 1 + (rest - Len(r)) /\ Len(q) - 1 <= Units(q[1])
      BY <1>1, <1>2, <2>1, <2>2
    <2>4. ServerTrue(v, q)
      BY <1>3, <2>1, <2>2, <2>3 DEF ServerTrue
    <2>5. Owing(v, q, n, m, rest - Len(r))
      BY <1>3, <2>1, <2>2, <2>3 DEF Owing
    <2> QED BY <2>4, <2>5 DEF q
  <1>4. CASE v.pc = "body"
    <2>1. v.need = Len(s) + rest /\ v.req.id = n /\ v.req.method = m /\ v.need > 0
      BY <1>4 DEF Owing, ServerTrue
    <2>2. v.need = Len(q) + (rest - Len(r)) /\ Len(q) <= v.need
      BY <1>1, <1>2, <2>1
    <2>3. ServerTrue(v, q)
      BY <1>4, <2>1, <2>2 DEF ServerTrue
    <2>4. Owing(v, q, n, m, rest - Len(r))
      BY <1>4, <2>1, <2>2 DEF Owing
    <2> QED BY <2>3, <2>4 DEF q
  <1>5. CASE v.pc = "answer"
    <2>1. rest = 0
      BY <1>5 DEF Owing
    <2> QED BY <1>1, <2>1
  <1>6. CASE v.pc = "done"
    BY <1>6 DEF ServerTrue, Owing
  <1> QED BY <1>3, <1>4, <1>5, <1>6 DEF SvRecs

LEMMA ClosedStep ==
    ASSUME L7Inv, CloseRelay, UNCHANGED <<resolver, inspected, sent, toProxy, toServer, toRelay, server, cl>>,
           toClient' \in Seq(Items), ClientTrue(cl, toClient', sent)
    PROVE  L7Inv'
  <1>1. rly' \in RlRecs /\ rly'.pc = "closed"
    BY RestingIs DEF CloseRelay
  <1>2. L7Types' /\ ServerTrue(server, toServer)' /\ ClientTrue(cl, toClient, sent)' /\ PlaceholdersResolved'
    BY <1>1 DEF L7Inv, L7Types, PlaceholdersResolved
  <1>3. Phase'
    BY <1>1 DEF Phase
  <1> QED BY <1>2, <1>3 DEF L7Inv

LEMMA ClientSendsStep ==
    ASSUME L7Inv, ClientSends
    PROVE  L7Inv'
  <1>1. /\ cl.pc = "idle" /\ sent < MaxRequests /\ rly.pc \notin {"raw", "closed"}
        /\ sent' = sent + 1 /\ cl' = [pc |-> "wait", need |-> 0, from |-> {}]
        /\ UNCHANGED <<resolver, inspected, toServer, toRelay, toClient, server, rly>>
    BY DEF ClientSends
  <1>2. PICK method \in {"GET", "HEAD", "POST"}, frame \in {"none", "length", "chunked", "both"}, len \in 0..BodyUnits,
             upgrade \in BOOLEAN, target \in Targets, header \in Headers :
             /\ frame \in {"none", "both"} => len = 0
             /\ method # "POST" => frame = "none"
             /\ upgrade => method = "GET" /\ target = "plain" /\ header = "plain"
             /\ target = "plain" \/ header = "plain"
             /\ toProxy' = toProxy \o <<Request(sent + 1, method, frame, len, upgrade, target, header)>>
                                   \o Body(sent + 1, frame, len)
    BY DEF ClientSends
  <1> DEFINE n == sent + 1
             h == Request(n, method, frame, len, upgrade, target, header)
             b == Body(n, frame, len)
  <1>3. L7Types /\ sent \in Nat /\ n \in 0..MaxRequests
    BY <1>1, L7Bounds DEF L7Inv, L7Types
  <1> HIDE DEF n
  <1>4. h \in Items /\ h.t = "head" /\ h.id = n /\ h.frame = frame /\ h.len = len
    BY <1>3, RequestIs
  <1>5. toProxy' = toProxy \o <<h>> \o b
    BY <1>2 DEF n
  <1>6. b \in Seq(Items) /\ Closes(b, frame) /\ Len(b) = len + IF frame = "chunked" THEN 1 ELSE 0
    BY <1>3, BodyIs
  <1> HIDE DEF h, b
  <1>7. toProxy' \in Seq(Items)
    BY <1>3, <1>4, <1>5, <1>6 DEF L7Types
  <1>8. cl' \in ClRecs /\ cl'.pc = "wait" /\ cl'.from = {}
    BY <1>1 DEF ClRecs
  <1>9. \/ rly.pc = "parse" /\ toProxy = <<>> /\ Quiet /\ toClient = <<>>
        \/ rly.pc = "eof" /\ Draining /\ toClient = <<>>
    <2>1. \A rest : Gets(cl, toClient, sent, rest) => toClient = <<>> /\ rest = 0
      BY <1>1 DEF Gets
    <2>2. ~Waiting
      BY <1>1 DEF Waiting
    <2>3. rly.pc \in {"parse", "eval", "forward", "body", "resp", "respbody", "eof"}
      BY <1>1, <1>3 DEF L7Types, RlRecs
    <2>4. rly.pc = "respbody" => FALSE
      <3>1. rly.pc = "respbody" => toRelay # <<>> /\ Len(toRelay) = 0
        BY <2>1 DEF L7Inv, Phase, Copying
      <3> QED BY <1>3, <3>1 DEF L7Types
    <2>5. rly.pc = "parse" => toProxy = <<>> /\ Quiet /\ toClient = <<>>
      BY <1>1, <2>1, <2>2 DEF L7Inv, Phase, Parsing
    <2>6. rly.pc = "eof" => Draining /\ toClient = <<>>
      BY <2>1, <2>2 DEF L7Inv, Phase, Draining
    <2>7. rly.pc \notin {"eval", "forward", "body", "resp"}
      BY <2>2 DEF L7Inv, Phase, Forwarding, Sending, Responding
    <2> QED BY <2>3, <2>4, <2>5, <2>6, <2>7
  <1>10. L7Types'
    BY <1>1, <1>3, <1>7, <1>8 DEF L7Types, n
  <1>11. ClientTrue(cl, toClient, sent)' /\ ServerTrue(server, toServer)' /\ PlaceholdersResolved'
    <2>1. toClient' = <<>>
      BY <1>1, <1>9
    <2>2. ClientTrue(cl', toClient', sent')
      BY <1>8, <2>1 DEF ClientTrue, Owned
    <2>3. ServerTrue(server, toServer)' /\ PlaceholdersResolved'
      BY <1>1 DEF L7Inv, PlaceholdersResolved
    <2> QED BY <2>2, <2>3
  <1>12. CASE rly.pc = "parse"
    <2>1. toProxy = <<>> /\ Quiet /\ toClient = <<>>
      BY <1>9, <1>12
    <2>2. toProxy' = <<h>> \o b
      BY <1>4, <1>5, <1>6, <2>1
    <2>3. toProxy' # <<>> /\ toProxy'[1] = h /\ Tail(toProxy') = b
      BY <1>4, <1>6, <2>2
    <2>4. Whole(h, b, n)
      <3>1. Len(b) = Units(h)
        BY <1>4, <1>6 DEF Units
      <3> QED BY <1>2, <1>4, <1>6, <3>1 DEF Whole
    <2>5. Quiet' /\ Waiting' /\ sent' = n
      BY <1>1, <1>8, <2>1 DEF Quiet, Waiting, n
    <2>6. Parsing'
      BY <2>3, <2>4, <2>5 DEF Parsing
    <2> QED BY <1>1, <1>10, <1>11, <1>12, <2>6 DEF L7Inv, Phase
  <1>13. CASE rly.pc = "eof"
    <2>1. Draining /\ toClient = <<>>
      BY <1>9, <1>13
    <2>2. Draining'
      BY <1>1, <1>8, <2>1 DEF Draining, Waiting
    <2> QED BY <1>1, <1>10, <1>11, <1>13, <2>2 DEF L7Inv, Phase
  <1> QED BY <1>9, <1>12, <1>13

LEMMA ClientReadsStep ==
    ASSUME L7Inv, ClientReads
    PROVE  L7Inv'
  <1> DEFINE x == Head(toClient)
  <1>1. /\ cl.pc \in {"wait", "body"} /\ toClient # <<>> /\ toClient' = Tail(toClient)
        /\ UNCHANGED <<resolver, inspected, sent, toProxy, toServer, toRelay, server, rly>>
    BY DEF ClientReads
  <1>2. L7Types /\ ClientTrue(cl, toClient, sent) /\ cl \in ClRecs /\ toClient \in Seq(Items)
    BY DEF L7Inv, L7Types
  <1>3. /\ x = toClient[1] /\ x \in Items /\ toClient' \in Seq(Items) /\ x.id = sent /\ Owned(toClient', sent)
        /\ Len(toClient') = Len(toClient) - 1 /\ Len(toClient) \in Nat \ {0} /\ ((toClient' = <<>>) <=> (Len(toClient) = 1))
        /\ \A i \in DOMAIN toClient' : i + 1 \in DOMAIN toClient /\ toClient'[i] = toClient[i + 1]
    BY <1>1, <1>2, BehindHead DEF ClientTrue
  <1>4. cl.from \subseteq {sent} /\ sent \in 0..MaxRequests /\ cl.need \in Nat /\ (cl.pc = "body" => cl.need > 0)
    BY <1>2 DEF ClientTrue, L7Types, ClRecs
  <1>5. cl.pc = "wait" => x.t = "head" /\ (Interim(x) => Len(toClient) = 1)
    BY <1>1, <1>2, <1>3 DEF ClientTrue
  <1>6. Want(x) \in Nat
    BY <1>3, UnitsAre
  <1> DEFINE bodiless == x.method = "HEAD" \/ x.status \in {204, 304}
             end == x.frame = "none" \/ bodiless \/ (x.frame = "length" /\ x.len = 0)
             next == IF cl.pc = "body" THEN cl.need - 1 ELSE IF end THEN 0 ELSE Units(x)
             nxt == IF cl.pc = "body" THEN cl.need - 1 ELSE Want(x)
  <1>7. cl' = IF cl.pc = "wait" /\ x.t # "head" THEN [cl EXCEPT !.from = @ \cup {0}]
              ELSE IF cl.pc = "wait" /\ Interim(x) THEN [cl EXCEPT !.from = @ \cup {x.id}]
              ELSE [pc |-> IF next = 0 THEN "idle" ELSE "body", need |-> next, from |-> cl.from \cup {x.id}]
    BY DEF ClientReads
  <1>8. next = nxt
    <2>1. x.frame = "length" /\ x.len = 0 => Units(x) = 0
      BY <1>3, UnitsAre
    <2> QED BY <2>1 DEF Want
  <1>9. nxt \in Nat
    BY <1>4, <1>6
  <1> HIDE DEF x, next
  <1>10. CASE cl.pc = "wait" /\ Interim(x)
    <2>1. cl' = [cl EXCEPT !.from = @ \cup {x.id}] /\ toClient' = <<>>
      BY <1>3, <1>5, <1>7, <1>10
    <2>2. cl' \in ClRecs /\ cl'.pc = "wait" /\ cl'.from \subseteq {sent}
      BY <1>2, <1>3, <1>4, <1>10, <2>1 DEF ClRecs
    <2>3. L7Types' /\ ClientTrue(cl, toClient, sent)' /\ ServerTrue(server, toServer)' /\ PlaceholdersResolved'
      BY <1>1, <1>2, <1>3, <2>1, <2>2 DEF L7Inv, L7Types, ClientTrue, PlaceholdersResolved
    <2>4. \A rest : ~Gets(cl, toClient, sent, rest)
      BY <1>3, <1>10 DEF Gets
    <2>5. ~Waiting
      BY <1>1 DEF Waiting
    <2>6. rly.pc = "parse" => Parsing'
      <3>1. rly.pc = "parse" => toProxy = <<>> /\ toServer = <<>>
        BY <2>4, <2>5 DEF L7Inv, Phase, Parsing
      <3> QED BY <1>1, <2>1, <2>2, <3>1 DEF Parsing
    <2>7. rly.pc \notin {"eval", "forward", "body", "resp", "respbody", "eof"}
      BY <2>4, <2>5 DEF L7Inv, Phase, Forwarding, Sending, Responding, Copying, Draining
    <2> QED BY <1>1, <2>3, <2>6, <2>7 DEF L7Inv, Phase
  <1>11. CASE ~(cl.pc = "wait" /\ Interim(x))
    <2>1. cl' = [pc |-> IF nxt = 0 THEN "idle" ELSE "body", need |-> nxt, from |-> cl.from \cup {x.id}]
      BY <1>5, <1>7, <1>8, <1>11
    <2> HIDE DEF nxt
    <2>2. cl' \in ClRecs /\ cl'.pc = (IF nxt = 0 THEN "idle" ELSE "body") /\ cl'.need = nxt /\ cl'.from \subseteq {sent}
      BY <1>3, <1>4, <1>9, <2>1 DEF ClRecs
    <2>3. Reads(cl, toClient, cl')
      BY <1>3, <2>2 DEF Reads, nxt
    <2>4. \A rest \in Nat : Gets(cl, toClient, sent, rest) => Gets(cl', toClient', sent', rest)
      BY <1>1, <1>2, <2>2, <2>3, GetsStep
    <2>5. ClientTrue(cl', toClient', sent')
      BY <1>1, <1>3, <1>9, <2>2 DEF ClientTrue
    <2>6. L7Types' /\ ServerTrue(server, toServer)' /\ PlaceholdersResolved'
      BY <1>1, <1>2, <1>3, <2>2 DEF L7Inv, L7Types, PlaceholdersResolved
    <2>7. ~Waiting /\ ~(toClient # <<>> /\ cl.pc = "wait" /\ \A i \in DOMAIN toClient : Interim(toClient[i]))
      BY <1>1, <1>2, <1>3, <1>11 DEF Waiting
    <2>8. rly.pc \notin {"eval", "forward", "body", "resp"}
      BY <2>7 DEF L7Inv, Phase, Forwarding, Sending, Responding
    <2>9. rly.pc = "parse" => Parsing'
      <3>1. rly.pc = "parse" => toProxy = <<>> /\ Quiet /\ Gets(cl, toClient, sent, 0)
        BY <1>1, <2>7 DEF L7Inv, Phase, Parsing
      <3> QED BY <1>1, <2>4, <3>1 DEF Parsing, Quiet
    <2>10. rly.pc = "respbody" => Copying'
      <3> SUFFICES ASSUME rly.pc = "respbody" PROVE Copying'
        OBVIOUS
      <3>1. Copying
        BY DEF L7Inv, Phase
      <3>2. Len(toRelay) \in Nat
        BY <1>2 DEF L7Types
      <3>3. Gets(cl', toClient', sent', Len(toRelay))
        BY <2>4, <3>1, <3>2 DEF Copying
      <3> QED BY <1>1, <3>1, <3>3 DEF Copying
    <2>11. rly.pc = "eof" => Draining'
      <3>1. rly.pc = "eof" => Draining /\ Gets(cl, toClient, sent, 0)
        BY <2>7 DEF L7Inv, Phase, Draining
      <3> QED BY <1>1, <2>4, <3>1 DEF Draining
    <2> QED BY <1>1, <2>5, <2>6, <2>8, <2>9, <2>10, <2>11 DEF L7Inv, Phase
  <1> QED BY <1>10, <1>11

LEMMA ParseStep ==
    ASSUME L7Inv, ParseHttpRequest
    PROVE  L7Inv'
  <1> DEFINE x == Head(toProxy)
  <1>1. /\ rly.pc = "parse" /\ toProxy # <<>>
        /\ UNCHANGED <<resolver, inspected, sent, toServer, toRelay, toClient, server, cl>>
        /\ \/ toProxy' = Tail(toProxy) /\ rly' = [rly EXCEPT !.pc = "eval", !.req = x]
           \/ CloseRelay /\ UNCHANGED toProxy
    BY DEF ParseHttpRequest
  <1>2. L7Types /\ toProxy \in Seq(Items) /\ rly \in RlRecs
    BY DEF L7Inv, L7Types
  <1>3. CASE CloseRelay /\ UNCHANGED toProxy
    BY <1>1, <1>2, <1>3, ClosedStep DEF L7Inv, L7Types
  <1>4. CASE toProxy' = Tail(toProxy) /\ rly' = [rly EXCEPT !.pc = "eval", !.req = x]
    <2>1. x = toProxy[1] /\ x \in Items /\ Tail(toProxy) \in Seq(Items)
      BY <1>1, <1>2, BehindHead
    <2>2. Quiet /\ Waiting /\ Whole(x, Tail(toProxy), sent)
      BY <1>1, <2>1 DEF L7Inv, Phase, Parsing
    <2> HIDE DEF x
    <2>3. rly' \in RlRecs /\ rly'.pc = "eval" /\ rly'.req = x
      BY <1>2, <1>4, <2>1 DEF RlRecs
    <2>4. L7Types' /\ ClientTrue(cl, toClient, sent)' /\ ServerTrue(server, toServer)' /\ PlaceholdersResolved'
      BY <1>1, <1>2, <1>4, <2>1, <2>3 DEF L7Inv, L7Types, PlaceholdersResolved
    <2>5. Forwarding'
      BY <1>1, <1>4, <2>2, <2>3 DEF Forwarding, Quiet, Waiting
    <2> QED BY <2>3, <2>4, <2>5 DEF L7Inv, Phase
  <1> QED BY <1>1, <1>3, <1>4

LEMMA DenyIs ==
    ASSUME L7Inv, rly.pc = "eval", NEW status \in {403, 500}, NEW len \in 0..1, SendDenyResponse(status, len)
    PROVE  toClient' \in Seq(Items) /\ ClientTrue(cl, toClient', sent)
  <1> DEFINE d == [rly.req EXCEPT !.status = status, !.frame = "length", !.len = len, !.close = TRUE]
             b == Body(rly.req.id, "length", len)
  <1>1. toClient' = toClient \o <<d>> \o b
    BY DEF SendDenyResponse
  <1>2. Waiting /\ rly.req \in Items /\ rly.req.t = "head" /\ rly.req.id = sent /\ cl.from \subseteq {sent} /\ sent \in 0..MaxRequests
    BY DEF L7Inv, Phase, Forwarding, Whole, L7Types, RlRecs, ClientTrue
  <1>3. len \in 0..BodyUnits /\ status \in Nat
    BY L7Bounds
  <1>4. d \in Items /\ d.t = "head" /\ d.id = sent /\ d.status = status
    BY <1>2, <1>3 DEF Items
  <1>5. b \in Seq(Items) /\ Owned(b, sent)
    BY <1>2, <1>3, BodyIs
  <1> HIDE DEF d, b
  <1>6. toClient = <<>> /\ cl.pc = "wait"
    BY <1>2 DEF Waiting
  <1> DEFINE q == <<d>>
  <1>7. q \in Seq(Items) /\ q # <<>> /\ q[1] = d /\ Owned(q, sent)
    BY <1>4 DEF Owned
  <1>8. toClient' = q \o b
    BY <1>1, <1>5, <1>6, <1>7
  <1> HIDE DEF q
  <1>9. toClient' \in Seq(Items) /\ toClient'[1] = d /\ Owned(toClient', sent)
    BY <1>5, <1>7, <1>8, Joined
  <1>10. ~Interim(d)
    BY <1>4 DEF Interim
  <1> QED BY <1>2, <1>4, <1>6, <1>9, <1>10 DEF ClientTrue

LEMMA DecideSteps ==
    ASSUME L7Inv, TargetFails \/ EvaluateRequest \/ PassThrough
    PROVE  L7Inv'
  <1>1. ASSUME rly.pc = "eval", UNCHANGED <<resolver, inspected, sent, toProxy, toServer, toRelay, server, cl>>, CloseRelay,
               NEW status \in {403, 500}, NEW len \in 0..1, SendDenyResponse(status, len)
        PROVE  L7Inv'
    BY <1>1, DenyIs, ClosedStep
  <1>2. ASSUME rly.pc = "eval", UNCHANGED <<resolver, inspected, sent, toProxy, toServer, toRelay, toClient, server, cl>>,
               rly' = [rly EXCEPT !.pc = "forward"]
        PROVE  L7Inv'
    <2>1. rly \in RlRecs
      BY DEF L7Inv, L7Types
    <2>2. rly' \in RlRecs /\ rly'.pc = "forward" /\ rly'.req = rly.req
      BY <1>2, <2>1 DEF RlRecs
    <2>3. Forwarding'
      BY <1>2, <2>2 DEF L7Inv, Phase, Forwarding, Quiet, Waiting
    <2>4. L7Types' /\ ClientTrue(cl, toClient, sent)' /\ ServerTrue(server, toServer)' /\ PlaceholdersResolved'
      BY <1>2, <2>2 DEF L7Inv, L7Types, PlaceholdersResolved
    <2> QED BY <2>2, <2>3, <2>4 DEF L7Inv, Phase
  <1>3. CASE TargetFails
    BY <1>1, <1>3 DEF TargetFails
  <1>4. CASE EvaluateRequest
    BY <1>1, <1>2, <1>4 DEF EvaluateRequest
  <1>5. CASE PassThrough
    BY <1>2, <1>5 DEF PassThrough
  <1> QED BY <1>3, <1>4, <1>5

\* What is forwarded has the framing of the request, and no placeholder.
LEMMA RewrittenHead ==
    ASSUME NEW h \in Items, RewriteHeaderBlock(h).t # "error", h.t = "head", resolver \in BOOLEAN
    PROVE  LET out == RewriteHeaderBlock(h)
           IN  /\ out \in Items /\ out.t = "head" /\ out.id = h.id /\ out.frame = h.frame /\ out.len = h.len /\ out.method = h.method
               /\ resolver => {out.target, out.header} \subseteq {"plain", "secret"}
  <1> DEFINE line == RewriteRequestLine(h.target)
             header == RewriteHeaderValue(h.header)
             out == RewriteHeaderBlock(h)
  <1>1. CASE ~resolver
    BY <1>1 DEF RewriteHeaderBlock
  <1>2. CASE resolver
    <2>1. out = IF line = "error" \/ Unresolved(line, header) THEN [h EXCEPT !.t = "error"]
                ELSE [h EXCEPT !.target = line, !.header = header]
      BY <1>2 DEF RewriteHeaderBlock
    <2>2. line # "error" /\ ~Unresolved(line, header)
      <3>1. [h EXCEPT !.t = "error"].t = "error"
        BY DEF Items
      <3> QED BY <2>1, <3>1
    <2>3. line \in {"plain", "encoded", "secret", "error"}
      BY DEF RewriteRequestLine, RewriteUriPath
    <2>4. line \in {"plain", "secret"}
      BY <2>2, <2>3 DEF Unresolved
    <2>5. header \in {"plain", "inside", "control", "secret"}
      <3>1. h.header \in Headers \cup {"secret"}
        BY DEF Items
      <3> QED BY <3>1 DEF RewriteHeaderValue, RewriteBasicAuthToken, Headers
    <2>6. header \in {"plain", "secret"}
      BY <2>2, <2>5 DEF Unresolved
    <2>7. out = [h EXCEPT !.target = line, !.header = header]
      BY <2>1, <2>2
    <2> HIDE DEF line, header, out
    <2>8. "plain" \in Targets /\ "plain" \in Headers
      BY DEF Targets, Headers
    <2>9. /\ out \in Items /\ out.t = "head" /\ out.id = h.id /\ out.frame = h.frame /\ out.len = h.len /\ out.method = h.method
          /\ out.target = line /\ out.header = header
      BY <2>4, <2>6, <2>7, <2>8 DEF Items
    <2> QED BY <2>4, <2>6, <2>9 DEF out
  <1> QED BY <1>1, <1>2

LEMMA ForwardHeadStep ==
    ASSUME L7Inv, ForwardHead
    PROVE  L7Inv'
  <1> DEFINE out == RewriteHeaderBlock(rly.req)
             pc2 == IF out.frame = "chunked" \/ out.len > 0 THEN "body" ELSE "resp"
             left2 == IF out.frame = "length" THEN out.len ELSE 0
  <1>1. /\ rly.pc = "forward"
        /\ UNCHANGED <<resolver, inspected, sent, toProxy, toRelay, toClient, server, cl>>
        /\ \/ CloseRelay /\ UNCHANGED toServer
           \/ out.t # "error" /\ toServer' = Append(toServer, out) /\ rly' = [rly EXCEPT !.pc = pc2, !.left = left2]
    BY DEF ForwardHead
  <1>2. /\ L7Types /\ rly \in RlRecs /\ rly.req \in Items /\ Quiet /\ Waiting /\ Whole(rly.req, toProxy, sent) /\ resolver \in BOOLEAN
        /\ toProxy \in Seq(Items)
    BY <1>1 DEF L7Inv, L7Types, RlRecs, Phase, Forwarding
  <1>3. CASE CloseRelay /\ UNCHANGED toServer
    BY <1>1, <1>2, <1>3, ClosedStep DEF L7Inv, L7Types
  <1>4. CASE out.t # "error" /\ toServer' = Append(toServer, out) /\ rly' = [rly EXCEPT !.pc = pc2, !.left = left2]
    <2>1. /\ out \in Items /\ out.t = "head" /\ out.id = sent /\ out.frame = rly.req.frame /\ out.len = rly.req.len
          /\ out.method = rly.req.method /\ (resolver => {out.target, out.header} \subseteq {"plain", "secret"})
      BY <1>2, <1>4, RewrittenHead DEF Whole
    <2> HIDE DEF out
    <2>2. toServer = <<>> /\ toServer' = <<out>> /\ server.pc \in {"head", "done"} /\ toRelay = <<>>
      BY <1>2, <1>4, <2>1 DEF Quiet
    <2>3. toServer' \in Seq(Items) /\ toServer' # <<>> /\ toServer'[1] = out /\ Len(toServer') = 1 /\ DOMAIN toServer' = {1}
      BY <2>1, <2>2
    <2>4. out.len \in 0..BodyUnits /\ out.len \in Nat /\ out.frame \in {"none", "length", "chunked", "both"}
      BY <2>1, L7Bounds DEF Items
    <2>5. pc2 \in {"body", "resp"} /\ left2 \in 0..BodyUnits
      BY <2>4, L7Bounds
    <2>6. /\ Units(out) \in Nat /\ (out.frame = "chunked" => Units(out) = out.len + 1)
          /\ (out.frame # "chunked" => Units(out) = out.len)
      BY <2>1, UnitsAre
    <2>7. Units(rly.req) = Units(out) /\ Len(toProxy) = Units(out) /\ Closes(toProxy, out.frame)
          /\ (out.frame \in {"none", "both"} => out.len = 0)
      BY <1>2, <2>1 DEF Units, Whole
    <2>8. pc2 = "body" => /\ Len(toProxy) > 0 /\ out.frame \in {"length", "chunked"}
                          /\ (out.frame = "length" => left2 = Len(toProxy))
      BY <2>4, <2>6, <2>7
    <2>9. pc2 = "resp" => Len(toProxy) = 0
      BY <2>4, <2>6, <2>7
    <2> HIDE DEF pc2, left2
    <2>10. rly' \in RlRecs /\ rly'.pc = pc2 /\ rly'.req = rly.req /\ rly'.left = left2
      BY <1>2, <1>4, <2>5 DEF RlRecs
    <2>11. ServerTrue(server', toServer')
      BY <1>1, <2>1, <2>2, <2>3, <2>6 DEF ServerTrue
    <2>12. Owing(server', toServer', sent, out.method, Len(toProxy))
      BY <1>1, <2>1, <2>2, <2>3, <2>7 DEF Owing
    <2>13. L7Types' /\ ClientTrue(cl, toClient, sent)' /\ PlaceholdersResolved'
      <3>1. PlaceholdersResolved'
        BY <1>1, <2>1, <2>3 DEF PlaceholdersResolved
      <3>2. L7Types'
        BY <1>1, <1>2, <2>3, <2>10 DEF L7Types
      <3>3. ClientTrue(cl, toClient, sent)'
        BY <1>1 DEF L7Inv
      <3> QED BY <3>1, <3>2, <3>3
    <2>14. Waiting'
      BY <1>1, <1>2 DEF Waiting
    <2>15. CASE pc2 = "body"
      <3>1. toProxy # <<>>
        BY <1>2, <2>8, <2>15
      <3>2. Sending'
        BY <1>1, <2>1, <2>2, <2>7, <2>8, <2>10, <2>12, <2>14, <2>15, <3>1 DEF Sending
      <3> QED BY <2>10, <2>11, <2>13, <2>15, <3>2 DEF L7Inv, Phase
    <2>16. CASE pc2 = "resp"
      <3>1. toProxy = <<>> /\ Len(toProxy) = 0
        BY <1>2, <2>9, <2>16
      <3>2. Responding'
        BY <1>1, <2>1, <2>2, <2>10, <2>12, <2>14, <3>1 DEF Responding
      <3> QED BY <2>10, <2>11, <2>13, <2>16, <3>2 DEF L7Inv, Phase
    <2> QED BY <2>5, <2>15, <2>16
  <1> QED BY <1>1, <1>3, <1>4

LEMMA RelayBodyStep ==
    ASSUME L7Inv, RelayBody
    PROVE  L7Inv'
  <1>1. /\ rly.pc = "body" /\ toProxy # <<>>
        /\ UNCHANGED <<resolver, inspected, sent, toRelay, toClient, server, cl>>
    BY DEF RelayBody
  <1>2. PICK n \in 1..Len(toProxy) :
          /\ rly.req.frame = "length" => n <= rly.left
          /\ toServer' = toServer \o SubSeq(toProxy, 1, n) /\ toProxy' = SubSeq(toProxy, n + 1, Len(toProxy))
          /\ rly' = IF rly.req.frame = "length"
                    THEN [rly EXCEPT !.left = RelayFixed(@, n), !.pc = IF RelayFixed(rly.left, n) = 0 THEN "resp" ELSE "body"]
                    ELSE [rly EXCEPT !.pc = IF RelayChunked(SubSeq(toProxy, 1, n)) THEN "resp" ELSE "body"]
    BY DEF RelayBody
  <1> DEFINE read == SubSeq(toProxy, 1, n)
             k == Len(toProxy)
             rest == SubSeq(toProxy, n + 1, k)
             f == rly.req.frame
  <1>3. L7Types /\ Sending /\ toProxy \in Seq(Items) /\ toServer \in Seq(Items) /\ rly \in RlRecs /\ server \in SvRecs
        /\ ServerTrue(server, toServer) /\ sent \in 0..MaxRequests
    BY <1>1 DEF L7Inv, Phase, L7Types
  <1>4. Closes(toProxy, f) /\ f \in {"length", "chunked"} /\ (f = "length" => rly.left = k) /\ Waiting /\ toRelay = <<>>
        /\ Owing(server, toServer, sent, rly.req.method, k)
    BY <1>3 DEF Sending
  <1>5. k \in Nat /\ n \in 0..k /\ n \in 1..k
    BY <1>3
  <1>6. /\ read \in Seq(Items) /\ Len(read) = n /\ (\A i \in DOMAIN read : i \in DOMAIN toProxy /\ read[i] = toProxy[i])
        /\ (RelayChunked(read) <=> (f = "chunked" /\ n = k /\ n > 0))
    BY <1>3, <1>4, <1>5, EndFound
  <1>7. rest \in Seq(Items) /\ Len(rest) = k - n /\ Closes(rest, f)
    BY <1>3, <1>4, <1>5, LaterPart
  <1>8. read # <<>> /\ toServer' = toServer \o read /\ toProxy' = rest
    BY <1>2, <1>5, <1>6
  <1> DEFINE pc2 == IF n = k THEN "resp" ELSE "body"
  <1>9. rly' \in RlRecs /\ rly'.pc = pc2 /\ rly'.req = rly.req /\ (f = "length" => rly'.left = k - n)
    <2>1. CASE f = "length"
      <3>1. RelayFixed(rly.left, n) = k - n /\ k - n \in 0..BodyUnits
        BY <1>3, <1>4, <1>5, <2>1, L7Bounds DEF RelayFixed, RlRecs
      <3> DEFINE l2 == RelayFixed(rly.left, n)
      <3>2. rly' = [rly EXCEPT !.left = l2, !.pc = IF l2 = 0 THEN "resp" ELSE "body"]
        BY <1>2, <2>1
      <3> HIDE DEF l2
      <3>3. l2 \in 0..BodyUnits /\ (l2 = 0 <=> n = k) /\ l2 = k - n
        BY <1>5, <3>1 DEF l2
      <3>4. rly' \in RlRecs /\ rly'.pc = (IF l2 = 0 THEN "resp" ELSE "body") /\ rly'.req = rly.req /\ rly'.left = l2
        BY <1>3, <3>2, <3>3 DEF RlRecs
      <3> QED BY <3>3, <3>4
    <2>2. CASE f = "chunked"
      <3>1. RelayChunked(read) <=> n = k
        BY <1>5, <1>6, <2>2
      <3>2. rly' = [rly EXCEPT !.pc = IF RelayChunked(read) THEN "resp" ELSE "body"]
        BY <1>2, <2>2
      <3>3. rly' = [rly EXCEPT !.pc = pc2]
        BY <3>1, <3>2
      <3> HIDE DEF pc2
      <3>4. pc2 \in {"resp", "body"}
        BY DEF pc2
      <3>5. rly' \in RlRecs /\ rly'.pc = pc2 /\ rly'.req = rly.req
        BY <1>3, <3>3, <3>4 DEF RlRecs
      <3> QED BY <2>2, <3>5
    <2> QED BY <1>4, <2>1, <2>2
  <1> HIDE DEF read, rest
  <1>10. ServerTrue(server, toServer \o read) /\ Owing(server, toServer \o read, sent, rly.req.method, k - n)
    <2>1. Len(read) <= k
      BY <1>5, <1>6
    <2>2. ServerTrue(server, toServer \o read) /\ Owing(server, toServer \o read, sent, rly.req.method, k - Len(read))
      BY <1>3, <1>4, <1>5, <1>6, <1>8, <2>1, OwingMore
    <2> QED BY <1>6, <2>2
  <1>11. PlaceholdersResolved'
    <2>1. \A i \in DOMAIN read : read[i].t # "head"
      BY <1>4, <1>6 DEF Closes
    <2>2. \A i \in DOMAIN toServer' : (\E j \in DOMAIN toServer : toServer'[i] = toServer[j]) \/ toServer'[i].t # "head"
      BY <1>3, <1>6, <1>8, <2>1, Joined
    <2>3. PlaceholdersResolved /\ resolver' = resolver
      BY <1>1 DEF L7Inv
    <2> QED BY <2>2, <2>3 DEF PlaceholdersResolved
  <1>12. toServer' \in Seq(Items)
    BY <1>3, <1>6, <1>8, Joined
  <1>13. L7Types'
    BY <1>1, <1>3, <1>7, <1>8, <1>9, <1>12 DEF L7Types
  <1>14. ClientTrue(cl, toClient, sent)' /\ ServerTrue(server, toServer)' /\ Waiting'
    BY <1>1, <1>4, <1>8, <1>10 DEF L7Inv, Waiting
  <1>15. CASE n = k
    <2>1. toProxy' = <<>> /\ k - n = 0
      BY <1>5, <1>7, <1>8, <1>15
    <2>2. Owing(server', toServer', sent', rly'.req.method, 0)
      BY <1>1, <1>8, <1>9, <1>10, <2>1
    <2>3. Responding'
      BY <1>1, <1>4, <1>14, <2>1, <2>2 DEF Responding
    <2> QED BY <1>9, <1>11, <1>13, <1>14, <1>15, <2>3 DEF L7Inv, Phase
  <1>16. CASE n # k
    <2>1. toProxy' # <<>> /\ Len(toProxy') = k - n
      BY <1>5, <1>7, <1>8, <1>16
    <2>2. Owing(server', toServer', sent', rly'.req.method, Len(toProxy'))
      BY <1>1, <1>8, <1>9, <1>10, <2>1
    <2>3. Sending'
      BY <1>1, <1>4, <1>7, <1>8, <1>9, <1>14, <2>1, <2>2 DEF Sending
    <2> QED BY <1>9, <1>11, <1>13, <1>14, <1>16, <2>3 DEF L7Inv, Phase
  <1> QED BY <1>15, <1>16

LEMMA ServerReadsStep ==
    ASSUME L7Inv, ServerReads
    PROVE  L7Inv'
  <1> DEFINE x == Head(toServer)
  <1>1. /\ server.pc \in {"head", "body"} /\ toServer # <<>> /\ toServer' = Tail(toServer)
        /\ UNCHANGED <<resolver, inspected, sent, toProxy, toRelay, toClient, cl, rly>>
        /\ server' = IF server.pc = "body" THEN [server EXCEPT !.need = @ - 1, !.pc = IF server.need = 1 THEN "answer" ELSE "body"]
                     ELSE IF x.t # "head" THEN [server EXCEPT !.pc = "confused"]
                     ELSE [pc |-> IF Units(x) > 0 THEN "body" ELSE "answer", req |-> x, need |-> Units(x)]
    BY DEF ServerReads
  <1>2. L7Types /\ toServer \in Seq(Items) /\ server \in SvRecs /\ ServerTrue(server, toServer) /\ PlaceholdersResolved /\ toProxy \in Seq(Items)
    BY DEF L7Inv, L7Types
  <1>3. x = toServer[1] /\ x \in Items /\ Tail(toServer) \in Seq(Items)
        /\ \A i \in DOMAIN Tail(toServer) : i + 1 \in DOMAIN toServer /\ Tail(toServer)[i] = toServer[i + 1]
    BY <1>1, <1>2, BehindHead
  <1> HIDE DEF x
  <1>4. Units(x) \in Nat
    BY <1>3, UnitsAre
  <1>5. /\ server' \in SvRecs
        /\ server.pc = "body" => /\ server'.need = server.need - 1 /\ server'.req = server.req
                                 /\ server'.pc = IF server.need = 1 THEN "answer" ELSE "body"
        /\ server.pc = "head" => /\ server'.need = Units(toServer[1]) /\ server'.req = toServer[1]
                                 /\ server'.pc = IF Units(toServer[1]) > 0 THEN "body" ELSE "answer"
    <2>1. CASE server.pc = "body"
      <3> DEFINE need2 == server.need - 1
                 pc2 == IF server.need = 1 THEN "answer" ELSE "body"
      <3>1. need2 \in Nat /\ pc2 \in {"answer", "body"}
        BY <1>2, <2>1 DEF SvRecs, ServerTrue
      <3>2. server' = [server EXCEPT !.need = need2, !.pc = pc2]
        BY <1>1, <2>1
      <3> HIDE DEF need2, pc2
      <3>3. server' \in SvRecs /\ server'.need = need2 /\ server'.pc = pc2 /\ server'.req = server.req
        BY <1>2, <3>1, <3>2 DEF SvRecs
      <3> QED BY <2>1, <3>3 DEF need2, pc2
    <2>2. CASE server.pc = "head"
      <3> DEFINE u == Units(x)
                 pc2 == IF u > 0 THEN "body" ELSE "answer"
      <3>1. x.t = "head"
        BY <1>1, <1>2, <1>3, <2>2 DEF ServerTrue
      <3>2. server' = [pc |-> pc2, req |-> x, need |-> u]
        BY <1>1, <2>2, <3>1
      <3>3. pc2 \in {"answer", "body"} /\ u \in Nat
        BY <1>4
      <3> HIDE DEF u, pc2
      <3>4. server' \in SvRecs /\ server'.need = u /\ server'.pc = pc2 /\ server'.req = x
        BY <1>3, <3>2, <3>3 DEF SvRecs
      <3> QED BY <1>3, <2>2, <3>4 DEF u, pc2
    <2> QED BY <1>1, <2>1, <2>2
  <1>6. /\ ServerTrue(server', toServer')
        /\ \A n, m : \A rest \in Nat : Owing(server, toServer, n, m, rest) => Owing(server', toServer', n, m, rest)
    BY <1>1, <1>2, <1>5, OwingStep
  <1>7. PlaceholdersResolved'
    BY <1>1, <1>2, <1>3 DEF PlaceholdersResolved
  <1>8. L7Types' /\ ClientTrue(cl, toClient, sent)'
    BY <1>1, <1>2, <1>3, <1>5 DEF L7Types, L7Inv
  <1>9. rly.pc \notin {"parse", "eval", "forward", "respbody", "eof"}
    BY <1>1 DEF L7Inv, Phase, Parsing, Forwarding, Copying, Draining, Quiet
  <1>10. rly.pc = "body" => Sending'
    <2> SUFFICES ASSUME rly.pc = "body" PROVE Sending'
      OBVIOUS
    <2>1. Sending /\ Len(toProxy) \in Nat
      BY <1>2 DEF L7Inv, Phase
    <2>2. Owing(server', toServer', sent, rly.req.method, Len(toProxy))
      BY <1>6, <2>1 DEF Sending
    <2> QED BY <1>1, <2>1, <2>2 DEF Sending, Waiting
  <1>11. rly.pc = "resp" => Responding'
    <2> SUFFICES ASSUME rly.pc = "resp" PROVE Responding'
      OBVIOUS
    <2>1. Waiting /\ toProxy = <<>> /\ toRelay = <<>> /\ Owing(server, toServer, sent, rly.req.method, 0)
      BY <1>1 DEF L7Inv, Phase, Responding
    <2>2. Owing(server', toServer', sent, rly.req.method, 0)
      BY <1>6, <2>1
    <2> QED BY <1>1, <2>1, <2>2 DEF Responding, Waiting
  <1> QED BY <1>1, <1>6, <1>7, <1>8, <1>9, <1>10, <1>11 DEF L7Inv, Phase

LEMMA ServerAnswersStep ==
    ASSUME L7Inv, ServerAnswers
    PROVE  L7Inv'
  <1>1. server.pc = "answer" /\ UNCHANGED <<resolver, inspected, sent, toProxy, toServer, toClient, cl, rly>>
    BY DEF ServerAnswers
  <1>2. PICK status \in Statuses, frame \in {"none", "length", "chunked"}, len \in 0..BodyUnits, close \in BOOLEAN :
          LET head == Response(server.req, status, frame, len, close)
              none == status # 200 \/ server.req.method = "HEAD"
          IN  /\ frame = "none" => len = 0
              /\ status < 200 => frame = "none" /\ ~close
              /\ toRelay' = toRelay \o <<head>> \o (IF none THEN <<>> ELSE Body(server.req.id, frame, len))
              /\ server' = IF status < 200 /\ status # 101 THEN server
                           ELSE [server EXCEPT !.pc = IF close \/ status = 101 THEN "done" ELSE "head", !.req = Head0]
    BY DEF ServerAnswers
  <1> DEFINE head == Response(server.req, status, frame, len, close)
             none == status # 200 \/ server.req.method = "HEAD"
             body == IF none THEN <<>> ELSE Body(server.req.id, frame, len)
             msg == <<head>> \o body
  <1>3. L7Types /\ toRelay \in Seq(Items) /\ server \in SvRecs /\ server.req \in Items /\ toServer = <<>> /\ server.req.id \in 0..MaxRequests
    BY <1>1 DEF L7Inv, L7Types, ServerTrue, SvRecs, Items
  <1>4. status \in Nat /\ (status \in 100..199 \/ status \in {200, 204, 304})
    BY L7Bounds
  <1>5. /\ head \in Items /\ head.t = "head" /\ head.id = server.req.id /\ head.frame = frame /\ head.len = len
        /\ head.method = server.req.method /\ head.status = status /\ head.close = close
    <2>1. server.req \in Items /\ status \in Nat
      BY <1>3, <1>4
    <2> QED BY <2>1, ResponseIs
  <1>19. (frame = "none" => len = 0) /\ (status < 200 => frame = "none" /\ ~close)
    BY <1>2
  <1>6. /\ toRelay' = toRelay \o <<head>> \o body
        /\ server' = IF status < 200 /\ status # 101 THEN server
                     ELSE [server EXCEPT !.pc = IF close \/ status = 101 THEN "done" ELSE "head", !.req = Head0]
    BY <1>2
  <1>7. /\ body \in Seq(Items) /\ Owned(body, server.req.id) /\ (~none => Closes(body, frame))
        /\ Len(body) = IF none THEN 0 ELSE len + IF frame = "chunked" THEN 1 ELSE 0
    <2>1. CASE none
      BY <2>1 DEF Owned
    <2>2. CASE ~none
      BY <1>3, <2>2, BodyIs
    <2> QED BY <2>1, <2>2
  <1>8. /\ Interim(head) <=> (status < 200 /\ status # 101)
        /\ Len(body) = Want(head)
        /\ Want(head) > 0 => Closes(body, frame)
    <2>1. Interim(head) <=> (status < 200 /\ status # 101)
      BY <1>4, <1>5 DEF Interim
    <2>2. Units(head) = len + IF frame = "chunked" THEN 1 ELSE 0
      BY <1>5 DEF Units
    <2>3. CASE none
      <3>1. frame = "none" \/ head.method = "HEAD" \/ status \in {204, 304}
        <4>1. status # 200 => status < 200 \/ status \in {204, 304}
          BY <1>4
        <4> QED BY <1>5, <1>19, <2>3, <4>1
      <3>2. Want(head) = 0
        BY <1>5, <3>1 DEF Want
      <3> QED BY <1>7, <2>1, <2>3, <3>2
    <2>4. CASE ~none
      <3>1. status = 200 /\ head.method # "HEAD"
        BY <1>5, <2>4
      <3>2. Want(head) = IF frame = "none" THEN 0 ELSE Units(head)
        BY <1>5, <3>1 DEF Want
      <3>3. frame = "none" => len + (IF frame = "chunked" THEN 1 ELSE 0) = 0
        BY <1>2
      <3> QED BY <1>7, <2>1, <2>2, <2>4, <3>2, <3>3
    <2> QED BY <2>3, <2>4
  <1> HIDE DEF head, body
  <1>9. /\ msg \in Seq(Items) /\ msg # <<>> /\ msg[1] = head /\ Tail(msg) = body /\ Len(msg) = 1 + Len(body)
    BY <1>5, <1>7
  <1>10. Owned(msg, server.req.id)
    <2>1. \A i \in DOMAIN msg : i = 1 \/ (i - 1 \in DOMAIN body /\ msg[i] = body[i - 1])
      BY <1>5, <1>7
    <2> HIDE DEF msg
    <2> QED BY <1>5, <1>7, <1>9, <2>1 DEF Owned
  <1>11. toRelay' = toRelay \o msg
    BY <1>3, <1>5, <1>6, <1>7
  <1> HIDE DEF msg
  <1>12. toRelay' \in Seq(Items) /\ (toRelay # <<>> => toRelay' # <<>> /\ toRelay'[1] = toRelay[1]) /\ (toRelay = <<>> => toRelay' = msg)
    <2>1. toRelay \o msg \in Seq(Items) /\ (toRelay # <<>> => toRelay \o msg # <<>> /\ (toRelay \o msg)[1] = toRelay[1])
      BY <1>3, <1>9, Joined
    <2>2. toRelay = <<>> => toRelay \o msg = msg
      BY <1>9
    <2> QED BY <1>11, <2>1, <2>2
  <1>13. /\ server' \in SvRecs /\ server'.pc \in {"answer", "head", "done"}
         /\ ~Interim(head) => server'.pc = IF close \/ status = 101 THEN "done" ELSE "head"
    <2>1. CASE status < 200 /\ status # 101
      BY <1>1, <1>3, <1>6, <1>8, <2>1
    <2>2. CASE ~(status < 200 /\ status # 101)
      <3> DEFINE pc2 == IF close \/ status = 101 THEN "done" ELSE "head"
      <3>1. server' = [server EXCEPT !.pc = pc2, !.req = Head0]
        BY <1>6, <2>2
      <3>2. pc2 \in {"done", "head"}
        OBVIOUS
      <3> HIDE DEF pc2
      <3>3. server' \in SvRecs /\ server'.pc = pc2
        BY <1>3, <3>1, <3>2, Head0Is DEF SvRecs
      <3> QED BY <3>2, <3>3 DEF pc2
    <2> QED BY <2>1, <2>2
  <1>14. L7Types' /\ ClientTrue(cl, toClient, sent)' /\ PlaceholdersResolved'
    BY <1>1, <1>3, <1>12, <1>13 DEF L7Types, L7Inv, PlaceholdersResolved
  <1>15. ServerTrue(server', toServer')
    BY <1>1, <1>3, <1>13 DEF ServerTrue
  <1>16. rly.pc \notin {"eval", "forward", "body", "respbody", "eof"}
    <2>1. rly.pc = "body" => toProxy # <<>> /\ Len(toProxy) = 0
      BY <1>1 DEF L7Inv, Phase, Sending, Owing
    <2>2. rly.pc # "body"
      BY <1>3, <2>1 DEF L7Types
    <2> QED BY <1>1, <2>2 DEF L7Inv, Phase, Forwarding, Copying, Draining, Quiet
  <1>17. rly.pc = "parse" => Parsing'
    <2>1. rly.pc = "parse" => toProxy = <<>> /\ toServer = <<>> /\ cl.pc = "wait" /\ \A i \in DOMAIN toClient : Interim(toClient[i])
      BY <1>1 DEF L7Inv, Phase, Parsing, Quiet
    <2> QED BY <1>1, <2>1 DEF Parsing
  <1>18. rly.pc = "resp" => Responding'
    <2> SUFFICES ASSUME rly.pc = "resp" PROVE Responding'
      OBVIOUS
    <2>1. Waiting /\ toProxy = <<>>
      BY DEF L7Inv, Phase, Responding
    <2>2. CASE toRelay = <<>> /\ Owing(server, toServer, sent, rly.req.method, 0)
      <3>1. server.req.id = sent /\ server.req.method = rly.req.method
        BY <1>1, <2>2 DEF Owing
      <3>2. toRelay' = msg
        BY <1>12, <2>2
      <3>3. ~Interim(head) => status \in {101, 200, 204, 304}
        BY <1>4, <1>8
      <3>4. Want(head) = Len(msg) - 1
        BY <1>5, <1>7, <1>8, <1>9, UnitsAre
      <3>5. Answer1(server', msg, sent, rly.req.method)
        <4>1. msg # <<>> /\ msg[1] = head /\ head.t = "head" /\ head.id = sent /\ head.method = rly.req.method
          BY <1>5, <1>9, <3>1
        <4>2. Interim(head) => server'.pc # "body"
          BY <1>13
        <4>3. ~Interim(head) => server'.pc \in {"head", "done"} /\ Owned(msg, sent) /\ (Want(head) > 0 => Closes(Tail(msg), head.frame))
          BY <1>5, <1>8, <1>9, <1>10, <1>13, <3>1
        <4>4. ~Interim(head) => head.frame # "both" /\ head.status \in {101, 200, 204, 304}
                                /\ (head.close \/ head.status = 101 => server'.pc = "done")
          BY <1>5, <1>13, <3>3
        <4> QED BY <3>4, <4>1, <4>2, <4>3, <4>4 DEF Answer1
      <3> QED BY <1>1, <1>3, <2>1, <3>2, <3>5 DEF Responding, Waiting
    <2>3. CASE toServer = <<>> /\ Answer1(server, toRelay, sent, rly.req.method)
      <3>1. /\ toRelay # <<>> /\ toRelay[1].t = "head" /\ toRelay[1].id = sent /\ toRelay[1].method = rly.req.method
            /\ Interim(toRelay[1])
        BY <1>1, <2>3 DEF Answer1
      <3>2. toRelay' # <<>> /\ toRelay'[1] = toRelay[1]
        BY <1>12, <3>1
      <3>3. Answer1(server', toRelay', sent, rly.req.method)
        BY <1>13, <3>1, <3>2 DEF Answer1
      <3> QED BY <1>1, <2>1, <2>3, <3>3 DEF Responding, Waiting
    <2> QED BY <2>2, <2>3 DEF L7Inv, Phase, Responding
  <1> QED BY <1>1, <1>14, <1>15, <1>16, <1>17, <1>18 DEF L7Inv, Phase

\* What was read behind the head, and what was not, are parts of what follows the head.
LEMMA Parts ==
    ASSUME NEW s \in Seq(Items), s # <<>>, NEW n \in 1..Len(s)
    PROVE  /\ SubSeq(s, 2, n) \in Seq(Items) /\ Len(SubSeq(s, 2, n)) = n - 1
           /\ \A i \in DOMAIN SubSeq(s, 2, n) : i + 1 \in DOMAIN s /\ SubSeq(s, 2, n)[i] = s[i + 1]
           /\ SubSeq(s, 2, n) = SubSeq(Tail(s), 1, n - 1)
           /\ SubSeq(s, n + 1, Len(s)) = SubSeq(Tail(s), n, Len(s) - 1)
  <1> DEFINE k == Len(s)
             b == Tail(s)
             o1 == SubSeq(s, 2, n)
             o2 == SubSeq(b, 1, n - 1)
             r1 == SubSeq(s, n + 1, k)
             r2 == SubSeq(b, n, k - 1)
  <1>1. k \in Nat \ {0} /\ n \in Int /\ 1 <= n /\ n <= k
    OBVIOUS
  <1>2. \A i \in 1..k : s[i] \in Items
    OBVIOUS
  <1>3. Len(b) = k - 1 /\ b \in Seq(Items) /\ \A i \in 1..Len(b) : b[i] = s[i + 1]
    BY HeadTailProperties
  <1> HIDE DEF k, b
  <1>4. \A i \in 1..(k - 1) : b[i] = s[i + 1] /\ b[i] \in Items
    BY <1>1, <1>2, <1>3
  <1>5. o1 \in Seq(Items) /\ Len(o1) = n - 1 /\ \A i \in 1..(n - 1) : o1[i] = s[i + 1]
    <2>1. \A i \in 2..n : s[i] \in Items
      BY <1>1, <1>2
    <2>2. /\ o1 \in Seq(Items) /\ Len(o1) = IF 2 <= n THEN n - 2 + 1 ELSE 0
          /\ \A i \in 1..(n - 2 + 1) : o1[i] = s[2 + i - 1]
      BY <1>1, <2>1, SubSeqProperties
    <2> HIDE DEF o1
    <2>3. Len(o1) = n - 1
      BY <1>1, <2>2
    <2>4. \A i \in 1..(n - 1) : i \in 1..(n - 2 + 1) /\ 2 + i - 1 = i + 1
      BY <1>1
    <2> QED BY <2>2, <2>3, <2>4
  <1>6. o2 \in Seq(Items) /\ Len(o2) = n - 1 /\ \A i \in 1..(n - 1) : o2[i] = s[i + 1]
    <2>1. \A i \in 1..(n - 1) : b[i] \in Items /\ b[i] = s[i + 1]
      BY <1>1, <1>4
    <2>2. n - 1 \in Int
      BY <1>1
    <2>3. /\ o2 \in Seq(Items) /\ Len(o2) = IF 1 <= n - 1 THEN n - 1 - 1 + 1 ELSE 0
          /\ \A i \in 1..(n - 1 - 1 + 1) : o2[i] = b[1 + i - 1]
      BY <2>1, <2>2, SubSeqProperties
    <2> HIDE DEF o2
    <2>4. Len(o2) = n - 1
      BY <1>1, <2>3
    <2>5. \A i \in 1..(n - 1) : i \in 1..(n - 1 - 1 + 1) /\ 1 + i - 1 = i
      BY <1>1
    <2> QED BY <2>1, <2>3, <2>4, <2>5
  <1>7. r1 \in Seq(Items) /\ Len(r1) = k - n /\ \A i \in 1..(k - n) : r1[i] = s[i + n]
    <2>1. (\A i \in (n + 1)..k : s[i] \in Items) /\ n + 1 \in Int /\ k \in Int
      BY <1>1, <1>2
    <2>2. /\ r1 \in Seq(Items) /\ Len(r1) = IF n + 1 <= k THEN k - (n + 1) + 1 ELSE 0
          /\ \A i \in 1..(k - (n + 1) + 1) : r1[i] = s[n + 1 + i - 1]
      BY <2>1, SubSeqProperties
    <2> HIDE DEF r1
    <2>3. Len(r1) = k - n
      BY <1>1, <2>2
    <2>4. \A i \in 1..(k - n) : i \in 1..(k - (n + 1) + 1) /\ n + 1 + i - 1 = i + n
      BY <1>1
    <2> QED BY <2>2, <2>3, <2>4
  <1>8. r2 \in Seq(Items) /\ Len(r2) = k - n /\ \A i \in 1..(k - n) : r2[i] = s[i + n]
    <2>1. (\A i \in n..(k - 1) : b[i] \in Items /\ b[i] = s[i + 1]) /\ k - 1 \in Int
      BY <1>1, <1>4
    <2>2. /\ r2 \in Seq(Items) /\ Len(r2) = IF n <= k - 1 THEN k - 1 - n + 1 ELSE 0
          /\ \A i \in 1..(k - 1 - n + 1) : r2[i] = b[n + i - 1]
      BY <1>1, <2>1, SubSeqProperties
    <2> HIDE DEF r2
    <2>3. Len(r2) = k - n
      BY <1>1, <2>2
    <2>4. \A i \in 1..(k - n) : i \in 1..(k - 1 - n + 1) /\ n + i - 1 \in n..(k - 1) /\ (n + i - 1) + 1 = i + n
      BY <1>1
    <2> QED BY <2>1, <2>2, <2>3, <2>4
  <1> HIDE DEF o1, o2, r1, r2
  <1>9. o1 = o2
    BY <1>5, <1>6, SeqEqual
  <1>10. r1 = r2
    BY <1>7, <1>8, SeqEqual
  <1>11. DOMAIN o1 = 1..(n - 1)
    BY <1>5
  <1>12. \A i \in 1..(n - 1) : i + 1 \in 1..k
    BY <1>1
  <1>13. DOMAIN s = 1..k
    BY DEF k
  <1> QED BY <1>5, <1>9, <1>10, <1>11, <1>12, <1>13 DEF o1, o2, r1, r2, k, b

\* After the head h and some of its body has been passed on, the rest is to come.
LEMMA RelayResponseHeadStep ==
    ASSUME L7Inv, RelayResponseHead
    PROVE  L7Inv'
  <1> DEFINE h == Head(toRelay)
             k == Len(toRelay)
             b == Tail(toRelay)
  <1>1. /\ rly.pc = "resp" /\ toRelay # <<>>
        /\ UNCHANGED <<resolver, inspected, sent, toProxy, toServer, server, cl>>
    BY DEF RelayResponseHead
  <1>2. PICK n \in 1..Len(toRelay) :
          LET head == Head(toRelay)
              over == SubSeq(toRelay, 2, n)
              bodiless == IsBodilessResponse(rly.req.method, head.status)
              rest == IF head.frame = "length" /\ head.len > Len(over) THEN head.len - Len(over) ELSE 0
              framed == /\ toClient' = toClient \o <<head>> \o over
                        /\ rly' = IF (head.frame = "length" /\ rest = 0) \/ RelayChunked(over) THEN Resting("parse")
                                  ELSE [pc |-> "respbody", req |-> Head0, resp |-> head, left |-> rest]
          IN  /\ toRelay' = SubSeq(toRelay, n + 1, Len(toRelay))
              /\ IF head.status = 101 /\ ClientRequestedUpgrade(rly.req) THEN
                    toClient' = toClient \o <<head>> \o over /\ rly' = Resting("raw")
                 ELSE IF head.status = 101 THEN toClient' = Append(toClient, head) /\ CloseRelay
                 ELSE IF bodiless THEN
                    toClient' = Append(toClient, head) /\ rly' = Resting(IF ParseConnectionClose(head) THEN "closed" ELSE "parse")
                 ELSE IF head.frame = "none" /\ ~ParseConnectionClose(head) THEN
                    toClient' = Append(toClient, head) /\ rly' = Resting("parse")
                 ELSE IF head.frame = "none" THEN
                    toClient' = toClient \o <<head>> \o over /\ rly' = Resting("eof")
                 ELSE framed
    BY DEF RelayResponseHead
  <1> DEFINE over == SubSeq(toRelay, 2, n)
             bodiless == IsBodilessResponse(rly.req.method, h.status)
             rest == IF h.frame = "length" /\ h.len > Len(over) THEN h.len - Len(over) ELSE 0
             left == SubSeq(toRelay, n + 1, k)
  <1>3. L7Types /\ toRelay \in Seq(Items) /\ Waiting /\ toProxy = <<>> /\ toServer = <<>> /\ Answer1(server, toRelay, sent, rly.req.method)
        /\ ServerTrue(server, toServer) /\ PlaceholdersResolved /\ sent \in 0..MaxRequests /\ server.pc \in {"head", "body", "answer", "done"}
    <2>1. Responding /\ L7Types
      BY <1>1 DEF L7Inv, Phase
    <2> QED BY <1>1, <2>1 DEF L7Inv, L7Types, Responding, SvRecs
  <1>4. toClient = <<>> /\ cl.pc = "wait" /\ cl.from \subseteq {sent}
    BY <1>3 DEF Waiting, L7Inv, ClientTrue
  <1>5. /\ h = toRelay[1] /\ h \in Items /\ b \in Seq(Items) /\ Len(b) = k - 1 /\ k \in Nat \ {0} /\ n \in 1..k
        /\ \A i \in DOMAIN b : i + 1 \in DOMAIN toRelay /\ b[i] = toRelay[i + 1]
    BY <1>1, <1>3, BehindHead
  <1>6. h.t = "head" /\ h.id = sent /\ h.method = rly.req.method
    BY <1>3, <1>5 DEF Answer1
  <1>7. left \in Seq(Items) /\ Len(left) = k - n /\ (Owned(toRelay, sent) => Owned(left, sent))
    <2>1. n \in 0..k
      BY <1>5
    <2> QED BY <1>3, <2>1, LaterPart
  <1>8. over \in Seq(Items) /\ Len(over) = n - 1 /\ over = SubSeq(b, 1, n - 1)
        /\ left = SubSeq(b, n, k - 1)
    BY <1>1, <1>3, <1>5, Parts
  <1>9. toRelay' = left
    BY <1>2
  <1>10. \/ h.status = 101 /\ toClient' = toClient \o <<h>> \o over /\ rly' = Resting("raw")
         \/ h.status = 101 /\ toClient' = Append(toClient, h) /\ rly' = Resting("closed")
         \/ /\ h.status # 101 /\ bodiless /\ toClient' = Append(toClient, h)
            /\ rly' = Resting("parse") \/ rly' = Resting("closed")
         \/ h.status # 101 /\ ~bodiless /\ h.frame = "none" /\ toClient' = Append(toClient, h) /\ rly' = Resting("parse")
         \/ h.status # 101 /\ ~bodiless /\ h.frame = "none" /\ h.close /\ toClient' = toClient \o <<h>> \o over /\ rly' = Resting("eof")
         \/ /\ h.status # 101 /\ ~bodiless /\ h.frame # "none" /\ toClient' = toClient \o <<h>> \o over
            /\ rly' = IF (h.frame = "length" /\ rest = 0) \/ RelayChunked(over) THEN Resting("parse")
                      ELSE [pc |-> "respbody", req |-> Head0, resp |-> h, left |-> rest]
    BY <1>2 DEF CloseRelay, ParseConnectionClose
  <1> HIDE DEF h, b, over, left
  <1> DEFINE msg == <<h>> \o over
  <1>11. /\ Append(toClient, h) = <<h>> /\ toClient \o <<h>> \o over = msg
         /\ msg \in Seq(Items) /\ msg # <<>> /\ msg[1] = h /\ Len(msg) = n
         /\ <<h>> \in Seq(Items) /\ <<h>> # <<>> /\ <<h>>[1] = h /\ Len(<<h>>) = 1
         /\ n = 1 => msg = <<h>>
    <2> DEFINE q == <<h>>
    <2>1. q \in Seq(Items) /\ q # <<>> /\ q[1] = h /\ Len(q) = 1
      BY <1>5
    <2>2. Append(toClient, h) = q /\ toClient \o q = q
      BY <1>4, <1>5
    <2> HIDE DEF q
    <2>3. q \o over \in Seq(Items) /\ Len(q \o over) = Len(q) + Len(over) /\ q \o over # <<>> /\ (q \o over)[1] = q[1]
      BY <1>8, <2>1, Joined
    <2>4. Len(q) + Len(over) = n
      BY <1>5, <1>8, <2>1
    <2>5. n = 1 => q \o over = q
      <3> SUFFICES ASSUME n = 1 PROVE q \o over = q
        OBVIOUS
      <3>1. over = <<>>
        BY <1>8
      <3> QED BY <2>1, <3>1
    <2> QED BY <2>1, <2>2, <2>3, <2>4, <2>5 DEF q
  <1>12. Owned(<<h>>, sent) /\ (Owned(toRelay, sent) => Owned(msg, sent))
    <2>1. Owned(<<h>>, sent)
      BY <1>6 DEF Owned
    <2>2. ASSUME Owned(toRelay, sent) PROVE Owned(over, sent)
      <3>1. \A i \in DOMAIN over : i + 1 \in DOMAIN toRelay /\ over[i] = toRelay[i + 1]
        BY <1>1, <1>3, <1>5, Parts DEF over
      <3> QED BY <2>2, <3>1 DEF Owned
    <2> DEFINE q == <<h>>
    <2>3. q \in Seq(Items) /\ Owned(q, sent)
      BY <1>11, <2>1
    <2> HIDE DEF q
    <2>4. Owned(over, sent) => Owned(q \o over, sent)
      BY <1>8, <2>3, Joined
    <2> QED BY <2>1, <2>2, <2>4 DEF q
  <1> HIDE DEF msg
  <1> DEFINE one == <<h>>
  <1> HIDE DEF one
  <1>13. one \in Seq(Items) /\ one # <<>> /\ one[1] = h /\ Len(one) = 1 /\ Owned(one, sent) /\ DOMAIN one = {1}
    BY <1>5, <1>11, <1>12 DEF one
  <1>14. ASSUME toClient' = one \/ (toClient' = msg /\ ~Interim(h) /\ Owned(toRelay, sent)),
                rly' \in RlRecs, rly'.pc \in {"parse", "eof", "raw", "closed", "respbody"},
                rly'.pc = "parse" => Parsing', rly'.pc = "eof" => Draining', rly'.pc = "respbody" => Copying'
         PROVE  L7Inv'
    <2>1. toClient' \in Seq(Items) /\ Owned(toClient', sent) /\ toClient'[1] = h
      BY <1>11, <1>12, <1>13, <1>14
    <2>2. Interim(h) => Len(toClient') = 1
      BY <1>13, <1>14
    <2>3. ClientTrue(cl', toClient', sent')
      BY <1>1, <1>4, <1>6, <2>1, <2>2 DEF ClientTrue
    <2>4. L7Types' /\ ServerTrue(server, toServer)' /\ PlaceholdersResolved'
      BY <1>1, <1>3, <1>7, <1>9, <1>14, <2>1 DEF L7Types, PlaceholdersResolved
    <2> QED BY <1>14, <2>3, <2>4 DEF L7Inv, Phase
  <1>15. CASE Interim(h)
    <2>1. h.status # 101 /\ bodiless
      BY <1>15 DEF Interim, IsBodilessResponse
    <2>2. toClient' = one /\ (rly' = Resting("parse") \/ rly' = Resting("closed"))
      BY <1>10, <1>11, <2>1 DEF one
    <2>3. rly' \in RlRecs /\ rly'.pc \in {"parse", "closed"}
      BY <2>2, RestingIs
    <2>4. Parsing'
      BY <1>1, <1>3, <1>4, <1>13, <1>15, <2>2 DEF Parsing
    <2> QED BY <1>14, <2>2, <2>3, <2>4
  <1>16. CASE ~Interim(h)
    <2>1. /\ server.pc \in {"head", "done"} /\ Owned(toRelay, sent) /\ Want(h) = k - 1
          /\ Want(h) > 0 => Closes(b, h.frame)
          /\ h.frame # "both" /\ h.status \in {101, 200, 204, 304}
          /\ h.close \/ h.status = 101 => server.pc = "done"
      BY <1>3, <1>5, <1>16 DEF Answer1, b
    <2>2. Want(h) = 0 => n = 1 /\ left = <<>> /\ msg = one
      <3> SUFFICES ASSUME Want(h) = 0 PROVE n = 1 /\ left = <<>> /\ msg = one
        OBVIOUS
      <3>1. n = 1 /\ k = 1
        BY <1>5, <2>1
      <3>2. left = <<>>
        BY <1>5, <1>7, <3>1
      <3> QED BY <1>11, <3>1, <3>2 DEF one
    <2>3. Want(h) = 0 /\ toClient' = one => /\ Gets(cl', toClient', sent', 0) /\ toRelay' = <<>>
      <3> SUFFICES ASSUME Want(h) = 0, toClient' = one PROVE Gets(cl', toClient', sent', 0) /\ toRelay' = <<>>
        OBVIOUS
      <3>1. Want(one[1]) = Len(one) - 1 + 0
        BY <1>13
      <3>2. Gets(cl, one, sent, 0)
        BY <1>4, <1>13, <1>16, <3>1 DEF Gets
      <3> QED BY <1>1, <1>9, <2>2, <3>2
    <2>4. Want(h) = 0 /\ toClient' = one => Parsing'
      BY <1>1, <1>3, <2>1, <2>3 DEF Parsing, Quiet
    <2>5. CASE h.status = 101
      <3>1. (toClient' = one \/ toClient' = msg) /\ (rly' = Resting("raw") \/ rly' = Resting("closed"))
        BY <1>10, <1>11, <2>5 DEF one
      <3>2. rly' \in RlRecs /\ rly'.pc \in {"raw", "closed"}
        BY <3>1, RestingIs
      <3> QED BY <1>14, <1>16, <2>1, <3>1, <3>2
    <2>6. CASE h.status # 101 /\ bodiless
      <3>1. toClient' = one /\ (rly' = Resting("parse") \/ rly' = Resting("closed"))
        BY <1>10, <1>11, <2>6 DEF one
      <3>2. h.method = "HEAD" \/ h.status \in {204, 304}
        BY <1>6, <1>16, <2>6 DEF IsBodilessResponse, Interim
      <3>3. Want(h) = 0
        BY <3>2 DEF Want
      <3>4. rly' \in RlRecs /\ rly'.pc \in {"parse", "closed"}
        BY <3>1, RestingIs
      <3> QED BY <1>14, <2>4, <3>1, <3>3, <3>4
    <2>7. CASE h.status # 101 /\ ~bodiless /\ h.frame = "none"
      <3>1. Want(h) = 0
        BY <2>7 DEF Want
      <3>2. toClient' = one /\ (rly' = Resting("parse") \/ (h.close /\ rly' = Resting("eof")))
        BY <1>10, <1>11, <2>2, <2>7, <3>1 DEF one
      <3>3. rly' \in RlRecs /\ rly'.pc \in {"parse", "eof"} /\ (rly'.pc = "eof" => h.close)
        BY <3>2, RestingIs
      <3>4. rly'.pc = "eof" => Draining'
        BY <1>1, <1>3, <2>1, <2>3, <3>1, <3>2, <3>3 DEF Draining
      <3> QED BY <1>14, <2>4, <3>1, <3>2, <3>3, <3>4
    <2>8. CASE h.status # 101 /\ ~bodiless /\ h.frame # "none"
      <3>1. /\ toClient' = msg
            /\ rly' = IF (h.frame = "length" /\ rest = 0) \/ RelayChunked(over) THEN Resting("parse")
                      ELSE [pc |-> "respbody", req |-> Head0, resp |-> h, left |-> rest]
        BY <1>10, <1>11, <2>8 DEF one
      <3>2. h.method # "HEAD" /\ h.status = 200 /\ h.frame \in {"length", "chunked"}
        BY <1>5, <1>6, <2>1, <2>8 DEF IsBodilessResponse, Items
      <3>3. Want(h) = Units(h)
        BY <3>2 DEF Want
      <3>4. h.len \in Nat /\ h.len \in 0..BodyUnits /\ (h.frame = "length" => k - 1 = h.len) /\ (h.frame = "chunked" => k - 1 = h.len + 1)
        BY <1>5, <2>1, <3>2, <3>3, UnitsAre DEF Items
      <3>5. rest \in 0..BodyUnits /\ (h.frame = "length" => rest = k - n)
        <4>1. CASE h.frame = "length"
          <5>1. Len(over) = n - 1 /\ h.len = k - 1
            BY <1>8, <3>4, <4>1
          <5> DEFINE o == Len(over)
          <5>2. rest = IF h.len > o THEN h.len - o ELSE 0
            BY <4>1
          <5> HIDE DEF rest, o, k
          <5>3. rest = k - n
            <6>1. o = n - 1 /\ h.len = k - 1 /\ k \in Nat /\ n \in 1..k
              BY <1>5, <5>1 DEF o
            <6> QED BY <5>2, <6>1
          <5> QED BY <1>5, <3>4, <5>1, <5>3, L7Bounds
        <4>2. CASE h.frame # "length"
          BY <4>2, L7Bounds
        <4> QED BY <4>1, <4>2
      <3>6. RelayChunked(over) <=> (h.frame = "chunked" /\ n = k)
        <4>1. CASE Want(h) > 0
          <5>1. Closes(b, h.frame) /\ n - 1 \in 0..Len(b)
            BY <1>5, <2>1, <4>1
          <5>2. RelayChunked(over) <=> (h.frame = "chunked" /\ n - 1 = Len(b) /\ n - 1 > 0)
            BY <1>5, <1>8, <5>1, EndFound
          <5> QED BY <1>5, <2>1, <3>4, <4>1, <5>2
        <4>2. CASE Want(h) = 0
          <5>1. over = <<>> /\ h.frame = "length"
            BY <1>5, <1>8, <2>1, <3>2, <3>4, <4>2
          <5> QED BY <5>1 DEF RelayChunked
        <4> QED BY <1>5, <2>1, <4>1, <4>2
      <3>7. Gets(cl', toClient', sent', k - n)
        <4>1. msg # <<>> /\ msg[1] = h /\ Len(msg) = n
          BY <1>11
        <4>2. k - 1 = n - 1 + (k - n)
          BY <1>5
        <4>3. Want(msg[1]) = Len(msg) - 1 + (k - n)
          BY <2>1, <4>1, <4>2
        <4>4. Gets(cl, msg, sent, k - n)
          BY <1>4, <1>16, <4>1, <4>3 DEF Gets
        <4> QED BY <1>1, <3>1, <4>4
      <3>8. CASE n = k
        <4>1. rly' = Resting("parse")
          BY <1>5, <3>1, <3>2, <3>5, <3>6, <3>8
        <4>2. toRelay' = <<>> /\ k - n = 0
          BY <1>5, <1>7, <1>9, <3>8
        <4>3. Parsing'
          BY <1>1, <1>3, <2>1, <3>7, <4>2 DEF Parsing, Quiet
        <4> QED BY <1>14, <1>16, <2>1, <3>1, <4>1, <4>3, RestingIs
      <3>9. CASE n # k
        <4> HIDE DEF rest
        <4>1. rly' = [pc |-> "respbody", req |-> Head0, resp |-> h, left |-> rest]
          <5>1. h.frame = "length" => rest # 0
            BY <1>5, <3>5, <3>9
          <5> QED BY <3>1, <3>6, <3>9, <5>1
        <4>2. rly' \in RlRecs /\ rly'.pc = "respbody" /\ rly'.resp = h /\ rly'.left = rest
          BY <1>5, <3>5, <4>1, Head0Is DEF RlRecs
        <4>3. toRelay' # <<>> /\ Len(toRelay') = k - n /\ Owned(toRelay', sent)
          BY <1>5, <1>7, <1>9, <2>1, <3>9
        <4>4. Closes(toRelay', h.frame)
          <5>1. Want(h) > 0
            BY <1>5, <2>1, <3>9
          <5>2. Closes(b, h.frame) /\ n - 1 \in 0..Len(b) /\ n - 1 + 1 = n /\ Len(b) = k - 1
            BY <1>5, <2>1, <5>1
          <5>3. Closes(SubSeq(b, n - 1 + 1, Len(b)), h.frame)
            BY <1>5, <5>2, LaterPart
          <5> QED BY <1>8, <1>9, <5>2, <5>3
        <4>5. Copying'
          BY <1>1, <1>3, <2>1, <3>2, <3>5, <3>7, <4>2, <4>3, <4>4 DEF Copying
        <4> QED BY <1>14, <1>16, <2>1, <3>1, <4>2, <4>5
      <3> QED BY <3>8, <3>9
    <2> QED BY <2>5, <2>6, <2>7, <2>8
  <1> QED BY <1>15, <1>16

LEMMA GetsMore ==
    ASSUME NEW c \in ClRecs, NEW s \in Seq(Items), NEW r \in Seq(Items), NEW m, NEW rest \in Nat,
           r # <<>>, Len(r) <= rest, Owned(r, m), ClientTrue(c, s, m), Gets(c, s, m, rest)
    PROVE  ClientTrue(c, s \o r, m) /\ Gets(c, s \o r, m, rest - Len(r)) /\ s \o r \in Seq(Items)
  <1> DEFINE q == s \o r
  <1>1. /\ q \in Seq(Items) /\ Len(q) = Len(s) + Len(r) /\ (s # <<>> => q # <<>> /\ q[1] = s[1]) /\ Len(s) \in Nat /\ Len(r) \in Nat \ {0}
        /\ (Owned(s, m) => Owned(q, m))
    BY Joined
  <1> HIDE DEF q
  <1>2. c.from \subseteq {m} /\ Owned(q, m) /\ (c.pc = "body" => c.need > 0)
    BY <1>1 DEF ClientTrue
  <1>3. CASE c.pc = "idle"
    <2>1. rest = 0
      BY <1>3 DEF Gets
    <2> QED BY <1>1, <2>1
  <1>4. CASE c.pc = "wait"
    <2>1. s # <<>> /\ ~Interim(s[1]) /\ Want(s[1]) = Len(s) - 1 + rest /\ s[1].t = "head"
      BY <1>4 DEF Gets, ClientTrue
    <2>2. q # <<>> /\ q[1] = s[1]
      BY <1>1, <2>1
    <2>3. Want(q[1]) = Len(q) - 1 + (rest - Len(r))
      BY <1>1, <2>1, <2>2
    <2>4. ClientTrue(c, q, m)
      BY <1>2, <1>4, <2>1, <2>2 DEF ClientTrue
    <2>5. Gets(c, q, m, rest - Len(r))
      BY <1>4, <2>1, <2>2, <2>3 DEF Gets
    <2> QED BY <1>1, <2>4, <2>5 DEF q
  <1>5. CASE c.pc = "body"
    <2>1. c.need = Len(s) + rest
      BY <1>5 DEF Gets
    <2>2. c.need = Len(q) + (rest - Len(r))
      BY <1>1, <2>1
    <2>3. ClientTrue(c, q, m) /\ Gets(c, q, m, rest - Len(r))
      BY <1>2, <1>5, <2>2 DEF ClientTrue, Gets
    <2> QED BY <1>1, <2>3 DEF q
  <1> QED BY <1>3, <1>4, <1>5 DEF ClRecs

LEMMA RelayResponseBodyStep ==
    ASSUME L7Inv, RelayResponseBody
    PROVE  L7Inv'
  <1>1. /\ rly.pc = "respbody" /\ toRelay # <<>>
        /\ UNCHANGED <<resolver, inspected, sent, toProxy, toServer, server, cl>>
    BY DEF RelayResponseBody
  <1>2. PICK n \in 1..Len(toRelay) :
          LET read == SubSeq(toRelay, 1, n)
              over == IF rly.resp.frame = "length" THEN rly.left = n ELSE RelayChunked(read)
          IN  /\ rly.resp.frame = "length" => n <= rly.left
              /\ toClient' = toClient \o read /\ toRelay' = SubSeq(toRelay, n + 1, Len(toRelay))
              /\ rly' = IF over THEN Resting("parse")
                        ELSE [rly EXCEPT !.left = IF rly.resp.frame = "length" THEN @ - n ELSE 0]
    BY DEF RelayResponseBody
  <1> DEFINE read == SubSeq(toRelay, 1, n)
             k == Len(toRelay)
             rest == SubSeq(toRelay, n + 1, k)
             f == rly.resp.frame
             over == IF f = "length" THEN rly.left = n ELSE RelayChunked(read)
             left2 == IF f = "length" THEN rly.left - n ELSE 0
  <1>3. L7Types /\ Copying /\ toRelay \in Seq(Items) /\ toClient \in Seq(Items) /\ rly \in RlRecs /\ cl \in ClRecs
        /\ ClientTrue(cl, toClient, sent) /\ sent \in 0..MaxRequests
    BY <1>1 DEF L7Inv, Phase, L7Types
  <1>4. /\ Closes(toRelay, f) /\ f \in {"length", "chunked"} /\ (f = "length" => rly.left = k) /\ Owned(toRelay, sent)
        /\ Gets(cl, toClient, sent, k) /\ toProxy = <<>> /\ toServer = <<>> /\ server.pc \in {"head", "done"}
    BY <1>3 DEF Copying
  <1>5. k \in Nat /\ n \in 0..k /\ n \in 1..k
    BY <1>3
  <1>6. /\ read \in Seq(Items) /\ Len(read) = n /\ Owned(read, sent)
        /\ (RelayChunked(read) <=> (f = "chunked" /\ n = k /\ n > 0))
    BY <1>3, <1>4, <1>5, EndFound
  <1>7. rest \in Seq(Items) /\ Len(rest) = k - n /\ Closes(rest, f) /\ Owned(rest, sent)
    BY <1>3, <1>4, <1>5, LaterPart
  <1>8. read # <<>> /\ toClient' = toClient \o read /\ toRelay' = rest
        /\ rly' = IF over THEN Resting("parse") ELSE [rly EXCEPT !.left = left2]
    BY <1>2, <1>5, <1>6
  <1>9. over <=> n = k
    BY <1>4, <1>5, <1>6
  <1>10. left2 \in 0..BodyUnits /\ (f = "length" => left2 = k - n)
    BY <1>3, <1>4, <1>5, L7Bounds DEF RlRecs
  <1> HIDE DEF read, rest, over, left2
  <1>11. ClientTrue(cl, toClient', sent) /\ Gets(cl, toClient', sent, k - n) /\ toClient' \in Seq(Items)
    <2>1. Len(read) <= k
      BY <1>5, <1>6
    <2>2. ClientTrue(cl, toClient \o read, sent) /\ Gets(cl, toClient \o read, sent, k - Len(read)) /\ toClient \o read \in Seq(Items)
      BY <1>3, <1>4, <1>5, <1>6, <1>8, <2>1, GetsMore
    <2> QED BY <1>6, <1>8, <2>2
  <1>12. ServerTrue(server, toServer)' /\ PlaceholdersResolved' /\ ClientTrue(cl, toClient, sent)'
    BY <1>1, <1>11 DEF L7Inv, PlaceholdersResolved
  <1>13. CASE n = k
    <2>1. rly' \in RlRecs /\ rly'.pc = "parse"
      BY <1>8, <1>9, <1>13, RestingIs
    <2>2. toRelay' = <<>> /\ k - n = 0
      BY <1>5, <1>7, <1>8, <1>13
    <2>3. Parsing'
      BY <1>1, <1>4, <1>11, <2>2 DEF Parsing, Quiet
    <2>4. L7Types'
      BY <1>1, <1>3, <1>7, <1>8, <1>11, <2>1 DEF L7Types
    <2> QED BY <1>12, <2>1, <2>3, <2>4 DEF L7Inv, Phase
  <1>14. CASE n # k
    <2>1. rly' = [rly EXCEPT !.left = left2]
      BY <1>8, <1>9, <1>14
    <2>2. rly' \in RlRecs /\ rly'.pc = "respbody" /\ rly'.resp = rly.resp /\ rly'.left = left2
      BY <1>1, <1>3, <1>10, <2>1 DEF RlRecs
    <2>3. toRelay' # <<>> /\ Len(toRelay') = k - n
      BY <1>5, <1>7, <1>8, <1>14
    <2>4. Copying'
      BY <1>1, <1>4, <1>7, <1>8, <1>10, <1>11, <2>2, <2>3 DEF Copying
    <2>5. L7Types'
      BY <1>1, <1>3, <1>7, <1>8, <1>11, <2>2 DEF L7Types
    <2> QED BY <1>12, <2>2, <2>4, <2>5 DEF L7Inv, Phase
  <1> QED BY <1>13, <1>14

LEMMA EndSteps ==
    ASSUME L7Inv, RelayUntilEof \/ HandleUpgrade \/ ConnectionEnds
    PROVE  L7Inv'
  <1>1. toClient \in Seq(Items) /\ ClientTrue(cl, toClient, sent)
    BY DEF L7Inv, L7Types
  <1>2. CASE HandleUpgrade \/ ConnectionEnds
    BY <1>1, <1>2, ClosedStep DEF HandleUpgrade, ConnectionEnds
  <1>3. CASE RelayUntilEof
    <2>1. toRelay = <<>>
      BY <1>3 DEF RelayUntilEof, L7Inv, Phase, Draining
    <2>2. CloseRelay /\ UNCHANGED <<resolver, inspected, sent, toProxy, toServer, toRelay, toClient, server, cl>>
      BY <1>3, <2>1 DEF RelayUntilEof
    <2> QED BY <1>1, <2>2, ClosedStep
  <1> QED BY <1>2, <1>3

LEMMA L7IsSound == L7Inv => FramingSound
  <1> SUFFICES ASSUME L7Inv PROVE FramingSound
    OBVIOUS
  <1>1. L7Types
    BY DEF L7Inv
  <1>2. L7TypeOK
    BY <1>1 DEF L7Types, L7TypeOK, SvRecs, ClRecs, RlRecs
  <1>3. rly.pc = "respbody" => toRelay # <<>>
    BY DEF L7Inv, Phase, Copying
  <1>4. rly.pc = "resp" => toRelay # <<>> \/ toServer # <<>> \/ server.pc \in {"answer", "done"}
    <2> SUFFICES ASSUME rly.pc = "resp", toRelay = <<>>, toServer = <<>> PROVE server.pc \in {"answer", "done"}
      OBVIOUS
    <2>1. Owing(server, toServer, sent, rly.req.method, 0)
      BY DEF L7Inv, Phase, Responding, Answer1
    <2>2. server.pc # "head"
      BY <2>1 DEF Owing
    <2>3. server.pc = "body" => server.need = 0 /\ server.need > 0
      BY <2>1 DEF Owing, L7Inv, ServerTrue
    <2> QED BY <1>1, <2>2, <2>3 DEF L7Types, SvRecs
  <1>5. InStep
    BY <1>1, <1>3, <1>4 DEF InStep, L7Inv, ClientTrue, L7Types, SvRecs
  <1> QED BY <1>2, <1>5 DEF FramingSound, L7Inv

\* Requests and responses of any framing and any length, interim answers too, are read
\* in pieces that end anywhere, and either side closes when it likes: what the client
\* reads as the answer to a request is that request's, the upstream finds a head where
\* it expects one, the relay does not wait for bytes that nobody will send, and no head
\* is forwarded with an unresolved placeholder (relay_response, rewrite_http_header_block).
THEOREM MessagesStayApart == L7Spec => []FramingSound
  <1>1. L7Init => L7Inv
    <2> SUFFICES ASSUME L7Init PROVE L7Inv
      OBVIOUS
    <2>1. /\ sent = 0 /\ toProxy = <<>> /\ toServer = <<>> /\ toRelay = <<>> /\ toClient = <<>> /\ resolver \in BOOLEAN
          /\ inspected \in BOOLEAN /\ server = [pc |-> "head", req |-> Head0, need |-> 0]
          /\ cl = [pc |-> "idle", need |-> 0, from |-> {}] /\ rly = Resting("parse")
      BY DEF L7Init
    <2>2. server \in SvRecs /\ cl \in ClRecs /\ rly \in RlRecs /\ rly.pc = "parse" /\ server.pc = "head" /\ cl.pc = "idle" /\ cl.from = {}
      BY <2>1, Head0Is, RestingIs DEF SvRecs, ClRecs
    <2>3. L7Types
      BY <2>1, <2>2, L7Bounds DEF L7Types
    <2>4. Parsing
      BY <2>1, <2>2 DEF Parsing, Quiet, Gets
    <2>5. ClientTrue(cl, toClient, sent) /\ ServerTrue(server, toServer) /\ PlaceholdersResolved
      BY <2>1, <2>2 DEF ClientTrue, ServerTrue, PlaceholdersResolved, Owned
    <2> QED BY <2>2, <2>3, <2>4, <2>5 DEF L7Inv, Phase
  <1>2. L7Inv /\ [L7Next]_l7Vars => L7Inv'
    <2> SUFFICES ASSUME L7Inv, [L7Next]_l7Vars PROVE L7Inv'
      OBVIOUS
    <2>1. CASE UNCHANGED l7Vars
      BY <2>1 DEF l7Vars, L7Inv, L7Types, Phase, PlaceholdersResolved, Parsing, Forwarding, Sending, Responding, Copying,
             Draining, Quiet, Waiting
    <2>2. CASE ClientSends \/ ClientReads
      BY <2>2, ClientSendsStep, ClientReadsStep
    <2>3. CASE ParseHttpRequest \/ TargetFails \/ EvaluateRequest \/ PassThrough \/ ForwardHead \/ RelayBody
      BY <2>3, ParseStep, DecideSteps, ForwardHeadStep, RelayBodyStep
    <2>4. CASE RelayResponseHead \/ RelayResponseBody \/ RelayUntilEof \/ HandleUpgrade \/ ConnectionEnds
      BY <2>4, RelayResponseHeadStep, RelayResponseBodyStep, EndSteps
    <2>5. CASE ServerReads \/ ServerAnswers
      BY <2>5, ServerReadsStep, ServerAnswersStep
    <2> QED BY <2>1, <2>2, <2>3, <2>4, <2>5 DEF L7Next
  <1> QED BY <1>1, <1>2, L7IsSound, PTL DEF L7Spec
==============================================================================
