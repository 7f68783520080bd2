----------------------------- MODULE Providers -----------------------------
(***************************************************************************)
(* Provider records (grpc/provider.rs) under concurrent clients, the       *)
(* environment a sandbox is given from them, and the command line's        *)
(* ensure_required_providers, which lists them page by page and creates    *)
(* the missing ones from local credentials (cli/run.rs).  The store keeps  *)
(* records in order of creation, one per id and one per name.              *)
(***************************************************************************)
EXTENDS Naturals, FiniteSets, SequencesExt

CONSTANTS
    ProvTypes,     \* provider types, each also a name and the first name tried for it
    ProvNames,     \* provider names; names that are no type are free ones
    CredKeys,      \* credential keys
    Admins,        \* clients that create, update and delete providers
    MaxProvId,     \* bound on the records ever created
    ProvPage,      \* records of a page of the list
    NameTries      \* names tried for an inferred type

Cli == "cli"

ASSUME ProvidersAssumption ==
    /\ ProvTypes \subseteq ProvNames /\ "" \notin ProvNames /\ Cli \notin Admins
    /\ MaxProvId \in Nat /\ ProvPage \in Nat \ {0} /\ NameTries \in Nat

ProvCallers == Admins \cup {Cli}

VARIABLES
    store,   \* provider records, oldest first
    lastId,  \* the last id given out
    provCalls,    \* caller -> the RPC it waits for
    ens,     \* ensure_required_providers of the command line
    env,     \* the sandbox's GetSandboxProviderEnvironment
    ever     \* <<name, type>> of every record there ever was

provVars == <<store, lastId, provCalls, ens, env, ever>>

NoRec == [id |-> 0, name |-> "", type |-> "", creds |-> {}]
NoCall == [pc |-> "idle", op |-> "", rec |-> NoRec]
NoEns == [pc |-> "idle", explicit |-> <<>>, inferred |-> <<>>, mode |-> "auto", offset |-> 0, known |-> {},
          typeName |-> [t \in ProvTypes |-> ""], configured |-> <<>>, try |-> 0, skipped |-> {}]

ProvInit ==
    /\ store = <<>> /\ lastId = 0 /\ ever = {}
    /\ provCalls = [c \in ProvCallers |-> NoCall]
    /\ ens = NoEns /\ env = [pc |-> "idle", names |-> <<>>, got |-> {}]

-----------------------------------------------------------------------------
(* The store *)

ByName(n) == {i \in DOMAIN store : store[i].name = n}
ById(id) == {i \in DOMAIN store : store[i].id = id}

\* put: an update of the record of that id, or an insert, which fails if the name is taken.
PutOk(rec) == ById(rec.id) # {} \/ ByName(rec.name) = {}

Put(rec) ==
    /\ store' = IF ById(rec.id) # {} THEN [i \in DOMAIN store |-> IF store[i].id = rec.id THEN rec ELSE store[i]]
                ELSE Append(store, rec)
    /\ ever' = ever \cup {<<rec.name, rec.type>>}

-----------------------------------------------------------------------------
(* The handlers *)

\* The command line waits for the answer; an administrator's call is over.
Done(c, pc) == provCalls' = [provCalls EXCEPT ![c] = [NoCall EXCEPT !.pc = IF c = Cli THEN pc ELSE "idle"]]

Send(c, op, rec) == provCalls' = [provCalls EXCEPT ![c] = [pc |-> "get", op |-> op, rec |-> rec]]

\* provider create, update and delete; a type is given or, on update, left empty.
ProviderCreate(c) ==
    /\ c \in Admins /\ provCalls[c].pc = "idle"
    /\ \E n \in ProvNames, t \in ProvTypes, k \in CredKeys :
          Send(c, "create", [id |-> 0, name |-> n, type |-> t, creds |-> {k}])
    /\ UNCHANGED <<store, lastId, ens, env, ever>>

ProviderUpdate(c) ==
    /\ c \in Admins /\ provCalls[c].pc = "idle"
    /\ \E n \in ProvNames, t \in ProvTypes \cup {""}, ks \in SUBSET CredKeys :
          Send(c, "update", [id |-> 0, name |-> n, type |-> t, creds |-> ks])
    /\ UNCHANGED <<store, lastId, ens, env, ever>>

\* delete_provider_record: one statement, by name, which stands for one record at most.
DeleteByName(n) == \E i \in ByName(n) : store' = RemoveAt(store, i)

ProviderDelete(c) ==
    /\ c \in Admins /\ provCalls[c].pc = "idle"
    /\ \E n \in ProvNames : DeleteByName(n)
    /\ UNCHANGED <<lastId, provCalls, ens, env, ever>>

\* merge_map: a key with an empty value is removed, the others are set.
MergeMap(existing, incoming) == {existing \cup incoming, existing \ incoming}

CreateCheck(c) ==
    /\ provCalls[c].pc = "get" /\ provCalls[c].op = "create"
    /\ IF ByName(provCalls[c].rec.name) # {} THEN Done(c, "exists") /\ UNCHANGED lastId
       ELSE /\ lastId < MaxProvId /\ lastId' = lastId + 1
            /\ provCalls' = [provCalls EXCEPT ![c].pc = "put", ![c].rec.id = lastId + 1]
    /\ UNCHANGED <<store, ens, env, ever>>

\* The type of a provider is never changed.
UpdateGet(c) ==
    /\ provCalls[c].pc = "get" /\ provCalls[c].op = "update"
    /\ IF ByName(provCalls[c].rec.name) = {} THEN Done(c, "error")
       ELSE \E i \in ByName(provCalls[c].rec.name) :
              IF provCalls[c].rec.type \notin {"", store[i].type} THEN Done(c, "error")
              ELSE \E creds \in MergeMap(store[i].creds, provCalls[c].rec.creds) :
                     provCalls' = [provCalls EXCEPT ![c].pc = "put", ![c].rec = [store[i] EXCEPT !.creds = creds]]
    /\ UNCHANGED <<store, lastId, ens, env, ever>>

\* The record read may be gone: an update then inserts it again, unless its name has a new record.
PutProvider(c) ==
    /\ provCalls[c].pc = "put"
    /\ IF PutOk(provCalls[c].rec) THEN Put(provCalls[c].rec) /\ Done(c, "ok") ELSE Done(c, "error") /\ UNCHANGED <<store, ever>>
    /\ UNCHANGED <<lastId, ens, env>>

-----------------------------------------------------------------------------
(* resolve_provider_environment: one read per name; a missing provider fails the call *)

EnvBegin ==
    /\ env.pc = "idle" /\ ens.pc = "done"
    /\ env' = [pc |-> "read", names |-> ens.configured, got |-> {}]
    /\ UNCHANGED <<store, lastId, provCalls, ens, ever>>

\* The first provider's value of a key wins.
EnvRead ==
    /\ env.pc = "read"
    /\ env' = IF env.names = <<>> THEN [env EXCEPT !.pc = "done"]
              ELSE IF ByName(Head(env.names)) = {} THEN [pc |-> "failed", names |-> <<>>, got |-> {}]
              ELSE LET r == store[CHOOSE i \in ByName(Head(env.names)) : TRUE]
                       new == {k \in r.creds : \A g \in env.got : g[1] # k}
                   IN  [env EXCEPT !.names = Tail(@), !.got = @ \cup {<<k, r.name>> : k \in new}]
    /\ UNCHANGED <<store, lastId, provCalls, ens, ever>>

-----------------------------------------------------------------------------
(* ensure_required_providers *)

\* A name that is a type, or an alias of one; the command's first word gives the inferred type.
NormalizeProviderType(n) == IF n \in ProvTypes THEN n ELSE ""

\* Whether the environment variables of the type are set is the outside's choice.
DiscoverExisting(t) == BOOLEAN

EnsureBegin ==
    /\ ens.pc = "idle"
    /\ \E explicit \in {<<>>} \cup {<<n>> : n \in ProvNames}, inferred \in {<<>>} \cup {<<t>> : t \in ProvTypes},
          mode \in {"auto", "never", "batch"} :
          /\ explicit # <<>> \/ inferred # <<>>
          /\ ens' = [NoEns EXCEPT !.pc = "list", !.explicit = explicit, !.inferred = inferred, !.mode = mode]
    /\ UNCHANGED <<store, lastId, provCalls, env, ever>>

\* A page at a time by offset; the first name seen of a type stands for the type.
ListProviders ==
    /\ ens.pc = "list"
    /\ LET last == IF ens.offset + ProvPage < Len(store) THEN ens.offset + ProvPage ELSE Len(store)
           page == SubSeq(store, ens.offset + 1, last)
           first(t) == CHOOSE i \in DOMAIN page : page[i].type = t /\ \A j \in 1..(i - 1) : page[j].type # t
       IN  ens' = [ens EXCEPT !.known = @ \cup {page[i].name : i \in DOMAIN page},
                              !.typeName = [t \in ProvTypes |-> IF @[t] = "" /\ \E i \in DOMAIN page : page[i].type = t
                                                                THEN page[first(t)].name ELSE @[t]],
                              !.offset = IF Len(page) < ProvPage THEN 0 ELSE @ + ProvPage,
                              !.pc = IF Len(page) < ProvPage THEN "explicit" ELSE "list"]
    /\ UNCHANGED <<store, lastId, provCalls, env, ever>>

Configure(e, n) == [e EXCEPT !.configured = IF Contains(@, n) THEN @ ELSE Append(@, n)]

\* The explicit name is known, or is a type to create, or is an error.
ExplicitName ==
    /\ ens.pc = "explicit"
    /\ ens' = IF ens.explicit = <<>> THEN [ens EXCEPT !.pc = "inferred", !.known = {}]
              ELSE IF Head(ens.explicit) \in ens.known
                   THEN Configure([ens EXCEPT !.explicit = <<>>], Head(ens.explicit))
              ELSE IF NormalizeProviderType(Head(ens.explicit)) # "" THEN [ens EXCEPT !.pc = "create"]
              ELSE [NoEns EXCEPT !.pc = "failed"]
    /\ UNCHANGED <<store, lastId, provCalls, env, ever>>

\* The command line keeps the names it attaches, and what it told the user it skipped.
Ensured(e) ==
    [NoEns EXCEPT !.pc = "done", !.inferred = e.inferred, !.configured = e.configured, !.skipped = e.skipped]

InferredType ==
    /\ ens.pc = "inferred"
    /\ ens' = IF ens.inferred = <<>> THEN Ensured(ens)
              ELSE LET n == ens.typeName[Head(ens.inferred)]
                   IN  IF n = "" THEN [ens EXCEPT !.pc = "create"] ELSE Ensured(Configure(ens, n))
    /\ UNCHANGED <<store, lastId, provCalls, env, ever>>

\* What is to be created: the explicit name, or the inferred type.
Wanted == NormalizeProviderType(Head(IF ens.explicit # <<>> THEN ens.explicit ELSE ens.inferred))

\* Behind an explicit name the type is recorded as provided, created or not.
AfterCreate(e) ==
    IF e.explicit # <<>>
    THEN [e EXCEPT !.pc = "inferred", !.explicit = <<>>,
                   !.typeName[Wanted] = IF @ = "" THEN Head(e.explicit) ELSE @]
    ELSE Ensured(e)

\* auto_create_provider: skipped by the flag; for want of credentials, or by the user's answer, if
\* the creation is confirmed by flag or prompt ("auto").
SkipCreate ==
    /\ ens.pc = "create"
    /\ ens.mode = "never" \/ (ens.mode = "auto" /\ FALSE \in DiscoverExisting(Wanted))
    /\ ens' = AfterCreate([ens EXCEPT !.skipped = @ \cup {Wanted}])
    /\ UNCHANGED <<store, lastId, provCalls, env, ever>>

BatchFails ==
    /\ ens.pc = "create" /\ ens.mode = "batch"
    /\ ens' = [NoEns EXCEPT !.pc = "failed"]
    /\ UNCHANGED <<store, lastId, provCalls, env, ever>>

\* The type itself, then suffixed names, modelled by the other names in some order.
CandidateName(t, n) == IF ens.try = 0 THEN n = t ELSE n # t

AutoCreate ==
    /\ ens.pc = "create" /\ ens.mode = "auto" /\ TRUE \in DiscoverExisting(Wanted)
    /\ \E n \in ProvNames, k \in CredKeys :
          /\ IF ens.explicit # <<>> THEN n = Head(ens.explicit) ELSE CandidateName(Wanted, n)
          /\ Send(Cli, "create", [id |-> 0, name |-> n, type |-> Wanted, creds |-> {k}])
          /\ ens' = [ens EXCEPT !.pc = "created", !.known = {n}]
    /\ UNCHANGED <<store, lastId, env, ever>>

\* A taken name is retried for an inferred type only; every other error ends the command.
MUT_CreateAnswered ==
    /\ ens.pc = "created" /\ provCalls[Cli].pc \in {"ok", "exists", "error"}
    /\ Done(Cli, "idle")
    /\ ens' = IF provCalls[Cli].pc \in {"ok", "exists"} THEN AfterCreate(Configure(ens, CHOOSE n \in ens.known : TRUE))
              ELSE [NoEns EXCEPT !.pc = "failed"]
    /\ UNCHANGED <<store, lastId, env, ever>>

CreateAnswered ==
    /\ ens.pc = "created" /\ provCalls[Cli].pc \in {"ok", "exists", "error"}
    /\ Done(Cli, "idle")
    /\ ens' = CASE provCalls[Cli].pc = "ok" -> AfterCreate(Configure(ens, CHOOSE n \in ens.known : TRUE))
                [] provCalls[Cli].pc = "exists" /\ ens.explicit = <<>> /\ ens.try + 1 < NameTries ->
                     [ens EXCEPT !.pc = "create", !.try = @ + 1]
                [] OTHER -> [NoEns EXCEPT !.pc = "failed"]
    /\ UNCHANGED <<store, lastId, env, ever>>

ProvNext ==
    \/ \E c \in ProvCallers : ProviderCreate(c) \/ ProviderUpdate(c) \/ ProviderDelete(c) \/ CreateCheck(c) \/ UpdateGet(c)
                              \/ PutProvider(c)
    \/ EnvBegin \/ EnvRead
    \/ EnsureBegin \/ ListProviders \/ ExplicitName \/ InferredType \/ SkipCreate \/ BatchFails \/ AutoCreate \/ CreateAnswered

ProvSpec == ProvInit /\ [][ProvNext]_provVars

-----------------------------------------------------------------------------
(* Properties *)

ProvTypeOK ==
    /\ lastId \in 0..MaxProvId
    /\ \A i \in DOMAIN store : store[i].id \in 1..MaxProvId /\ store[i].name \in ProvNames /\ store[i].type \in ProvTypes
    /\ \A c \in ProvCallers : provCalls[c].pc \in {"idle", "get", "put", "ok", "exists", "error"}
    /\ ens.pc \in {"idle", "list", "explicit", "inferred", "create", "created", "done", "failed"}

\* A name stands for one provider, and a provider keeps its type: whatever creates, updates and
\* deletions race, no two records have a name and none changes its type (create_provider_record
\* checks and inserts in two calls, update_provider_record writes back what it read).
OneProviderPerName ==
    /\ \A i, j \in DOMAIN store : store[i].name = store[j].name => i = j
    /\ \A c \in ProvCallers : provCalls[c].pc = "put" /\ provCalls[c].op = "update" =>
          \A i \in ById(provCalls[c].rec.id) : store[i].type = provCalls[c].rec.type

\* When the command line is done, an inferred type was skipped, or a configured name was a
\* provider of that type.
TypeProvided ==
    ens.pc = "done" => \A i \in DOMAIN ens.inferred :
        \/ ens.inferred[i] \in ens.skipped
        \/ \E n \in ToSet(ens.configured) : <<n, ens.inferred[i]>> \in ever

\* However calls race, the records are well formed, a name is one provider of
\* one type, and a sandbox gets a provider of every type it needs.
ProvidersSound == ProvTypeOK /\ OneProviderPerName /\ TypeProvided
=============================================================================
