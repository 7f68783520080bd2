-------------------------- MODULE GatewaySettings --------------------------
(***************************************************************************)
(* Runtime settings and the global policy on the gateway (UpdateConfig,    *)
(* GetSandboxConfig, GetGatewayConfig; grpc/policy.rs).  Each store call   *)
(* is a step; settings_mutex spans a read-modify-write.  A settings record *)
(* is kept under its sandbox's id and name, and the store refuses a second *)
(* record of that name (UNIQUE (object_type, name)).  A store call of a    *)
(* handler may fail, and the gateway may restart between any two of them.  *)
(***************************************************************************)
EXTENDS Naturals, Sequences

CONSTANTS
    SetKeys,       \* registered setting keys
    GlobalValues,  \* values settings are given globally
    BoxValues,     \* values they are given for a sandbox
    GlobalPolicies,  \* policies set globally
    SetNames,      \* sandbox names
    SetCallers,    \* clients with one request at a time
    MaxSetIds,     \* bound on the sandboxes ever created
    MaxSetRev,     \* bound on a settings revision
    MaxGlobalRevs  \* bound on the global policy's revisions

VARIABLES
    gset,    \* the global settings record: [keys, rev]
    sset,    \* sandbox settings records by sandbox id: [name, keys, rev] or NoRecord
    boxes,   \* sandbox id by name; 0: none
    lastBox, \* the last id given out
    gpol,    \* global policy revisions: sequence of [policy, status]
    smutex,  \* the caller that holds settings_mutex
    ask,     \* caller -> its request and how far its handler is
    reader   \* the GetSandboxConfig call of a sandbox's poll

setVars == <<gset, sset, boxes, lastBox, gpol, smutex, ask, reader>>

NoValue == "none"
NoCaller == "nobody"
PolicyKey == "policy"
AllKeys == SetKeys \cup {PolicyKey}

ASSUME SettingsAssumption ==
    /\ NoValue \notin GlobalValues \cup BoxValues \cup GlobalPolicies
    /\ PolicyKey \notin SetKeys /\ NoCaller \notin SetCallers
    /\ MaxSetIds \in Nat /\ MaxSetRev \in Nat

NoRecord == [name |-> "", keys |-> [k \in SetKeys |-> NoValue], rev |-> 0]
NoAsk == [pc |-> "idle", op |-> "none", key |-> PolicyKey, val |-> NoValue, name |-> "", id |-> 0,
          g |-> [keys |-> [k \in AllKeys |-> NoValue], rev |-> 0], s |-> NoRecord]
NoReader == [pc |-> "idle", id |-> 0, g |-> [k \in AllKeys |-> NoValue], got |-> [k \in SetKeys |-> NoValue],
             inForce |-> [k \in SetKeys |-> {}]]

SetInit ==
    /\ gset = [keys |-> [k \in AllKeys |-> NoValue], rev |-> 0]
    /\ sset = [i \in 1..MaxSetIds |-> NoRecord]
    /\ boxes = [n \in SetNames |-> 0] /\ lastBox = 0
    /\ gpol = <<>> /\ smutex = NoCaller
    /\ ask = [c \in SetCallers |-> NoAsk] /\ reader = NoReader

-----------------------------------------------------------------------------
(* Settings records *)

\* merge_effective_settings: the sandbox's values, overlaid by the global ones; policy is left out.
MergeEffective(global, sandbox) == [k \in SetKeys |-> IF global[k] # NoValue THEN global[k] ELSE sandbox[k]]

\* materialize_global_settings
MaterializeGlobal(global) == [k \in SetKeys |-> global[k]]

\* The ghost of the reader: values that were in force since its first load.
Watched(r, global, sandbox) ==
    IF r.pc = "idle" THEN r
    ELSE [r EXCEPT !.inForce = [k \in SetKeys |-> @[k] \cup {MergeEffective(global, sandbox)[k]}]]

\* save_settings_record: an update of the record of that id, or an insert the name's uniqueness may refuse.
NameFree(id, name) == sset[id] # NoRecord \/ \A i \in DOMAIN sset : sset[i].name # name

SaveGlobal(rec) ==
    /\ gset' = rec
    /\ reader' = Watched(reader, rec.keys, IF reader.id = 0 THEN NoRecord.keys ELSE sset[reader.id].keys)

SaveSandbox(id, rec) ==
    /\ sset' = [sset EXCEPT ![id] = rec]
    /\ reader' = IF reader.id = id THEN Watched(reader, gset.keys, rec.keys) ELSE reader

\* upsert_setting_value, or the removal of the key: the revision moves only if something changed.
Upsert(rec, key, val) ==
    IF rec.keys[key] = val THEN rec ELSE [rec EXCEPT !.keys[key] = val, !.rev = @ + 1]

-----------------------------------------------------------------------------
(* UpdateConfig: requests *)

Step(c, pc) == ask' = [ask EXCEPT ![c].pc = pc]

\* The response; the guard of the mutex is dropped.
Answer(c) ==
    /\ ask' = [ask EXCEPT ![c] = NoAsk]
    /\ smutex' = IF smutex = c THEN NoCaller ELSE smutex

\* handle_update_config: a request is for a policy or a setting, global or of a sandbox, whose name
\* is resolved before the mutex is taken.
Request(c, op, key, val, n) ==
    /\ ask[c].pc = "idle"
    /\ op = "sandbox" => boxes[n] # 0
    /\ ask' = [ask EXCEPT ![c] = [NoAsk EXCEPT !.pc = "lock", !.op = op, !.key = key, !.val = val, !.name = n,
                                                !.id = IF op = "sandbox" THEN boxes[n] ELSE 0]]
    /\ UNCHANGED <<gset, sset, boxes, lastBox, gpol, smutex, reader>>

\* The value is parsed by the key's kind before the call; policy is no setting key.
ParseSettingValue(key, val) == key \in SetKeys /\ val \in GlobalValues \cup BoxValues

\* The commands; a global one has been confirmed.
GatewaySettingSet(c) ==
    \E key \in SetKeys, val \in GlobalValues : ParseSettingValue(key, val) /\ Request(c, "global", key, val, "")

GatewaySettingDelete(c) == \E key \in SetKeys : Request(c, "global", key, NoValue, "")

SandboxSettingSet(c) ==
    \E key \in SetKeys, val \in BoxValues, n \in SetNames :
        ParseSettingValue(key, val) /\ Request(c, "sandbox", key, val, n)

SandboxSettingDelete(c) == \E key \in SetKeys, n \in SetNames : Request(c, "sandbox", key, NoValue, n)

SandboxPolicySetGlobal(c) == \E val \in GlobalPolicies : Request(c, "policy", PolicyKey, val, "")

PolicyDeleteGlobal(c) == Request(c, "global", PolicyKey, NoValue, "")

MUT_Lock(c) ==
    /\ ask[c].pc = "lock"
    /\ smutex' = smutex
    /\ Step(c, IF ask[c].op = "policy" THEN "latest" ELSE "load")
    /\ UNCHANGED <<gset, sset, boxes, lastBox, gpol, reader>>

Lock(c) ==
    /\ ask[c].pc = "lock" /\ smutex = NoCaller
    /\ smutex' = c
    /\ Step(c, IF ask[c].op = "policy" THEN "latest" ELSE "load")
    /\ UNCHANGED <<gset, sset, boxes, lastBox, gpol, reader>>

\* A store call fails: the handler returns the error and leaves what it has written.
StoreFails(c) ==
    /\ ask[c].pc \in {"latest", "revise", "load", "loadbox", "save"}
    /\ Answer(c)
    /\ UNCHANGED <<gset, sset, boxes, lastBox, gpol, reader>>

-----------------------------------------------------------------------------
(* The global policy: a revision in the history, then the record sandboxes poll *)

\* The same policy, still loaded: no new revision, but the record is brought in line.
GetLatestGlobal(c) ==
    /\ ask[c].pc = "latest"
    /\ LET same == gpol # <<>> /\ gpol[Len(gpol)] = [policy |-> ask[c].val, status |-> "loaded"]
       IN  /\ same \/ Len(gpol) < MaxGlobalRevs
           /\ Step(c, IF same THEN "load" ELSE "revise")
    /\ UNCHANGED <<gset, sset, boxes, lastBox, gpol, smutex, reader>>

PutGlobalRevision(c) ==
    /\ ask[c].pc = "revise"
    /\ gpol' = Append(gpol, [policy |-> ask[c].val, status |-> "pending"])
    /\ Step(c, "mark")
    /\ UNCHANGED <<gset, sset, boxes, lastBox, smutex, reader>>

\* The results of the two status updates are ignored.
MarkLoaded(c) ==
    /\ ask[c].pc = "mark"
    /\ gpol' \in {gpol, [gpol EXCEPT ![Len(gpol)].status = "loaded"]}
    /\ Step(c, "older")
    /\ UNCHANGED <<gset, sset, boxes, lastBox, smutex, reader>>

Supersede(upto) == [i \in DOMAIN gpol |-> IF i <= upto THEN [gpol[i] EXCEPT !.status = "superseded"] ELSE gpol[i]]

SupersedeGlobal(c) ==
    /\ ask[c].pc = "older"
    /\ gpol' \in {gpol, Supersede(Len(gpol) - 1)}
    /\ Step(c, "load")
    /\ UNCHANGED <<gset, sset, boxes, lastBox, smutex, reader>>

-----------------------------------------------------------------------------
(* Settings *)

LoadGlobal(c) ==
    /\ ask[c].pc = "load"
    /\ IF ask[c].op = "sandbox" /\ gset.keys[ask[c].key] # NoValue
       THEN Answer(c)
       ELSE /\ IF ask[c].op = "sandbox" THEN Step(c, "loadbox")
               ELSE ask' = [ask EXCEPT ![c].g = gset, ![c].pc = "save"]
            /\ UNCHANGED smutex
    /\ UNCHANGED <<gset, sset, boxes, lastBox, gpol, reader>>

\* Deleting the global policy supersedes every revision; a failure there is ignored.
SaveGlobalSettings(c) ==
    LET rec == Upsert(ask[c].g, ask[c].key, ask[c].val) IN
    /\ ask[c].pc = "save" /\ ask[c].op # "sandbox" /\ rec.rev <= MaxSetRev
    /\ IF rec # ask[c].g THEN SaveGlobal(rec) ELSE UNCHANGED <<gset, reader>>
    /\ IF rec # ask[c].g /\ ask[c].key = PolicyKey /\ ask[c].val = NoValue
       THEN gpol' \in {gpol, Supersede(Len(gpol))}
       ELSE UNCHANGED gpol
    /\ Answer(c)
    /\ UNCHANGED <<sset, boxes, lastBox>>

LoadSandbox(c) ==
    /\ ask[c].pc = "loadbox"
    /\ ask' = [ask EXCEPT ![c].s = sset[ask[c].id], ![c].pc = "save"]
    /\ UNCHANGED <<gset, sset, boxes, lastBox, gpol, smutex, reader>>

\* Refused by the store if another record has the sandbox's name: the error is returned.
SaveSandboxSettings(c) ==
    LET rec == [Upsert(ask[c].s, ask[c].key, ask[c].val) EXCEPT !.name = ask[c].name] IN
    /\ ask[c].pc = "save" /\ ask[c].op = "sandbox" /\ rec.rev <= MaxSetRev
    /\ IF rec.keys # ask[c].s.keys /\ NameFree(ask[c].id, ask[c].name)
       THEN SaveSandbox(ask[c].id, rec) ELSE UNCHANGED <<sset, reader>>
    /\ Answer(c)
    /\ UNCHANGED <<gset, boxes, lastBox, gpol>>

-----------------------------------------------------------------------------
(* Sandboxes come and go *)

CreateSandbox(n) ==
    /\ boxes[n] = 0 /\ lastBox < MaxSetIds
    /\ boxes' = [boxes EXCEPT ![n] = lastBox + 1] /\ lastBox' = lastBox + 1
    /\ UNCHANGED <<gset, sset, gpol, smutex, ask, reader>>

\* DeleteSandbox removes the settings record, without the mutex; the sandbox record goes when the
\* resource does.  A read under way for that sandbox is not followed further.
DeleteSettings(n) ==
    /\ boxes[n] # 0
    /\ sset' = [sset EXCEPT ![boxes[n]] = NoRecord]
    /\ reader' = IF reader.id = boxes[n] THEN NoReader ELSE reader
    /\ UNCHANGED <<gset, boxes, lastBox, gpol, smutex, ask>>

SandboxGone(n) ==
    /\ boxes[n] # 0 /\ boxes' = [boxes EXCEPT ![n] = 0]
    /\ UNCHANGED <<gset, sset, lastBox, gpol, smutex, ask, reader>>

\* The gateway restarts: handlers and the mutex are gone, the store stays.
Restart ==
    /\ ask # [c \in SetCallers |-> NoAsk]
    /\ ask' = [c \in SetCallers |-> NoAsk] /\ smutex' = NoCaller /\ reader' = NoReader
    /\ UNCHANGED <<gset, sset, boxes, lastBox, gpol>>

-----------------------------------------------------------------------------
(* GetSandboxConfig and GetGatewayConfig read without the mutex *)

ConfigBegin(n) ==
    /\ reader.pc = "idle" /\ boxes[n] # 0
    /\ reader' = [NoReader EXCEPT !.pc = "global", !.id = boxes[n],
                     !.inForce = [k \in SetKeys |-> {MergeEffective(gset.keys, sset[boxes[n]].keys)[k]}]]
    /\ UNCHANGED <<gset, sset, boxes, lastBox, gpol, smutex, ask>>

ConfigGlobal ==
    /\ reader.pc = "global"
    /\ reader' = [reader EXCEPT !.pc = "sandbox", !.g = gset.keys]
    /\ UNCHANGED <<gset, sset, boxes, lastBox, gpol, smutex, ask>>

ConfigSandbox ==
    /\ reader.pc = "sandbox"
    /\ reader' = [reader EXCEPT !.pc = "done", !.g = NoReader.g, !.got = MergeEffective(reader.g, sset[reader.id].keys)]
    /\ UNCHANGED <<gset, sset, boxes, lastBox, gpol, smutex, ask>>

\* GetGatewayConfig is one load.
GatewayConfig ==
    /\ reader.pc = "idle"
    /\ reader' = [NoReader EXCEPT !.pc = "done", !.got = MaterializeGlobal(gset.keys),
                     !.inForce = [k \in SetKeys |-> {gset.keys[k]}]]
    /\ UNCHANGED <<gset, sset, boxes, lastBox, gpol, smutex, ask>>

ConfigReturned ==
    /\ reader.pc = "done" /\ reader' = NoReader
    /\ UNCHANGED <<gset, sset, boxes, lastBox, gpol, smutex, ask>>

SetNext ==
    \/ \E c \in SetCallers :
          \/ GatewaySettingSet(c) \/ GatewaySettingDelete(c) \/ SandboxSettingSet(c) \/ SandboxSettingDelete(c)
          \/ SandboxPolicySetGlobal(c) \/ PolicyDeleteGlobal(c) \/ Lock(c) \/ StoreFails(c) \/ GetLatestGlobal(c) \/ PutGlobalRevision(c)
          \/ MarkLoaded(c) \/ SupersedeGlobal(c) \/ LoadGlobal(c) \/ SaveGlobalSettings(c) \/ LoadSandbox(c)
          \/ SaveSandboxSettings(c)
    \/ \E n \in SetNames : CreateSandbox(n) \/ DeleteSettings(n) \/ SandboxGone(n) \/ ConfigBegin(n)
    \/ Restart \/ ConfigGlobal \/ ConfigSandbox \/ GatewayConfig \/ ConfigReturned

SetSpec == SetInit /\ [][SetNext]_setVars

-----------------------------------------------------------------------------
(* Properties *)

SetTypeOK ==
    /\ gset.rev \in 0..MaxSetRev /\ \A k \in AllKeys : gset.keys[k] \in GlobalValues \cup GlobalPolicies \cup {NoValue}
    /\ \A i \in DOMAIN sset : sset[i].rev \in 0..MaxSetRev /\ sset[i].name \in SetNames \cup {""}
    /\ \A n \in SetNames : boxes[n] \in 0..lastBox
    /\ smutex \in SetCallers \cup {NoCaller}
    /\ \A i \in DOMAIN gpol : gpol[i].status \in {"pending", "loaded", "superseded"}

\* Every value a sandbox is given for a key was the key's value in force at some moment of that
\* call, although GetSandboxConfig loads the two records in two store calls without the mutex:
\* while a key is managed globally no sandbox value of it is written.
EffectiveWasInForce ==
    reader.pc = "done" => \A k \in SetKeys : reader.got[k] \in reader.inForce[k]

\* However updates, deletions and reads interleave, the records are well formed
\* and a sandbox is given no value that was never in force.
SettingsSound == SetTypeOK /\ EffectiveWasInForce
=============================================================================
