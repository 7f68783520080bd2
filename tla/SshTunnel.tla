------------------------------ MODULE SshTunnel ------------------------------
(***************************************************************************)
(* SSH access to sandboxes through the gateway (openshell-server): the     *)
(* session tokens CreateSshSession and RevokeSshSession keep in the store, *)
(* the tunnels of /connect/ssh with their in-memory limits per token and   *)
(* per sandbox (ssh_tunnel.rs), the session reaper, and the part of        *)
(* DeleteSandbox that removes sessions (grpc/sandbox.rs).                  *)
(*                                                                         *)
(* A step of a handler ends at a store call, a Kubernetes call or the      *)
(* release of a mutex: other handlers and threads run in between.          *)
(***************************************************************************)
EXTENDS Integers, FiniteSets

CONSTANTS
    Tokens,         \* session tokens; CreateSshSession draws a fresh one
    Sandboxes,
    Conns,          \* requests to /connect/ssh and their tunnels
    None,           \* no session row
    MaxPerToken,    \* MAX_CONNECTIONS_PER_TOKEN (3)
    MaxPerSandbox,  \* MAX_CONNECTIONS_PER_SANDBOX (20)
    MaxRestarts     \* bound on restarts of the gateway

ASSUME LimitsAssumption ==
    /\ MaxPerToken \in Nat /\ MaxPerSandbox \in Nat /\ MaxRestarts \in Nat
    /\ IsFiniteSet(Conns)

Sessions == [sandbox : Sandboxes, revoked : BOOLEAN]
ASSUME NoneAssumption == None \notin Sessions \cup Tokens \cup Sandboxes

VARIABLES
    session,   \* [Tokens -> Sessions or None], the "ssh_session" rows
    expired,   \* tokens whose expires_at_ms has passed
    phase,     \* [Sandboxes -> phase of the stored record, or "gone"]
    creator,   \* [Tokens -> CreateSshSession call]
    revoker,   \* [Tokens -> session read by a RevokeSshSession call, or None]
    acked,     \* tokens whose revocation was answered
    deleter,   \* [Sandboxes -> DeleteSandbox call]
    reaping,   \* sessions the reaper's sweep has still to delete
    conn,      \* [Conns -> request and tunnel]
    byToken,   \* ssh_connections_by_token; no entry is 0
    bySandbox, \* ssh_connections_by_sandbox
    restarts

stored == <<session, phase>>
calls == <<creator, revoker, deleter, reaping>>
counts == <<byToken, bySandbox>>
vars == <<session, expired, phase, creator, revoker, acked, deleter, reaping,
          conn, byToken, bySandbox, restarts>>

-----------------------------------------------------------------------------
(* Sessions *)

NewCall == [pc |-> "new", sandbox |-> None]

\* Only a sandbox that is Ready gets a session.
CreateRead(t) ==
    /\ creator[t].pc = "new"
    /\ \E s \in Sandboxes :
           /\ phase[s] = "Ready"
           /\ creator' = [creator EXCEPT ![t] = [pc |-> "put", sandbox |-> s]]
    /\ UNCHANGED <<session, expired, phase, revoker, acked, deleter, reaping, conn, counts, restarts>>

CreatePut(t) ==
    /\ creator[t].pc = "put"
    /\ session' = [session EXCEPT ![t] = [sandbox |-> creator[t].sandbox, revoked |-> FALSE]]
    /\ creator' = [creator EXCEPT ![t].pc = "done"]
    /\ UNCHANGED <<expired, phase, revoker, acked, deleter, reaping, conn, counts, restarts>>

\* ssh_session_ttl_secs has passed; a TTL of 0 never does.
Expire(t) ==
    /\ session[t] # None
    /\ expired' = expired \cup {t}
    /\ UNCHANGED <<stored, acked, calls, conn, counts, restarts>>

RevokeRead(t) ==
    /\ session[t] # None /\ revoker[t] = None
    /\ revoker' = [revoker EXCEPT ![t] = session[t]]
    /\ UNCHANGED <<stored, expired, creator, acked, deleter, reaping, conn, counts, restarts>>

\* The whole session that was read is written back, revoked: an upsert.
RevokePut(t) ==
    /\ revoker[t] # None
    /\ session' = [session EXCEPT ![t] = [revoker[t] EXCEPT !.revoked = TRUE]]
    /\ revoker' = [revoker EXCEPT ![t] = None]
    /\ acked' = acked \cup {t}
    /\ UNCHANGED <<expired, phase, creator, deleter, reaping, conn, counts, restarts>>

ShouldDelete(t) == t \in expired \/ session[t].revoked

\* reap_expired_sessions: one list, then one delete per session.
ReapList ==
    /\ reaping = {}
    /\ reaping' = {t \in Tokens : session[t] # None /\ ShouldDelete(t)}
    /\ UNCHANGED <<stored, expired, creator, revoker, acked, deleter, conn, counts, restarts>>

ReapOne(t) ==
    /\ t \in reaping
    /\ session' = [session EXCEPT ![t] = None]
    /\ reaping' = reaping \ {t}
    /\ UNCHANGED <<expired, phase, creator, revoker, acked, deleter, conn, counts, restarts>>

-----------------------------------------------------------------------------
(* Sandboxes.  DeleteSandbox marks the record, lists the sessions and      *)
(* deletes those of the sandbox; the record goes when its CR is gone.      *)

\* The watcher writes the phase of the CR.
SetPhase(s) ==
    /\ phase[s] # "gone"
    /\ \E p \in {"Provisioning", "Ready"} \ {phase[s]} : phase' = [phase EXCEPT ![s] = p]
    /\ UNCHANGED <<session, expired, acked, calls, conn, counts, restarts>>

DeleteMark(s) ==
    /\ phase[s] # "gone" /\ deleter[s].pc = "idle"
    /\ phase' = [phase EXCEPT ![s] = "Deleting"]
    /\ deleter' = [deleter EXCEPT ![s].pc = "list"]
    /\ UNCHANGED <<session, expired, creator, revoker, acked, reaping, conn, counts, restarts>>

DeleteList(s) ==
    /\ deleter[s].pc = "list"
    /\ deleter' = [deleter EXCEPT ![s] =
           [pc |-> "sessions",
            todo |-> {t \in Tokens : session[t] # None /\ session[t].sandbox = s}]]
    /\ UNCHANGED <<stored, expired, creator, revoker, acked, reaping, conn, counts, restarts>>

DeleteSession(s, t) ==
    /\ t \in deleter[s].todo
    /\ session' = [session EXCEPT ![t] = None]
    /\ deleter' = [deleter EXCEPT ![s].todo = @ \ {t}]
    /\ UNCHANGED <<expired, phase, creator, revoker, acked, reaping, conn, counts, restarts>>

DeleteDone(s) ==
    /\ deleter[s].pc = "sessions" /\ deleter[s].todo = {}
    /\ phase' = [phase EXCEPT ![s] = "gone"]
    /\ deleter' = [deleter EXCEPT ![s].pc = "idle"]
    /\ UNCHANGED <<session, expired, creator, revoker, acked, reaping, conn, counts, restarts>>

-----------------------------------------------------------------------------
(* Tunnels *)

Free == [pc |-> "free", token |-> None, sandbox |-> None]
ConnAs(c, pc) == conn' = [conn EXCEPT ![c].pc = pc]
Dropped(c) == conn' = [conn EXCEPT ![c] = Free]
Decremented(n) == IF n > 0 THEN n - 1 ELSE 0
outside == <<stored, expired, acked, calls, restarts>>

MUT_Valid(t, s) == session[t] # None /\ session[t].sandbox = s /\ t \notin expired

\* Any other request is refused and leaves no trace.
Valid(t, s) ==
    /\ session[t] # None /\ session[t].sandbox = s
    /\ ~session[t].revoked /\ t \notin expired

ConnectAuth(c) ==
    /\ conn[c].pc = "free"
    /\ \E t \in Tokens, s \in Sandboxes :
           /\ Valid(t, s)
           /\ conn' = [conn EXCEPT ![c] = [pc |-> "auth", token |-> t, sandbox |-> s]]
    /\ UNCHANGED <<outside, counts>>

\* The sandbox is Ready, and its pod has an address.
ConnectReady(c) ==
    /\ conn[c].pc = "auth"
    /\ phase[conn[c].sandbox] = "Ready"
    /\ ConnAs(c, "ready")
    /\ UNCHANGED <<outside, counts>>

\* It is not or it has none, or the client went away during those awaits.
ConnectRefused(c) ==
    /\ conn[c].pc \in {"auth", "ready"}
    /\ Dropped(c)
    /\ UNCHANGED <<outside, counts>>

\* No await follows until the tunnel's task is spawned.
AdmitToken(c) ==
    LET t == conn[c].token IN
    /\ conn[c].pc = "ready"
    /\ \/ /\ byToken[t] < MaxPerToken
          /\ byToken' = [byToken EXCEPT ![t] = @ + 1]
          /\ ConnAs(c, "counted")
       \/ /\ byToken[t] >= MaxPerToken
          /\ Dropped(c) /\ UNCHANGED byToken
    /\ UNCHANGED <<outside, bySandbox>>

MUT_AdmitSandboxLimit(c) ==
    LET s == conn[c].sandbox IN
    /\ conn[c].pc = "counted"
    /\ \/ /\ bySandbox[s] <= MaxPerSandbox
          /\ bySandbox' = [bySandbox EXCEPT ![s] = @ + 1]
          /\ ConnAs(c, "connecting") /\ UNCHANGED byToken
       \/ /\ bySandbox[s] > MaxPerSandbox
          /\ byToken' = [byToken EXCEPT ![conn[c].token] = Decremented(@)]
          /\ Dropped(c) /\ UNCHANGED bySandbox
    /\ UNCHANGED outside

MUT_AdmitSandbox(c) ==
    LET s == conn[c].sandbox IN
    /\ conn[c].pc = "counted"
    /\ \/ /\ bySandbox[s] < MaxPerSandbox
          /\ bySandbox' = [bySandbox EXCEPT ![s] = @ + 1]
          /\ ConnAs(c, "connecting")
       \/ /\ bySandbox[s] >= MaxPerSandbox
          /\ Dropped(c) /\ UNCHANGED bySandbox
    /\ UNCHANGED <<outside, byToken>>

\* The token's slot is given back under both mutexes.
AdmitSandbox(c) ==
    LET s == conn[c].sandbox
        t == conn[c].token IN
    /\ conn[c].pc = "counted"
    /\ \/ /\ bySandbox[s] < MaxPerSandbox
          /\ bySandbox' = [bySandbox EXCEPT ![s] = @ + 1]
          /\ ConnAs(c, "connecting") /\ UNCHANGED byToken
       \/ /\ bySandbox[s] >= MaxPerSandbox
          /\ byToken' = [byToken EXCEPT ![t] = Decremented(@)]
          /\ Dropped(c) /\ UNCHANGED bySandbox
    /\ UNCHANGED outside

\* handle_tunnel: at most nine attempts to connect, the preface, its answer.
TunnelOpens(c) ==
    /\ conn[c].pc = "connecting"
    /\ ConnAs(c, "open")
    /\ UNCHANGED <<outside, counts>>

\* The upgrade, the attempts or the handshake failed, or a side closed.
TunnelEnds(c) ==
    /\ conn[c].pc \in {"connecting", "open"}
    /\ ConnAs(c, "ended")
    /\ UNCHANGED <<outside, counts>>

ReleaseToken(c) ==
    /\ conn[c].pc = "ended"
    /\ byToken' = [byToken EXCEPT ![conn[c].token] = Decremented(@)]
    /\ ConnAs(c, "releasing")
    /\ UNCHANGED <<outside, bySandbox>>

ReleaseSandbox(c) ==
    /\ conn[c].pc = "releasing"
    /\ bySandbox' = [bySandbox EXCEPT ![conn[c].sandbox] = Decremented(@)]
    /\ Dropped(c)
    /\ UNCHANGED <<outside, byToken>>

-----------------------------------------------------------------------------
NoDelete == [pc |-> "idle", todo |-> {}]

\* The gateway restarts: calls, tunnels and counts are lost, rows are not.
Restart ==
    /\ restarts < MaxRestarts
    /\ restarts' = restarts + 1
    /\ creator' = [t \in Tokens |->
           IF creator[t].pc = "put" THEN [creator[t] EXCEPT !.pc = "done"] ELSE creator[t]]
    /\ revoker' = [t \in Tokens |-> None]
    /\ deleter' = [s \in Sandboxes |-> NoDelete]
    /\ reaping' = {}
    /\ conn' = [c \in Conns |-> Free]
    /\ byToken' = [t \in Tokens |-> 0]
    /\ bySandbox' = [s \in Sandboxes |-> 0]
    /\ UNCHANGED <<stored, expired, acked>>

Init ==
    /\ session = [t \in Tokens |-> None]
    /\ expired = {}
    /\ phase = [s \in Sandboxes |-> "Provisioning"]
    /\ creator = [t \in Tokens |-> NewCall]
    /\ revoker = [t \in Tokens |-> None]
    /\ acked = {}
    /\ deleter = [s \in Sandboxes |-> NoDelete]
    /\ reaping = {}
    /\ conn = [c \in Conns |-> Free]
    /\ byToken = [t \in Tokens |-> 0]
    /\ bySandbox = [s \in Sandboxes |-> 0]
    /\ restarts = 0

Session(t) == CreateRead(t) \/ CreatePut(t) \/ Expire(t) \/ RevokeRead(t) \/ RevokePut(t)
Sandbox(s) ==
    SetPhase(s) \/ DeleteMark(s) \/ DeleteList(s) \/ (\E t \in Tokens : DeleteSession(s, t)) \/ DeleteDone(s)
Connect(c) == ConnectAuth(c) \/ ConnectReady(c) \/ ConnectRefused(c) \/ AdmitToken(c) \/ AdmitSandbox(c)
Tunnel(c) == TunnelOpens(c) \/ TunnelEnds(c) \/ ReleaseToken(c) \/ ReleaseSandbox(c)
Reap == ReapList \/ \E t \in Tokens : ReapOne(t)

Next ==
    \/ \E t \in Tokens : Session(t)
    \/ \E s \in Sandboxes : Sandbox(s)
    \/ \E c \in Conns : Connect(c) \/ Tunnel(c)
    \/ Reap
    \/ Restart

Spec == Init /\ [][Next]_vars

-----------------------------------------------------------------------------
Slots == [pc : {"auth", "ready", "counted", "connecting", "open", "ended", "releasing"},
          token : Tokens, sandbox : Sandboxes]

\* Rows, calls, connections and counters stay in their types.
TypeOK ==
    /\ session \in [Tokens -> Sessions \cup {None}]
    /\ expired \subseteq Tokens
    /\ phase \in [Sandboxes -> {"Provisioning", "Ready", "Deleting", "gone"}]
    /\ creator \in [Tokens -> {NewCall} \cup [pc : {"put", "done"}, sandbox : Sandboxes]]
    /\ revoker \in [Tokens -> Sessions \cup {None}]
    /\ acked \subseteq Tokens
    /\ deleter \in [Sandboxes -> [pc : {"idle", "list", "sessions"}, todo : SUBSET Tokens]]
    /\ reaping \subseteq Tokens
    /\ conn \in [Conns -> {Free} \cup Slots]
    /\ byToken \in [Tokens -> Nat]
    /\ bySandbox \in [Sandboxes -> Nat]
    /\ restarts \in 0..MaxRestarts

HoldsToken(t) ==
    {c \in Conns : conn[c].pc \in {"counted", "connecting", "open", "ended"} /\ conn[c].token = t}
HoldsSandbox(s) ==
    {c \in Conns : conn[c].pc \in {"connecting", "open", "ended", "releasing"} /\ conn[c].sandbox = s}

\* The two counters are exactly the connections that hold a slot: no path of
\* ssh_connect or of the tunnel's task leaks one or gives one back twice.
CountsMatch ==
    /\ \A t \in Tokens : byToken[t] = Cardinality(HoldsToken(t))
    /\ \A s \in Sandboxes : bySandbox[s] = Cardinality(HoldsSandbox(s))

Open(c) == conn[c].pc = "open"

\* No more tunnels are open at a time than MAX_CONNECTIONS_PER_TOKEN for a
\* token and MAX_CONNECTIONS_PER_SANDBOX for a sandbox, although two mutexes
\* guard the two counters.
TunnelLimits ==
    /\ \A t \in Tokens : Cardinality({c \in Conns : Open(c) /\ conn[c].token = t}) <= MaxPerToken
    /\ \A s \in Sandboxes : Cardinality({c \in Conns : Open(c) /\ conn[c].sandbox = s}) <= MaxPerSandbox

\* A request that arrives once RevokeSshSession has answered, or after the
\* expiry, is not accepted: no write of a stale session revives a token.
Accepts(c) == conn[c].pc = "free" /\ conn'[c].pc # "free"
StaleTokenRefused ==
    [][\A c \in Conns : Accepts(c) => conn'[c].token \notin acked \cup expired]_vars
=============================================================================
