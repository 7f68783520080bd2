--------------------------- MODULE SshTunnelProofs ---------------------------
(***************************************************************************)
(* Theorems about SshTunnel, for any number of tokens, sandboxes and       *)
(* connections and any limits: the counters are exact and the limits hold. *)
(***************************************************************************)
EXTENDS SshTunnel, FiniteSetTheorems, TLAPS

-----------------------------------------------------------------------------
(* Types. *)

\* The initial state has the declared types.
LEMMA InitTypeOK == Init => TypeOK
  BY LimitsAssumption DEF Init, TypeOK, NewCall, NoDelete

\* Every step keeps the types.
LEMMA NextTypeOK == TypeOK /\ [Next]_vars => TypeOK'
  <1> SUFFICES ASSUME TypeOK, [Next]_vars PROVE TypeOK'
    OBVIOUS
  <1> USE NoneAssumption, LimitsAssumption
  <1>1. ASSUME NEW t \in Tokens, Session(t) PROVE TypeOK'
    <2>1. CASE CreateRead(t)
      BY <2>1 DEF CreateRead, TypeOK, counts
    <2>2. CASE CreatePut(t)
      <3>1. creator[t].sandbox \in Sandboxes
        BY <2>2 DEF CreatePut, TypeOK, NewCall
      <3>2. creator' \in [Tokens -> {NewCall} \cup [pc : {"put", "done"}, sandbox : Sandboxes]]
        BY <2>2, <3>1 DEF CreatePut, TypeOK, NewCall
      <3>3. session' \in [Tokens -> Sessions \cup {None}]
        BY <2>2, <3>1 DEF CreatePut, TypeOK, Sessions
      <3> QED
        BY <2>2, <3>2, <3>3 DEF CreatePut, TypeOK, counts
    <2>3. CASE Expire(t)
      BY <2>3 DEF Expire, TypeOK, stored, calls, counts
    <2>4. CASE RevokeRead(t)
      BY <2>4 DEF RevokeRead, TypeOK, stored, counts
    <2>5. CASE RevokePut(t)
      <3>1. revoker[t] \in Sessions
        BY <2>5 DEF RevokePut, TypeOK
      <3>2. [revoker[t] EXCEPT !.revoked = TRUE] \in Sessions
        BY <3>1 DEF Sessions
      <3> QED
        BY <2>5, <3>2 DEF RevokePut, TypeOK, counts
    <2> QED
      BY <1>1, <2>1, <2>2, <2>3, <2>4, <2>5 DEF Session
  <1>2. ASSUME NEW s \in Sandboxes, Sandbox(s) PROVE TypeOK'
    <2>1. CASE SetPhase(s)
      BY <2>1 DEF SetPhase, TypeOK, calls, counts
    <2>2. CASE DeleteMark(s)
      BY <2>2 DEF DeleteMark, TypeOK, counts
    <2>3. CASE DeleteList(s)
      BY <2>3 DEF DeleteList, TypeOK, stored, counts
    <2>4. ASSUME NEW t \in Tokens, DeleteSession(s, t) PROVE TypeOK'
      BY <2>4 DEF DeleteSession, TypeOK, counts
    <2>5. CASE DeleteDone(s)
      BY <2>5 DEF DeleteDone, TypeOK, counts
    <2> QED
      BY <1>2, <2>1, <2>2, <2>3, <2>4, <2>5 DEF Sandbox
  <1>3. ASSUME NEW c \in Conns, Connect(c) \/ Tunnel(c) PROVE TypeOK'
    <2>1. conn' \in [Conns -> {Free} \cup Slots]
      <3>1. CASE ConnectAuth(c)
        BY <3>1 DEF ConnectAuth, TypeOK, Slots
      <3>2. CASE Dropped(c)
        BY <3>2 DEF Dropped, TypeOK
      <3>3. ASSUME conn[c].pc # "free",
                   NEW pc \in {"ready", "counted", "connecting", "open", "ended", "releasing"},
                   ConnAs(c, pc)
            PROVE  conn' \in [Conns -> {Free} \cup Slots]
        BY <3>3 DEF ConnAs, TypeOK, Slots, Free
      <3> QED
        BY <1>3, <3>1, <3>2, <3>3
        DEF Connect, Tunnel, ConnectReady, ConnectRefused, AdmitToken, AdmitSandbox,
            TunnelOpens, TunnelEnds, ReleaseToken, ReleaseSandbox
    <2>2. byToken' \in [Tokens -> Nat] /\ bySandbox' \in [Sandboxes -> Nat]
      BY <1>3 DEF Connect, Tunnel, ConnectAuth, ConnectReady, ConnectRefused, AdmitToken,
                  AdmitSandbox, TunnelOpens, TunnelEnds, ReleaseToken, ReleaseSandbox,
                  Decremented, TypeOK, counts
    <2>3. UNCHANGED outside
      BY <1>3 DEF Connect, Tunnel, ConnectAuth, ConnectReady, ConnectRefused, AdmitToken,
                  AdmitSandbox, TunnelOpens, TunnelEnds, ReleaseToken, ReleaseSandbox
    <2> QED
      BY <2>1, <2>2, <2>3 DEF TypeOK, outside, stored, calls
  <1>4. CASE Reap
    BY <1>4 DEF Reap, ReapList, ReapOne, TypeOK, stored, counts
  <1>5. CASE Restart
    <2>1. creator' \in [Tokens -> {NewCall} \cup [pc : {"put", "done"}, sandbox : Sandboxes]]
      BY <1>5 DEF Restart, TypeOK, NewCall
    <2> QED
      BY <1>5, <2>1 DEF Restart, TypeOK, NoDelete, stored
  <1>6. CASE UNCHANGED vars
    BY <1>6 DEF TypeOK, vars
  <1> QED
    BY <1>1, <1>2, <1>3, <1>4, <1>5, <1>6 DEF Next

-----------------------------------------------------------------------------
(* Counting slots. *)

TokenSlot(v, t) == v.pc \in {"counted", "connecting", "open", "ended"} /\ v.token = t
SandboxSlot(v, s) == v.pc \in {"connecting", "open", "ended", "releasing"} /\ v.sandbox = s

\* A step of one connection adds it to the holders of a slot or takes it out.
LEMMA HoldersStep ==
    ASSUME TypeOK, NEW c \in Conns, NEW v, conn' = [conn EXCEPT ![c] = v]
    PROVE  /\ \A t \in Tokens : HoldsToken(t)' =
                  IF TokenSlot(v, t) THEN HoldsToken(t) \cup {c} ELSE HoldsToken(t) \ {c}
           /\ \A s \in Sandboxes : HoldsSandbox(s)' =
                  IF SandboxSlot(v, s) THEN HoldsSandbox(s) \cup {c} ELSE HoldsSandbox(s) \ {c}
  BY DEF TypeOK, HoldsToken, HoldsSandbox, TokenSlot, SandboxSlot

\* Cardinalities of the holders, with one connection more or less.
LEMMA Holders ==
    ASSUME NEW S \in SUBSET Conns, NEW c \in Conns
    PROVE  /\ Cardinality(S) \in Nat
           /\ Cardinality(S \cup {c}) = IF c \in S THEN Cardinality(S) ELSE Cardinality(S) + 1
           /\ Cardinality(S \ {c}) = IF c \in S THEN Cardinality(S) - 1 ELSE Cardinality(S)
           /\ c \in S => Cardinality(S) > 0
  <1>1. IsFiniteSet(S)
    BY LimitsAssumption, FS_Subset
  <1>2. Cardinality(S) \in Nat
    BY <1>1, FS_CardinalityType
  <1>3. c \in S => Cardinality(S) # 0
    BY <1>1, FS_EmptySet
  <1>4. Cardinality(S \cup {c}) = IF c \in S THEN Cardinality(S) ELSE Cardinality(S) + 1
    BY <1>1, FS_AddElement
  <1>5. Cardinality(S \ {c}) = IF c \in S THEN Cardinality(S) - 1 ELSE Cardinality(S)
    BY <1>1, FS_RemoveElement
  <1>6. c \in S => Cardinality(S) > 0
    BY <1>2, <1>3
  <1> QED
    BY <1>2, <1>4, <1>5, <1>6

\* The counters a step must leave behind that sets connection c to v.
SlotsKept(c, v) ==
    /\ \A t \in Tokens : byToken'[t] =
           IF TokenSlot(v, t) THEN IF TokenSlot(conn[c], t) THEN byToken[t] ELSE byToken[t] + 1
           ELSE IF TokenSlot(conn[c], t) THEN byToken[t] - 1 ELSE byToken[t]
    /\ \A s \in Sandboxes : bySandbox'[s] =
           IF SandboxSlot(v, s)
           THEN IF SandboxSlot(conn[c], s) THEN bySandbox[s] ELSE bySandbox[s] + 1
           ELSE IF SandboxSlot(conn[c], s) THEN bySandbox[s] - 1 ELSE bySandbox[s]

\* With such counters the step keeps them exact.
LEMMA CountStep ==
    ASSUME TypeOK, CountsMatch, NEW c \in Conns, NEW v, conn' = [conn EXCEPT ![c] = v],
           SlotsKept(c, v)
    PROVE  CountsMatch'
  <1>1. ASSUME NEW t \in Tokens PROVE byToken'[t] = Cardinality(HoldsToken(t)')
    <2>1. HoldsToken(t) \in SUBSET Conns /\ (c \in HoldsToken(t) <=> TokenSlot(conn[c], t))
      BY DEF HoldsToken, TokenSlot
    <2>2. HoldsToken(t)' = IF TokenSlot(v, t) THEN HoldsToken(t) \cup {c} ELSE HoldsToken(t) \ {c}
      BY HoldersStep
    <2>3. byToken[t] = Cardinality(HoldsToken(t))
      BY DEF CountsMatch
    <2> DEFINE S == HoldsToken(t)
    <2>4. /\ Cardinality(S) \in Nat
          /\ Cardinality(S \cup {c}) = IF c \in S THEN Cardinality(S) ELSE Cardinality(S) + 1
          /\ Cardinality(S \ {c}) = IF c \in S THEN Cardinality(S) - 1 ELSE Cardinality(S)
      BY <2>1, Holders
    <2> QED
      BY <2>1, <2>2, <2>3, <2>4 DEF SlotsKept
  <1>2. ASSUME NEW s \in Sandboxes PROVE bySandbox'[s] = Cardinality(HoldsSandbox(s)')
    <2>1. HoldsSandbox(s) \in SUBSET Conns /\ (c \in HoldsSandbox(s) <=> SandboxSlot(conn[c], s))
      BY DEF HoldsSandbox, SandboxSlot
    <2>2. HoldsSandbox(s)' =
              IF SandboxSlot(v, s) THEN HoldsSandbox(s) \cup {c} ELSE HoldsSandbox(s) \ {c}
      BY HoldersStep
    <2>3. bySandbox[s] = Cardinality(HoldsSandbox(s))
      BY DEF CountsMatch
    <2> DEFINE S == HoldsSandbox(s)
    <2>4. /\ Cardinality(S) \in Nat
          /\ Cardinality(S \cup {c}) = IF c \in S THEN Cardinality(S) ELSE Cardinality(S) + 1
          /\ Cardinality(S \ {c}) = IF c \in S THEN Cardinality(S) - 1 ELSE Cardinality(S)
      BY <2>1, Holders
    <2> QED
      BY <2>1, <2>2, <2>3, <2>4 DEF SlotsKept
  <1> QED
    BY <1>1, <1>2 DEF CountsMatch

-----------------------------------------------------------------------------
(* The counters are exact. *)

\* The value a connection has after it moved on.
LEMMA MovedOn ==
    ASSUME TypeOK, NEW c \in Conns, NEW pc, conn[c].pc # "free", ConnAs(c, pc)
    PROVE  \E v : /\ conn' = [conn EXCEPT ![c] = v]
                  /\ v.pc = pc /\ v.token = conn[c].token /\ v.sandbox = conn[c].sandbox
  <1> DEFINE v == [conn[c] EXCEPT !.pc = pc]
  <1>1. conn[c] \in Slots
    BY DEF TypeOK, Free
  <1>2. v.pc = pc /\ v.token = conn[c].token /\ v.sandbox = conn[c].sandbox
    BY <1>1 DEF Slots
  <1>3. conn' = [conn EXCEPT ![c] = v]
    BY DEF ConnAs
  <1> QED
    BY <1>2, <1>3

\* Every step keeps the counters exact: a slot is taken, given back or kept in
\* the step that moves its connection.
LEMMA NextCounts == ASSUME TypeOK, CountsMatch, [Next]_vars PROVE CountsMatch'
  <1> USE NoneAssumption, LimitsAssumption
  <1>1. CASE UNCHANGED <<conn, byToken, bySandbox>>
    BY <1>1 DEF CountsMatch, HoldsToken, HoldsSandbox
  <1>2. ASSUME NEW c \in Conns, ConnectAuth(c) PROVE CountsMatch'
    <2>1. PICK t \in Tokens, s \in Sandboxes :
              conn' = [conn EXCEPT ![c] = [pc |-> "auth", token |-> t, sandbox |-> s]]
      BY <1>2 DEF ConnectAuth
    <2>2. conn[c].pc = "free" /\ UNCHANGED <<byToken, bySandbox>>
      BY <1>2 DEF ConnectAuth, counts
    <2>3. SlotsKept(c, [pc |-> "auth", token |-> t, sandbox |-> s])
      BY <2>2 DEF SlotsKept, TokenSlot, SandboxSlot
    <2> QED
      BY <2>1, <2>3, CountStep
  <1>3. ASSUME NEW c \in Conns, conn[c].pc \in {"auth", "ready"}, Dropped(c),
               UNCHANGED <<byToken, bySandbox>>
        PROVE  CountsMatch'
    <2>1. SlotsKept(c, Free)
      BY <1>3 DEF SlotsKept, TokenSlot, SandboxSlot, Free
    <2> QED
      BY <1>3, <2>1, CountStep DEF Dropped
  <1>4. ASSUME NEW c \in Conns, ConnectReady(c) PROVE CountsMatch'
    <2>1. PICK v : conn' = [conn EXCEPT ![c] = v] /\ v.pc = "ready"
      BY <1>4, MovedOn DEF ConnectReady
    <2>2. SlotsKept(c, v)
      BY <1>4, <2>1 DEF SlotsKept, TokenSlot, SandboxSlot, ConnectReady, counts
    <2> QED
      BY <2>1, <2>2, CountStep
  <1>5. ASSUME NEW c \in Conns, AdmitToken(c), ConnAs(c, "counted"),
               byToken' = [byToken EXCEPT ![conn[c].token] = @ + 1]
        PROVE  CountsMatch'
    <2>1. PICK v : /\ conn' = [conn EXCEPT ![c] = v]
                   /\ v.pc = "counted" /\ v.token = conn[c].token
      BY <1>5, MovedOn DEF AdmitToken
    <2>2. conn[c].pc = "ready" /\ UNCHANGED bySandbox
      BY <1>5 DEF AdmitToken
    <2>3. \A t \in Tokens : byToken'[t] = IF t = conn[c].token THEN byToken[t] + 1 ELSE byToken[t]
      BY <1>5 DEF TypeOK
    <2>4. SlotsKept(c, v)
      BY <2>1, <2>2, <2>3 DEF SlotsKept, TokenSlot, SandboxSlot
    <2> QED
      BY <2>1, <2>4, CountStep
  <1>6. ASSUME NEW c \in Conns, AdmitSandbox(c), ConnAs(c, "connecting"),
               bySandbox' = [bySandbox EXCEPT ![conn[c].sandbox] = @ + 1], UNCHANGED byToken
        PROVE  CountsMatch'
    <2>1. PICK v : /\ conn' = [conn EXCEPT ![c] = v] /\ v.pc = "connecting"
                   /\ v.token = conn[c].token /\ v.sandbox = conn[c].sandbox
      BY <1>6, MovedOn DEF AdmitSandbox
    <2>2. conn[c].pc = "counted"
      BY <1>6 DEF AdmitSandbox
    <2>3. \A s \in Sandboxes :
              bySandbox'[s] = IF s = conn[c].sandbox THEN bySandbox[s] + 1 ELSE bySandbox[s]
      BY <1>6 DEF TypeOK
    <2>4. SlotsKept(c, v)
      BY <1>6, <2>1, <2>2, <2>3 DEF SlotsKept, TokenSlot, SandboxSlot
    <2> QED
      BY <2>1, <2>4, CountStep
  <1>7. ASSUME NEW c \in Conns, conn[c].pc \in {"counted", "ended"}
        PROVE  byToken[conn[c].token] > 0 /\ conn[c].token \in Tokens
    <2>1. conn[c].token \in Tokens /\ c \in HoldsToken(conn[c].token)
      BY <1>7 DEF TypeOK, Free, Slots, HoldsToken
    <2>2. HoldsToken(conn[c].token) \in SUBSET Conns
      BY DEF HoldsToken
    <2>3. Cardinality(HoldsToken(conn[c].token)) > 0
      BY <2>1, <2>2, Holders
    <2>4. byToken[conn[c].token] = Cardinality(HoldsToken(conn[c].token))
      BY <2>1 DEF CountsMatch
    <2> QED
      BY <2>1, <2>3, <2>4
  <1>8. ASSUME NEW c \in Conns, conn[c].pc = "releasing"
        PROVE  bySandbox[conn[c].sandbox] > 0 /\ conn[c].sandbox \in Sandboxes
    <2>1. conn[c].sandbox \in Sandboxes /\ c \in HoldsSandbox(conn[c].sandbox)
      BY <1>8 DEF TypeOK, Free, Slots, HoldsSandbox
    <2>2. HoldsSandbox(conn[c].sandbox) \in SUBSET Conns
      BY DEF HoldsSandbox
    <2>3. Cardinality(HoldsSandbox(conn[c].sandbox)) > 0
      BY <2>1, <2>2, Holders
    <2>4. bySandbox[conn[c].sandbox] = Cardinality(HoldsSandbox(conn[c].sandbox))
      BY <2>1 DEF CountsMatch
    <2> QED
      BY <2>1, <2>3, <2>4
  <1>9. ASSUME NEW c \in Conns, AdmitSandbox(c), Dropped(c),
               byToken' = [byToken EXCEPT ![conn[c].token] = Decremented(@)],
               UNCHANGED bySandbox
        PROVE  CountsMatch'
    <2>1. conn[c].pc = "counted"
      BY <1>9 DEF AdmitSandbox
    <2>2. \A t \in Tokens : byToken'[t] = IF t = conn[c].token THEN byToken[t] - 1 ELSE byToken[t]
      BY <1>7, <1>9, <2>1 DEF TypeOK, Decremented
    <2>3. SlotsKept(c, Free)
      BY <1>9, <2>1, <2>2 DEF SlotsKept, TokenSlot, SandboxSlot, Free
    <2> QED
      BY <1>9, <2>3, CountStep DEF Dropped
  <1>10. ASSUME NEW c \in Conns, TunnelOpens(c) \/ TunnelEnds(c) PROVE CountsMatch'
    <2>1. PICK pc \in {"open", "ended"} : ConnAs(c, pc)
      BY <1>10 DEF TunnelOpens, TunnelEnds
    <2>2. conn[c].pc \in {"connecting", "open"} /\ UNCHANGED <<byToken, bySandbox>>
      BY <1>10 DEF TunnelOpens, TunnelEnds, counts
    <2>3. PICK v : /\ conn' = [conn EXCEPT ![c] = v] /\ v.pc = pc
                   /\ v.token = conn[c].token /\ v.sandbox = conn[c].sandbox
      BY <2>1, <2>2, MovedOn
    <2>4. SlotsKept(c, v)
      BY <2>2, <2>3 DEF SlotsKept, TokenSlot, SandboxSlot
    <2> QED
      BY <2>3, <2>4, CountStep
  <1>11. ASSUME NEW c \in Conns, ReleaseToken(c) PROVE CountsMatch'
    <2>1. conn[c].pc = "ended" /\ UNCHANGED bySandbox
      BY <1>11 DEF ReleaseToken
    <2>2. PICK v : /\ conn' = [conn EXCEPT ![c] = v] /\ v.pc = "releasing"
                   /\ v.token = conn[c].token /\ v.sandbox = conn[c].sandbox
      BY <1>11, <2>1, MovedOn DEF ReleaseToken
    <2>3. \A t \in Tokens : byToken'[t] = IF t = conn[c].token THEN byToken[t] - 1 ELSE byToken[t]
      BY <1>7, <1>11, <2>1 DEF ReleaseToken, TypeOK, Decremented
    <2>4. SlotsKept(c, v)
      BY <2>1, <2>2, <2>3 DEF SlotsKept, TokenSlot, SandboxSlot
    <2> QED
      BY <2>2, <2>4, CountStep
  <1>12. ASSUME NEW c \in Conns, ReleaseSandbox(c) PROVE CountsMatch'
    <2>1. conn[c].pc = "releasing" /\ UNCHANGED byToken
      BY <1>12 DEF ReleaseSandbox
    <2>2. \A s \in Sandboxes :
              bySandbox'[s] = IF s = conn[c].sandbox THEN bySandbox[s] - 1 ELSE bySandbox[s]
      BY <1>8, <1>12, <2>1 DEF ReleaseSandbox, TypeOK, Decremented
    <2>3. SlotsKept(c, Free)
      BY <2>1, <2>2 DEF SlotsKept, TokenSlot, SandboxSlot, Free
    <2> QED
      BY <1>12, <2>3, CountStep DEF ReleaseSandbox, Dropped
  <1>13. CASE Restart
    <2>1. \A t \in Tokens : byToken'[t] = 0 /\ HoldsToken(t)' = {}
      BY <1>13 DEF Restart, HoldsToken, Free
    <2>2. \A s \in Sandboxes : bySandbox'[s] = 0 /\ HoldsSandbox(s)' = {}
      BY <1>13 DEF Restart, HoldsSandbox, Free
    <2> QED
      BY <2>1, <2>2, FS_EmptySet DEF CountsMatch
  <1>14. ASSUME NEW c \in Conns, ConnectRefused(c) \/ AdmitToken(c) \/ AdmitSandbox(c)
         PROVE  CountsMatch'
    BY <1>3, <1>5, <1>6, <1>9, <1>14 DEF ConnectRefused, AdmitToken, AdmitSandbox, counts
  <1>15. ASSUME Reap \/ (\E t \in Tokens : Session(t)) \/ (\E s \in Sandboxes : Sandbox(s))
         PROVE  CountsMatch'
    BY <1>1, <1>15
    DEF Reap, ReapList, ReapOne, Session, CreateRead, CreatePut, Expire, RevokeRead, RevokePut,
        Sandbox, SetPhase, DeleteMark, DeleteList, DeleteSession, DeleteDone, counts
  <1> QED
    BY <1>1, <1>2, <1>4, <1>10, <1>11, <1>12, <1>13, <1>14, <1>15
    DEF Next, Connect, Tunnel, vars

\* The counters never pass their limits.
Below ==
    /\ \A t \in Tokens : byToken[t] <= MaxPerToken
    /\ \A s \in Sandboxes : bySandbox[s] <= MaxPerSandbox

\* Each counter is compared with its limit before it grows.
LEMMA NextBelow == ASSUME TypeOK, Below, [Next]_vars PROVE Below'
  <1> USE LimitsAssumption
  <1>1. CASE UNCHANGED <<byToken, bySandbox>>
    BY <1>1 DEF Below
  <1>2. ASSUME NEW c \in Conns, AdmitToken(c) PROVE Below'
    BY <1>2 DEF AdmitToken, Below, TypeOK
  <1>3. ASSUME NEW c \in Conns, AdmitSandbox(c) PROVE Below'
    <2>1. \A t \in Tokens : byToken'[t] <= MaxPerToken
      BY <1>3 DEF AdmitSandbox, Decremented, Below, TypeOK
    <2>2. \A s \in Sandboxes : bySandbox'[s] <= MaxPerSandbox
      BY <1>3 DEF AdmitSandbox, Below, TypeOK
    <2> QED
      BY <2>1, <2>2 DEF Below
  <1>4. ASSUME NEW c \in Conns, ReleaseToken(c) \/ ReleaseSandbox(c) PROVE Below'
    <2>1. CASE ReleaseToken(c)
      <3>1. \A t \in Tokens : byToken'[t] <= byToken[t] /\ byToken'[t] \in Nat
        BY <2>1 DEF ReleaseToken, Decremented, TypeOK
      <3> QED
        BY <2>1, <3>1 DEF ReleaseToken, Below, TypeOK
    <2>2. CASE ReleaseSandbox(c)
      <3>1. \A s \in Sandboxes : bySandbox'[s] <= bySandbox[s] /\ bySandbox'[s] \in Nat
        BY <2>2 DEF ReleaseSandbox, Decremented, TypeOK
      <3> QED
        BY <2>2, <3>1 DEF ReleaseSandbox, Below, TypeOK
    <2> QED
      BY <1>4, <2>1, <2>2
  <1>5. CASE Restart
    BY <1>5 DEF Restart, Below
  <1> QED
    BY <1>1, <1>2, <1>3, <1>4, <1>5
    DEF Next, Connect, Tunnel, Reap, Session, Sandbox, vars, counts, ConnectAuth, ConnectReady,
        ConnectRefused, TunnelOpens, TunnelEnds, ReapList, ReapOne, CreateRead, CreatePut,
        Expire, RevokeRead, RevokePut, SetPhase, DeleteMark, DeleteList, DeleteSession, DeleteDone

\* The initial state: no connection, no slot.
LEMMA InitCounts == Init => CountsMatch /\ Below
  <1> SUFFICES ASSUME Init PROVE CountsMatch /\ Below
    OBVIOUS
  <1>1. \A t \in Tokens : byToken[t] = 0 /\ HoldsToken(t) = {}
    BY DEF Init, HoldsToken, Free
  <1>2. \A s \in Sandboxes : bySandbox[s] = 0 /\ HoldsSandbox(s) = {}
    BY DEF Init, HoldsSandbox, Free
  <1> QED
    BY <1>1, <1>2, FS_EmptySet, LimitsAssumption DEF CountsMatch, Below

-----------------------------------------------------------------------------
(* Revocation. *)

\* A token whose row exists, or whose revocation is under way or answered, has
\* been created for good, and an answered revocation is in the row if there is
\* one: nothing is left that could write an unrevoked session.
RevocationHolds ==
    \A t \in Tokens :
        /\ session[t] # None \/ revoker[t] # None \/ t \in acked => creator[t].pc = "done"
        /\ t \in acked /\ session[t] # None => session[t].revoked

\* At first there is no row and no revocation.
LEMMA InitRevocation == Init => RevocationHolds
  BY DEF Init, RevocationHolds

\* Every step keeps it.
LEMMA NextRevocation == ASSUME TypeOK, RevocationHolds, [Next]_vars PROVE RevocationHolds'
  <1> USE NoneAssumption
  <1>1. CASE UNCHANGED <<session, creator, revoker, acked>>
    BY <1>1 DEF RevocationHolds
  <1>2. ASSUME NEW t \in Tokens, Session(t) PROVE RevocationHolds'
    <2>1. CASE CreateRead(t)
      BY <2>1 DEF CreateRead, RevocationHolds, TypeOK
    <2>2. CASE CreatePut(t)
      <3>1. creator[t].pc = "put" /\ t \notin acked
        BY <2>2 DEF CreatePut, RevocationHolds
      <3>2. creator'[t].pc = "done" /\ \A u \in Tokens : u # t => creator'[u] = creator[u]
        BY <2>2, <3>1 DEF CreatePut, TypeOK, NewCall
      <3> QED
        BY <2>2, <3>1, <3>2 DEF CreatePut, RevocationHolds, TypeOK
    <2>3. CASE Expire(t)
      BY <1>1, <2>3 DEF Expire, stored, calls
    <2>4. CASE RevokeRead(t)
      BY <2>4 DEF RevokeRead, RevocationHolds, TypeOK, stored
    <2>5. CASE RevokePut(t)
      <3>1. revoker[t] \in Sessions
        BY <2>5 DEF RevokePut, TypeOK
      <3>2. [revoker[t] EXCEPT !.revoked = TRUE].revoked
        BY <3>1 DEF Sessions
      <3> QED
        BY <2>5, <3>2 DEF RevokePut, RevocationHolds, TypeOK
    <2> QED
      BY <1>2, <2>1, <2>2, <2>3, <2>4, <2>5 DEF Session
  <1>3. ASSUME NEW s \in Sandboxes, Sandbox(s) PROVE RevocationHolds'
    <2>1. ASSUME NEW t \in Tokens, DeleteSession(s, t) PROVE RevocationHolds'
      BY <2>1 DEF DeleteSession, RevocationHolds, TypeOK
    <2> QED
      BY <1>1, <1>3, <2>1 DEF Sandbox, SetPhase, DeleteMark, DeleteList, DeleteDone, stored, calls
  <1>4. CASE Reap
    <2>1. ASSUME NEW t \in Tokens, ReapOne(t) PROVE RevocationHolds'
      BY <2>1 DEF ReapOne, RevocationHolds, TypeOK
    <2> QED
      BY <1>1, <1>4, <2>1 DEF Reap, ReapList, stored
  <1>5. CASE Restart
    <2>1. \A t \in Tokens : creator[t].pc = "done" => creator'[t].pc = "done"
      BY <1>5 DEF Restart, TypeOK
    <2> QED
      BY <1>5, <2>1 DEF Restart, RevocationHolds, stored
  <1>6. ASSUME NEW c \in Conns, Connect(c) \/ Tunnel(c) PROVE RevocationHolds'
    BY <1>1, <1>6
    DEF Connect, Tunnel, ConnectAuth, ConnectReady, ConnectRefused, AdmitToken, AdmitSandbox,
        TunnelOpens, TunnelEnds, ReleaseToken, ReleaseSandbox, outside, stored, calls
  <1> QED
    BY <1>1, <1>2, <1>3, <1>4, <1>5, <1>6 DEF Next, vars

\* A request is accepted by ConnectAuth only, whose token is then valid.
LEMMA AcceptedValid ==
    ASSUME TypeOK, RevocationHolds, [Next]_vars, NEW c \in Conns, Accepts(c)
    PROVE  conn'[c].token \notin acked \cup expired
  <1>1. conn[c].pc = "free" /\ conn'[c].pc # "free" /\ conn'[c] # conn[c]
    BY DEF Accepts
  <1>2. ConnectAuth(c)
    <2>1. ASSUME NEW d \in Conns, Connect(d) \/ Tunnel(d) PROVE ConnectAuth(c)
      <3>1. d = c
        <4>1. ASSUME NEW v, conn' = [conn EXCEPT ![d] = v] PROVE d = c
          BY <1>1, <4>1 DEF TypeOK
        <4> QED
          BY <2>1, <4>1
          DEF Connect, Tunnel, ConnectAuth, ConnectReady, ConnectRefused, AdmitToken, AdmitSandbox,
              TunnelOpens, TunnelEnds, ReleaseToken, ReleaseSandbox, ConnAs, Dropped
      <3> QED
        BY <1>1, <2>1, <3>1
        DEF Connect, Tunnel, ConnectReady, ConnectRefused, AdmitToken, AdmitSandbox,
            TunnelOpens, TunnelEnds, ReleaseToken, ReleaseSandbox
    <2>2. CASE Restart
      BY <1>1, <2>2 DEF Restart, Free
    <2> QED
      BY <1>1, <2>1, <2>2
      DEF Next, Reap, ReapList, ReapOne, Session, CreateRead, CreatePut, Expire, RevokeRead,
          RevokePut, Sandbox, SetPhase, DeleteMark, DeleteList, DeleteSession, DeleteDone, vars
  <1>3. PICK t \in Tokens, s \in Sandboxes :
           Valid(t, s) /\ conn' = [conn EXCEPT ![c] = [pc |-> "auth", token |-> t, sandbox |-> s]]
    BY <1>2 DEF ConnectAuth
  <1>4. conn'[c].token = t
    BY <1>3 DEF TypeOK
  <1> QED
    BY <1>3, <1>4 DEF Valid, RevocationHolds

-----------------------------------------------------------------------------
(* The theorems. *)

\* Every variable keeps its type.
THEOREM TypeCorrect == Spec => []TypeOK
  BY InitTypeOK, NextTypeOK, PTL DEF Spec

\* ssh_connections_by_token and ssh_connections_by_sandbox are exactly the
\* numbers of connections that hold a slot, after every step.
THEOREM CountsExact == Spec => []CountsMatch
  <1>1. TypeOK /\ CountsMatch /\ [Next]_vars => CountsMatch'
    BY NextCounts
  <1> QED
    BY <1>1, InitTypeOK, NextTypeOK, InitCounts, PTL DEF Spec

\* No more tunnels are open at a time than the two limits allow.
THEOREM LimitsHold == Spec => []TunnelLimits
  <1>1. TypeOK /\ CountsMatch /\ [Next]_vars => CountsMatch'
    BY NextCounts
  <1>2. TypeOK /\ Below /\ [Next]_vars => Below'
    BY NextBelow
  <1>3. TypeOK /\ CountsMatch /\ Below => TunnelLimits
    <2> SUFFICES ASSUME TypeOK, CountsMatch, Below PROVE TunnelLimits
      OBVIOUS
    <2>1. ASSUME NEW t \in Tokens
          PROVE  Cardinality({c \in Conns : Open(c) /\ conn[c].token = t}) <= MaxPerToken
      <3> DEFINE T == {c \in Conns : Open(c) /\ conn[c].token = t}
      <3>1. HoldsToken(t) \in SUBSET Conns /\ T \in SUBSET HoldsToken(t)
        BY DEF HoldsToken, Open
      <3>2. IsFiniteSet(HoldsToken(t))
        BY <3>1, LimitsAssumption, FS_Subset
      <3>3. Cardinality(T) <= Cardinality(HoldsToken(t))
        BY <3>1, <3>2, FS_Subset
      <3>4. IsFiniteSet(T)
        BY <3>1, <3>2, FS_Subset
      <3>5. Cardinality(T) \in Nat
        BY <3>4, FS_CardinalityType
      <3>6. byToken[t] = Cardinality(HoldsToken(t)) /\ byToken[t] <= MaxPerToken /\ byToken[t] \in Nat
        BY DEF CountsMatch, Below, TypeOK
      <3> HIDE DEF T
      <3>7. Cardinality(T) <= MaxPerToken
        BY <3>3, <3>5, <3>6, LimitsAssumption
      <3> QED
        BY <3>7 DEF T
    <2>2. ASSUME NEW s \in Sandboxes
          PROVE  Cardinality({c \in Conns : Open(c) /\ conn[c].sandbox = s}) <= MaxPerSandbox
      <3> DEFINE T == {c \in Conns : Open(c) /\ conn[c].sandbox = s}
      <3>1. HoldsSandbox(s) \in SUBSET Conns /\ T \in SUBSET HoldsSandbox(s)
        BY DEF HoldsSandbox, Open
      <3>2. IsFiniteSet(HoldsSandbox(s))
        BY <3>1, LimitsAssumption, FS_Subset
      <3>3. Cardinality(T) <= Cardinality(HoldsSandbox(s))
        BY <3>1, <3>2, FS_Subset
      <3>4. IsFiniteSet(T)
        BY <3>1, <3>2, FS_Subset
      <3>5. Cardinality(T) \in Nat
        BY <3>4, FS_CardinalityType
      <3>6. /\ bySandbox[s] = Cardinality(HoldsSandbox(s)) /\ bySandbox[s] <= MaxPerSandbox
            /\ bySandbox[s] \in Nat
        BY DEF CountsMatch, Below, TypeOK
      <3> HIDE DEF T
      <3>7. Cardinality(T) <= MaxPerSandbox
        BY <3>3, <3>5, <3>6, LimitsAssumption
      <3> QED
        BY <3>7 DEF T
    <2> QED
      BY <2>1, <2>2 DEF TunnelLimits
  <1> QED
    BY <1>1, <1>2, <1>3, InitTypeOK, NextTypeOK, InitCounts, PTL DEF Spec

\* A revocation that was answered and an expiry that has passed are final: no
\* concurrent create, stale revoke, reaper sweep or restart lets a later request
\* in with the token.
THEOREM StaleRefused == Spec => StaleTokenRefused
  <1>1. TypeOK /\ RevocationHolds /\ [Next]_vars => RevocationHolds'
    BY NextRevocation
  <1>2. TypeOK /\ RevocationHolds /\ [Next]_vars
            => [\A c \in Conns : Accepts(c) => conn'[c].token \notin acked \cup expired]_vars
    BY AcceptedValid
  <1> QED
    BY <1>1, <1>2, InitTypeOK, NextTypeOK, InitRevocation, PTL DEF Spec, StaleTokenRefused
=============================================================================
