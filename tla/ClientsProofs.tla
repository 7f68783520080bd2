---------------------------- MODULE ClientsProofs ----------------------------
(***************************************************************************)
(* What the programs on the user's machine promise, for any number of      *)
(* commands, names, ports and processes: a stored edge token is the one of *)
(* its own login, an ephemeral sandbox is gone when its create is, the     *)
(* registered port is the deployed gateway's, an announced image is the    *)
(* one that was built, the tunnel through an edge proxy carries what is    *)
(* sent to the gateway it is for, the log viewer yanks in its list, ssh    *)
(* reaches every sandbox an editor was connected to, a form that is being  *)
(* created gets its answer, and a policy file means the same wherever it   *)
(* is loaded.                                                              *)
(***************************************************************************)
EXTENDS EdgeLogin, CliSandbox, GatewayBootstrap, EdgeTunnel, ImageDelivery, TuiLogView,
        TuiApp, SshConfig, PolicyConfig, SelectingProofs

-----------------------------------------------------------------------------
(* EdgeLogin: commands that share a configuration directory, and pages     *)
(* that outlive them.                                                      *)

Logs == [name : EdgeNames, url : EdgeUrls]
LoginPcs == {"idle", "login", "gone", "select", "remove", "clear", "resolved", "migrate", "unlink"}
Cmds ==
    [pc : LoginPcs, name : EdgeNames \cup {NoGateway}, url : EdgeUrls \cup {NoGateway},
     port : EdgePorts \cup {0}, code : 0..MaxLogins, chan : {"none", "open", "sent", "closed"},
     tok : Tokens]

LogsOK(ls) == ls \in Seq(Logs) /\ Len(ls) <= MaxLogins

\* A login that waits is the one its code stands for; what its channel was sent
\* carries its code and comes from its gateway.  Only a login sends to it: a
\* migration carries a token from before the codes.
CmdTrue(r, ls) ==
    /\ r.pc = "login" => /\ r.code \in 1..Len(ls) /\ ls[r.code] = [name |-> r.name, url |-> r.url]
                         /\ r.chan = "sent" => r.tok = [url |-> r.url, code |-> r.code]
    /\ r.pc = "gone" => r.chan = "closed"
    /\ r.pc \notin {"idle", "gone"} => r.name \in EdgeNames
    /\ r.pc = "migrate" => r.tok.code = 0

TokenTrue(t, n, ls) ==
    t.code # 0 => t.code \in 1..Len(ls) /\ ls[t.code] = [name |-> n, url |-> t.url]

LoginInv ==
    /\ LogsOK(logins)
    /\ entries \in [EdgeNames -> EdgeUrls \cup {NoGateway}] /\ activeGateway \in EdgeNames \cup {NoGateway}
    /\ token \in [EdgeNames -> Tokens] /\ \A n \in EdgeNames : TokenTrue(token[n], n, logins)
    /\ legacy \in [EdgeNames -> Tokens] /\ \A n \in EdgeNames : legacy[n].code = 0
    /\ commands \in [EdgeClis -> Cmds] /\ \A c \in EdgeClis : CmdTrue(commands[c], logins)

LEMMA IdleLogin ==
    /\ NoToken \in Tokens /\ NoToken.code = 0 /\ IdleCommand \in Cmds /\ IdleCommand.pc = "idle"
    /\ IdleCommand.tok = NoToken
  <1>1. 0 \in 0..MaxLogins
    BY LoginAssumption
  <1>2. NoToken \in Tokens /\ NoToken.code = 0
    BY <1>1 DEF NoToken, Tokens
  <1>3. IdleCommand \in Cmds /\ IdleCommand.pc = "idle" /\ IdleCommand.tok = NoToken
    BY <1>1, <1>2 DEF IdleCommand, Cmds, LoginPcs
  <1> QED BY <1>2, <1>3

LEMMA IdleTrue ==
    ASSUME NEW ls
    PROVE  CmdTrue(IdleCommand, ls)
  BY IdleLogin DEF CmdTrue

\* One command goes on, the files may change with it; logins stay.
LEMMA CommandStep ==
    ASSUME LoginInv, NEW c \in EdgeClis, NEW r \in Cmds, CmdTrue(r, logins),
           commands' = [commands EXCEPT ![c] = r], logins' = logins,
           NEW es \in [EdgeNames -> EdgeUrls \cup {NoGateway}], entries' = es,
           NEW ag \in EdgeNames \cup {NoGateway}, activeGateway' = ag,
           NEW tk \in [EdgeNames -> Tokens], token' = tk,
           \A n \in EdgeNames : TokenTrue(tk[n], n, logins),
           NEW lg \in [EdgeNames -> Tokens], legacy' = lg, \A n \in EdgeNames : lg[n].code = 0
    PROVE  LoginInv'
  <1>1. \A d \in EdgeClis : commands'[d] = IF d = c THEN r ELSE commands[d]
    BY DEF LoginInv
  <1>2. \A d \in EdgeClis : CmdTrue(commands'[d], logins')
    BY <1>1 DEF LoginInv
  <1>3. commands' \in [EdgeClis -> Cmds]
    BY DEF LoginInv
  <1>4. \A n \in EdgeNames : TokenTrue(token'[n], n, logins')
    OBVIOUS
  <1> QED BY <1>2, <1>3, <1>4 DEF LoginInv

LEMMA EndStep ==
    ASSUME LoginInv, NEW c \in EdgeClis, Ended(c), logins' = logins,
           NEW es \in [EdgeNames -> EdgeUrls \cup {NoGateway}], entries' = es,
           NEW ag \in EdgeNames \cup {NoGateway}, activeGateway' = ag,
           NEW tk \in [EdgeNames -> Tokens], token' = tk,
           \A n \in EdgeNames : TokenTrue(tk[n], n, logins),
           NEW lg \in [EdgeNames -> Tokens], legacy' = lg, \A n \in EdgeNames : lg[n].code = 0
    PROVE  LoginInv'
  BY IdleLogin, IdleTrue, CommandStep DEF Ended

\* A login that starts gets a code of its own; the codes there are keep their
\* meaning.
LEMMA FlowStep ==
    ASSUME LoginInv, NEW c \in EdgeClis, NEW n \in EdgeNames, NEW u \in EdgeUrls,
           BrowserAuthFlow(c, n, u), UNCHANGED <<token, legacy>>,
           entries' \in [EdgeNames -> EdgeUrls \cup {NoGateway}],
           activeGateway' \in EdgeNames \cup {NoGateway}
    PROVE  LoginInv'
  <1>1. logins \in Seq(Logs) /\ Len(logins) \in Nat /\ Len(logins) < MaxLogins
    BY DEF LoginInv, LogsOK, BrowserAuthFlow
  <1> DEFINE l == [name |-> n, url |-> u]
             k == Len(logins) + 1
  <1>2. l \in Logs
    BY DEF Logs
  <1> HIDE DEF l
  <1>3. /\ logins' = Append(logins, l) /\ logins' \in Seq(Logs) /\ Len(logins') = k
        /\ logins'[k] = l /\ \A i \in 1..Len(logins) : logins'[i] = logins[i]
    BY <1>1, <1>2 DEF BrowserAuthFlow, l
  <1>4. LogsOK(logins')
    BY <1>1, <1>3, LoginAssumption DEF LogsOK
  <1>5. \A i \in 1..Len(logins) : i \in 1..Len(logins')
    BY <1>1, <1>3
  <1>6. \A m \in EdgeNames : TokenTrue(token'[m], m, logins')
    BY <1>3, <1>5 DEF LoginInv, TokenTrue
  <1>7. \A d \in EdgeClis : CmdTrue(commands[d], logins')
    BY <1>3, <1>5 DEF LoginInv, CmdTrue
  <1>8. PICK port \in EdgePorts :
           commands' = [commands EXCEPT ![c] = [IdleCommand EXCEPT !.pc = "login", !.name = n, !.url = u,
                                                    !.port = port, !.code = k, !.chan = "open"]]
    BY DEF BrowserAuthFlow
  <1> DEFINE r == [IdleCommand EXCEPT !.pc = "login", !.name = n, !.url = u, !.port = port,
                                      !.code = k, !.chan = "open"]
  <1>9. k \in 0..MaxLogins /\ k \in 1..Len(logins')
    BY <1>1, <1>3, LoginAssumption
  <1> HIDE DEF k
  <1>10. r \in Cmds /\ r.pc = "login" /\ r.name = n /\ r.url = u /\ r.code = k /\ r.chan = "open"
    BY <1>9, IdleLogin DEF Cmds, LoginPcs
  <1> HIDE DEF r
  <1>11. CmdTrue(r, logins')
    BY <1>3, <1>9, <1>10 DEF CmdTrue, l
  <1>12. commands' = [commands EXCEPT ![c] = r]
    BY <1>8 DEF r
  <1>13. commands' \in [EdgeClis -> Cmds] /\ \A d \in EdgeClis : CmdTrue(commands'[d], logins')
    BY <1>7, <1>10, <1>11, <1>12 DEF LoginInv
  <1> QED BY <1>4, <1>6, <1>13 DEF LoginInv

LEMMA LoginStep ==
    ASSUME LoginInv, LoginNext
    PROVE  LoginInv'
  <1>1. /\ entries \in [EdgeNames -> EdgeUrls \cup {NoGateway}] /\ activeGateway \in EdgeNames \cup {NoGateway}
        /\ token \in [EdgeNames -> Tokens] /\ legacy \in [EdgeNames -> Tokens]
        /\ commands \in [EdgeClis -> Cmds]
        /\ \A n \in EdgeNames : TokenTrue(token[n], n, logins) /\ legacy[n].code = 0
    BY DEF LoginInv
  <1>2. NoToken \in Tokens /\ NoToken.code = 0 /\ IdleCommand \in Cmds /\ IdleCommand.tok = NoToken
    BY IdleLogin
  <1>3. \A n \in EdgeNames : TokenTrue(NoToken, n, logins)
    BY <1>2 DEF TokenTrue
  <1>4. ASSUME NEW c \in EdgeClis, NEW n \in EdgeNames, GatewayLogin(c, n)
        PROVE  LoginInv'
    <2>1. entries[n] \in EdgeUrls
      BY <1>1, <1>4 DEF GatewayLogin
    <2> QED BY <1>1, <1>4, <2>1, FlowStep DEF GatewayLogin, files
  <1>5. ASSUME NEW c \in EdgeClis, NEW n \in EdgeNames, NEW u \in EdgeUrls, GatewayAddCloud(c, n, u)
        PROVE  LoginInv'
    <2>1. entries' \in [EdgeNames -> EdgeUrls \cup {NoGateway}] /\ activeGateway' \in EdgeNames
      BY <1>1, <1>5 DEF GatewayAddCloud
    <2> QED BY <1>5, <2>1, FlowStep DEF GatewayAddCloud
  <1>6. ASSUME NEW c \in EdgeClis, NEW n \in EdgeNames, GatewaySelect(c, n)
        PROVE  LoginInv'
    <2> DEFINE r == [IdleCommand EXCEPT !.pc = "select", !.name = n]
    <2>1. r \in Cmds /\ r.pc = "select" /\ r.name = n
      BY <1>2 DEF Cmds, LoginPcs
    <2>2. commands' = [commands EXCEPT ![c] = r] /\ logins' = logins /\ UNCHANGED files
      BY <1>6 DEF GatewaySelect
    <2> HIDE DEF r
    <2>3. CmdTrue(r, logins)
      BY <2>1 DEF CmdTrue
    <2> QED BY <1>1, <2>1, <2>2, <2>3, CommandStep DEF files
  <1>7. ASSUME NEW c \in EdgeClis, NEW n \in EdgeNames, RemoveRegistration(c, n)
        PROVE  LoginInv'
    <2> DEFINE r == [IdleCommand EXCEPT !.pc = "remove", !.name = n]
               tk == [token EXCEPT ![n] = NoToken]
               lg == [legacy EXCEPT ![n] = NoToken]
    <2>1. r \in Cmds /\ r.pc = "remove" /\ r.name = n
      BY <1>2 DEF Cmds, LoginPcs
    <2>2. /\ tk \in [EdgeNames -> Tokens] /\ \A m \in EdgeNames : TokenTrue(tk[m], m, logins)
          /\ lg \in [EdgeNames -> Tokens] /\ \A m \in EdgeNames : lg[m].code = 0
      BY <1>1, <1>2, <1>3
    <2>3. /\ commands' = [commands EXCEPT ![c] = r] /\ token' = tk /\ legacy' = lg
          /\ UNCHANGED <<entries, activeGateway, logins>>
      BY <1>7 DEF RemoveRegistration
    <2> HIDE DEF r, tk, lg
    <2>4. CmdTrue(r, logins)
      BY <2>1 DEF CmdTrue
    <2> QED BY <1>1, <2>1, <2>2, <2>3, <2>4, CommandStep
  <1>8. ASSUME NEW c \in EdgeClis,
               SaveActive(c) \/ ClearActive(c) \/ CliEnds(c) \/ RemoveLegacy(c) \/ StoreEdgeToken(c)
        PROVE  LoginInv'
    <2>1. CmdTrue(commands[c], logins) /\ commands[c] \in Cmds
      BY DEF LoginInv
    <2>2. CASE SaveActive(c)
      <3>1. commands[c].name \in EdgeNames
        BY <2>1, <2>2 DEF SaveActive, CmdTrue
      <3> QED BY <1>1, <2>2, <3>1, EndStep DEF SaveActive
    <2>3. CASE ClearActive(c)
      <3>1. activeGateway' \in EdgeNames \cup {NoGateway}
        BY <1>1, <2>3 DEF ClearActive
      <3> QED BY <1>1, <2>3, <3>1, EndStep DEF ClearActive
    <2>4. CASE CliEnds(c)
      BY <1>1, <2>4, EndStep DEF CliEnds, files
    <2>5. CASE RemoveLegacy(c)
      <3> DEFINE lg == [legacy EXCEPT ![commands[c].name] = NoToken]
      <3>1. lg \in [EdgeNames -> Tokens] /\ \A m \in EdgeNames : lg[m].code = 0
        BY <1>1, <1>2
      <3> HIDE DEF lg
      <3>2. legacy' = lg /\ Ended(c) /\ UNCHANGED <<entries, token, activeGateway, logins>>
        BY <2>5 DEF RemoveLegacy, lg
      <3> QED BY <1>1, <3>1, <3>2, EndStep
    <2>6. CASE StoreEdgeToken(c)
      <3> DEFINE n == commands[c].name
                 t == commands[c].tok
                 tk == [token EXCEPT ![n] = t]
      <3>1. commands[c].pc = "login" /\ commands[c].chan = "sent"
        BY <2>6 DEF StoreEdgeToken
      <3>2. /\ t = [url |-> commands[c].url, code |-> commands[c].code]
            /\ commands[c].code \in 1..Len(logins) /\ n \in EdgeNames
            /\ logins[commands[c].code] = [name |-> n, url |-> commands[c].url]
        BY <2>1, <3>1 DEF CmdTrue
      <3>3. TokenTrue(t, n, logins) /\ t \in Tokens
        BY <2>1, <3>2 DEF TokenTrue, Cmds
      <3> HIDE DEF n, t
      <3>4. tk \in [EdgeNames -> Tokens] /\ \A m \in EdgeNames : TokenTrue(tk[m], m, logins)
        BY <1>1, <3>3
      <3>5. token' = tk /\ Ended(c) /\ UNCHANGED <<entries, legacy, activeGateway, logins>>
        BY <2>6 DEF StoreEdgeToken, n, t
      <3> HIDE DEF tk
      <3> QED BY <1>1, <3>4, <3>5, EndStep
    <2> QED BY <1>8, <2>2, <2>3, <2>4, <2>5, <2>6
  <1>9. ASSUME NEW c \in EdgeClis, RemoveMetadata(c)
        PROVE  LoginInv'
    <2>1. CmdTrue(commands[c], logins) /\ commands[c] \in Cmds
      BY DEF LoginInv
    <2> DEFINE r == [commands[c] EXCEPT !.pc = "clear"]
               es == [entries EXCEPT ![commands[c].name] = NoGateway]
    <2>2. /\ commands' = [commands EXCEPT ![c] = r] /\ entries' = es
          /\ UNCHANGED <<token, legacy, activeGateway, logins>>
      BY <1>9 DEF RemoveMetadata
    <2>3. es \in [EdgeNames -> EdgeUrls \cup {NoGateway}]
      BY <1>1
    <2>4. r \in Cmds /\ r.pc = "clear" /\ r.name = commands[c].name
      BY <2>1 DEF Cmds, LoginPcs
    <2> HIDE DEF r, es
    <2>5. CmdTrue(r, logins)
      BY <1>9, <2>1, <2>4 DEF CmdTrue, RemoveMetadata
    <2> QED BY <1>1, <2>2, <2>3, <2>4, <2>5, CommandStep
  <1>10. ASSUME NEW c \in EdgeClis, StrayRequest(c)
         PROVE  LoginInv'
    <2>1. CmdTrue(commands[c], logins) /\ commands[c] \in Cmds
      BY DEF LoginInv
    <2> DEFINE r == [commands[c] EXCEPT !.chan = "closed"]
    <2>2. commands' = [commands EXCEPT ![c] = r] /\ logins' = logins /\ UNCHANGED files
      BY <1>10 DEF StrayRequest
    <2>3. /\ r \in Cmds /\ r.pc = commands[c].pc /\ r.name = commands[c].name /\ r.code = commands[c].code
          /\ r.url = commands[c].url /\ r.chan = "closed" /\ r.tok = commands[c].tok
      BY <2>1 DEF Cmds, LoginPcs
    <2> HIDE DEF r
    <2>4. CmdTrue(r, logins)
      BY <2>1, <2>3 DEF CmdTrue
    <2> QED BY <1>1, <2>2, <2>3, <2>4, CommandStep DEF files
  <1>11. ASSUME NEW c \in EdgeClis, LoginFails(c)
         PROVE  LoginInv'
    <2>1. commands[c].port \in EdgePorts \cup {0}
      BY <1>1 DEF Cmds
    <2> DEFINE r == [IdleCommand EXCEPT !.pc = "gone", !.port = commands[c].port, !.chan = "closed"]
    <2>2. commands' = [commands EXCEPT ![c] = r] /\ logins' = logins /\ UNCHANGED files
      BY <1>11 DEF LoginFails
    <2>3. r \in Cmds /\ r.pc = "gone" /\ r.chan = "closed"
      BY <1>2, <2>1 DEF Cmds, LoginPcs
    <2> HIDE DEF r
    <2>4. CmdTrue(r, logins)
      BY <2>3 DEF CmdTrue
    <2> QED BY <1>1, <2>2, <2>3, <2>4, CommandStep DEF files
  <1>12. ASSUME NEW c \in EdgeClis, ResolveGateway(c)
         PROVE  LoginInv'
    <2>1. activeGateway \in EdgeNames
      BY <1>1, <1>12 DEF ResolveGateway
    <2> DEFINE r == [IdleCommand EXCEPT !.pc = "resolved", !.name = activeGateway]
    <2>2. commands' = [commands EXCEPT ![c] = r] /\ logins' = logins /\ UNCHANGED files
      BY <1>12 DEF ResolveGateway
    <2>3. r \in Cmds /\ r.pc = "resolved" /\ r.name = activeGateway
      BY <1>2, <2>1 DEF Cmds, LoginPcs
    <2> HIDE DEF r
    <2>4. CmdTrue(r, logins)
      BY <2>1, <2>3 DEF CmdTrue
    <2> QED BY <1>1, <2>2, <2>3, <2>4, CommandStep DEF files
  <1>13. ASSUME NEW c \in EdgeClis, ApplyEdgeAuth(c)
         PROVE  LoginInv'
    <2>1. CmdTrue(commands[c], logins) /\ commands[c] \in Cmds /\ commands[c].pc = "resolved"
      BY <1>13 DEF LoginInv, ApplyEdgeAuth
    <2>2. logins' = logins /\ UNCHANGED files
      BY <1>13 DEF ApplyEdgeAuth
    <2>3. CASE Ended(c)
      BY <1>1, <2>2, <2>3, EndStep DEF files
    <2>4. CASE ~Ended(c)
      <3> DEFINE n == commands[c].name
                 r == [commands[c] EXCEPT !.pc = "migrate", !.tok = legacy[n]]
      <3>1. commands' = [commands EXCEPT ![c] = r]
        BY <1>1, <1>13, <2>4 DEF ApplyEdgeAuth
      <3>2. n \in EdgeNames
        BY <2>1 DEF CmdTrue
      <3>3. legacy[n] \in Tokens /\ legacy[n].code = 0
        BY <1>1, <3>2
      <3>4. r \in Cmds /\ r.pc = "migrate" /\ r.name = n /\ r.tok = legacy[n]
        BY <2>1, <3>3 DEF Cmds, LoginPcs
      <3> HIDE DEF r, n
      <3>5. CmdTrue(r, logins)
        BY <3>2, <3>3, <3>4 DEF CmdTrue
      <3> QED BY <1>1, <2>2, <3>1, <3>4, <3>5, CommandStep DEF files
    <2> QED BY <2>3, <2>4
  <1>14. ASSUME NEW c \in EdgeClis, MigrateToken(c)
         PROVE  LoginInv'
    <2>1. CmdTrue(commands[c], logins) /\ commands[c] \in Cmds /\ commands[c].pc = "migrate"
      BY <1>14 DEF LoginInv, MigrateToken
    <2> DEFINE n == commands[c].name
               t == commands[c].tok
               tk == [token EXCEPT ![n] = t]
               r == [commands[c] EXCEPT !.pc = "unlink", !.tok = NoToken]
    <2>2. n \in EdgeNames /\ t \in Tokens /\ TokenTrue(t, n, logins)
      BY <2>1 DEF CmdTrue, Cmds, TokenTrue
    <2>3. /\ commands' = [commands EXCEPT ![c] = r] /\ token' = tk
          /\ UNCHANGED <<entries, legacy, activeGateway, logins>>
      BY <1>1, <1>14 DEF MigrateToken
    <2>4. r \in Cmds /\ r.pc = "unlink" /\ r.name = n
      BY <1>2, <2>1 DEF Cmds, LoginPcs
    <2> HIDE DEF n, t, r
    <2>5. CmdTrue(r, logins)
      BY <2>2, <2>4 DEF CmdTrue
    <2>6. tk \in [EdgeNames -> Tokens] /\ \A m \in EdgeNames : TokenTrue(tk[m], m, logins)
      BY <1>1, <2>2
    <2> HIDE DEF tk
    <2> QED BY <1>1, <2>3, <2>4, <2>5, <2>6, CommandStep
  <1>15. ASSUME NEW p \in page, Connect(p)
         PROVE  LoginInv'
    <2> DEFINE Chan(c) == IF commands[c].chan # "open" THEN commands[c].chan
                          ELSE IF Accepts(c, p) THEN "sent" ELSE "closed"
               Tok(c) == IF commands[c].chan = "open" /\ Accepts(c, p)
                         THEN [url |-> p.url, code |-> p.code] ELSE commands[c].tok
               R(c) == [commands[c] EXCEPT !.chan = Chan(c), !.tok = Tok(c)]
    <2>1. PICK c \in EdgeClis : ServesCallback(c) /\ commands' = [commands EXCEPT ![c] = R(c)]
      BY <1>1, <1>15 DEF Connect
    <2>2. logins' = logins /\ UNCHANGED files
      BY <1>15 DEF Connect
    <2>3. CmdTrue(commands[c], logins) /\ commands[c] \in Cmds
      BY DEF LoginInv
    <2>4. Chan(c) \in {"none", "open", "sent", "closed"} /\ Tok(c) \in Tokens
      BY <2>3 DEF Cmds, Tokens, Accepts
    <2>5. commands[c].pc = "gone" => Chan(c) = "closed"
      BY <2>3 DEF CmdTrue
    <2>6. /\ commands[c].pc \in {"login", "gone"}
          /\ commands[c].pc = "login" /\ Chan(c) = "sent"
                => Tok(c) = [url |-> commands[c].url, code |-> commands[c].code]
      BY <2>1, <2>3 DEF CmdTrue, Accepts, ServesCallback
    <2> DEFINE r == R(c)
               ch == Chan(c)
               tk == Tok(c)
    <2>7. r = [commands[c] EXCEPT !.chan = ch, !.tok = tk]
      OBVIOUS
    <2> HIDE DEF Chan, Tok, R, r, ch, tk
    <2>8. /\ r \in Cmds /\ r.pc = commands[c].pc /\ r.name = commands[c].name /\ r.code = commands[c].code
          /\ r.url = commands[c].url /\ r.chan = ch /\ r.tok = tk
      BY <2>3, <2>4, <2>7 DEF Cmds, ch, tk
    <2>9. CmdTrue(r, logins)
      BY <2>3, <2>5, <2>6, <2>8 DEF CmdTrue, ch, tk
    <2>10. commands' = [commands EXCEPT ![c] = r]
      BY <2>1 DEF r
    <2> QED BY <1>1, <2>2, <2>8, <2>9, <2>10, CommandStep DEF files
  <1>16. ASSUME UNCHANGED <<files, commands, logins>>
         PROVE  LoginInv'
    BY <1>16 DEF LoginInv, files
  <1>17. \A c \in EdgeClis : AuthConnect(c) => LoginInv'
    BY <1>16 DEF AuthConnect
  <1>18. \A p \in page : ClosePage(p) => LoginInv'
    BY <1>16 DEF ClosePage
  <1> QED BY <1>4, <1>5, <1>6, <1>7, <1>8, <1>9, <1>10, <1>11, <1>12, <1>13, <1>14, <1>15, <1>17, <1>18
          DEF LoginNext

\* Whatever logins, selections and removals run at once, whichever port a login
\* is given and whatever pages of earlier logins are still open, a token stored
\* under a name was sent by the page with the code of a login to that name, for
\* the gateway that login was for (handle_callback_request, store_edge_token).
THEOREM TokenBelongsToLogin == LoginSpec => []LoginSound
  <1>1. LoginInit => LoginInv
    <2> SUFFICES ASSUME LoginInit PROVE LoginInv
      OBVIOUS
    <2>1. PICK old \in BOOLEAN :
             /\ entries = [m \in EdgeNames |-> IF old /\ m = FirstName THEN FirstUrl ELSE NoGateway]
             /\ legacy = [m \in EdgeNames |-> IF old /\ m = FirstName THEN [url |-> FirstUrl, code |-> 0]
                                              ELSE NoToken]
             /\ activeGateway = IF old THEN FirstName ELSE NoGateway
      BY DEF LoginInit
    <2>2. FirstName \in EdgeNames /\ FirstUrl \in EdgeUrls
      BY LoginAssumption DEF FirstName, FirstUrl
    <2>3. NoToken \in Tokens /\ NoToken.code = 0 /\ IdleCommand \in Cmds
      BY IdleLogin
    <2>4. [url |-> FirstUrl, code |-> 0] \in Tokens
      BY <2>2, LoginAssumption DEF Tokens
    <2>5. legacy \in [EdgeNames -> Tokens] /\ \A n \in EdgeNames : legacy[n].code = 0
      BY <2>1, <2>3, <2>4
    <2>6. /\ token \in [EdgeNames -> Tokens] /\ \A n \in EdgeNames : TokenTrue(token[n], n, logins)
          /\ commands \in [EdgeClis -> Cmds] /\ \A c \in EdgeClis : CmdTrue(commands[c], logins)
      BY <2>3, IdleTrue DEF LoginInit, TokenTrue
    <2>7. LogsOK(logins)
      BY LoginAssumption DEF LoginInit, LogsOK
    <2>8. /\ entries \in [EdgeNames -> EdgeUrls \cup {NoGateway}]
          /\ activeGateway \in EdgeNames \cup {NoGateway}
      BY <2>1, <2>2
    <2> QED BY <2>5, <2>6, <2>7, <2>8 DEF LoginInv
  <1>2. LoginInv /\ [LoginNext]_loginVars => LoginInv'
    <2> SUFFICES ASSUME LoginInv, [LoginNext]_loginVars PROVE LoginInv'
      OBVIOUS
    <2>1. CASE UNCHANGED loginVars
      BY <2>1 DEF loginVars, LoginInv
    <2> QED BY <2>1, LoginStep
  <1>3. LoginInv => LoginSound
    BY DEF LoginInv, LoginSound, LoginTypeOK, TokenOfItsLogin, TokenTrue, LogsOK, Cmds
  <1> QED BY <1>1, <1>2, <1>3, PTL DEF LoginSpec

-----------------------------------------------------------------------------
(* CliSandbox: commands of several terminals over the gateway's sandboxes  *)
(* and the machine's processes.                                            *)

\* Induction over numbers, as the existence of a least and a greatest element.
LEMMA LeastNumber ==
    ASSUME NEW T, T \subseteq Nat, T # {}
    PROVE  \E x \in T : \A y \in T : x <= y
  <1> DEFINE R == {ss \in Nat \X Nat : ss[1] < ss[2]}
  <1>1. IsWellFoundedOn(R, Nat)
    BY NatLessThanWellFounded DEF OpToRel
  <1>2. \A x, y \in Nat : x < y => <<x, y>> \in R
    OBVIOUS
  <1> HIDE DEF R
  <1>3. PICK x \in T : \A y \in T : ~(<<y, x>> \in R)
    BY <1>1, WFMin
  <1>4. \A y \in T : ~(y < x) /\ y \in Nat /\ x \in Nat
    BY <1>2, <1>3
  <1>5. \A y \in T : x <= y
    BY <1>4
  <1> QED BY <1>5

LEMMA GreatestNumber ==
    ASSUME NEW T, NEW n \in Nat, T \subseteq 0..n, T # {}
    PROVE  \E x \in T : \A y \in T : y <= x
  <1> DEFINE U == {n - x : x \in T}
  <1>1. \A x \in T : x \in Nat /\ n - x \in Nat
    OBVIOUS
  <1>2. U \subseteq Nat /\ U # {}
    BY <1>1
  <1>3. PICK u \in U : \A y \in U : u <= y
    BY <1>2, LeastNumber
  <1>4. PICK x \in T : u = n - x
    OBVIOUS
  <1>5. \A y \in T : n - x <= n - y
    BY <1>3, <1>4
  <1> QED BY <1>1, <1>5

BoxPhases == {"None", "Provisioning", "Ready", "Error"}
BoxRecs == [id : 0..MaxBoxId, phase : BoxPhases]
ProcRecs == [kind : {"dead", "ssh", "other"}, id : 0..MaxBoxId, port : CliPorts \cup {0}]
FileRecs == [pid : CliPids \cup {0}, id : 0..MaxBoxId]
CliRecs ==
    [op : {"none", "create", "forward", "stop", "delete"}, pc : CliPcs, name : CliNames,
     port : CliPorts \cup {0}, keep : BOOLEAN, made : 0..MaxBoxId, id : 0..MaxBoxId,
     sawNonReady : BOOLEAN, last : BoxPhases, tries : Nat, ran : BOOLEAN,
     todo : SUBSET CliPorts, target : CliPorts \cup {0}]

\* A create before its request, between the request and the session, and from
\* the session on.
Before == {"check", "prepare", "request"}
Making == {"watch", "upload", "run", "fwdcheck", "fwdsession", "fwdssh", "fwdrecord"}
Ending == {"connect", "session", "finalize", "stopall", "kill", "remove", "delete"}

\* The sandbox a create has made has its name, and no other name's sandbox has
\* its id; once the create is done with it, none has.
CliTrue(r, b, ids) ==
    /\ r.made <= ids
    /\ r.op = "create" =>
         /\ r.pc \in Making \cup Ending \cup {"done"} => r.made # 0
         /\ r.pc \in Before \cup Making => ~r.ran
         /\ r.pc \in Making \cup Ending => \A n \in CliNames : b[n].id = r.made => n = r.name
         /\ r.pc = "done" /\ r.ran => \A n \in CliNames : b[n].id # r.made

BoxesOK(b, ids) ==
    b \in [CliNames -> BoxRecs] /\ ids \in 0..MaxBoxId /\ \A n \in CliNames : b[n].id <= ids

MachineOK(ps, fs, last) ==
    /\ ps \in [CliPids -> ProcRecs] /\ fs \in [CliNames \X CliPorts -> FileRecs]
    /\ last \in CliNames \cup {NoName}

CliInv ==
    /\ BoxesOK(box, boxIds) /\ MachineOK(proc, pidFile, lastBox)
    /\ cli \in [Clis -> CliRecs] /\ \A c \in Clis : CliTrue(cli[c], box, boxIds)

LEMMA EmptyRecords ==
    /\ NoBox \in BoxRecs /\ NoBox.id = 0 /\ NoFile \in FileRecs /\ Dead \in ProcRecs
    /\ IdleCli \in CliRecs /\ IdleCli.op = "none" /\ IdleCli.made = 0
  <1>1. 0 \in 0..MaxBoxId /\ 0 \in Nat /\ (CHOOSE n \in CliNames : TRUE) \in CliNames
    BY CliAssumption
  <1>2. NoBox \in BoxRecs /\ NoBox.id = 0
    BY <1>1 DEF NoBox, BoxRecs, BoxPhases
  <1>3. NoFile \in FileRecs
    BY <1>1 DEF NoFile, FileRecs
  <1>4. Dead \in ProcRecs
    BY <1>1 DEF Dead, ProcRecs
  <1>5. IdleCli \in CliRecs /\ IdleCli.op = "none" /\ IdleCli.made = 0
    BY <1>1 DEF IdleCli, CliRecs, CliPcs, BoxPhases
  <1> QED BY <1>2, <1>3, <1>4, <1>5

LEMMA IdleCliTrue ==
    ASSUME NEW b, NEW ids \in Nat
    PROVE  CliTrue(IdleCli, b, ids)
  BY EmptyRecords DEF CliTrue

LEMMA BoxBounds ==
    ASSUME CliInv
    PROVE  /\ boxIds \in Nat /\ MaxBoxId \in Nat
           /\ \A n \in CliNames : box[n] \in BoxRecs /\ box[n].id \in Nat /\ box[n].id <= boxIds
           /\ \A c \in Clis : cli[c] \in CliRecs /\ cli[c].made \in Nat
  <1>1. MaxBoxId \in Nat /\ boxIds \in 0..MaxBoxId
    BY CliAssumption DEF CliInv, BoxesOK
  <1>2. \A n \in CliNames : box[n] \in BoxRecs /\ box[n].id <= boxIds
    BY DEF CliInv, BoxesOK
  <1>3. \A n \in CliNames : box[n].id \in 0..MaxBoxId
    BY <1>2 DEF BoxRecs
  <1>4. \A c \in Clis : cli[c] \in CliRecs /\ cli[c].made \in 0..MaxBoxId
    BY DEF CliInv, CliRecs
  <1> QED BY <1>1, <1>2, <1>3, <1>4

\* One command goes on; an id that is in use afterwards was in use for that name
\* before, or is new.
LEMMA CliUpdate ==
    ASSUME CliInv, NEW c \in Clis, NEW r \in CliRecs, cli' = [cli EXCEPT ![c] = r],
           NEW b, box' = b, NEW ids, boxIds' = ids, BoxesOK(b, ids), boxIds <= ids,
           \A n \in CliNames : b[n].id \in {0, box[n].id} \/ b[n].id > boxIds,
           CliTrue(r, b, ids), MachineOK(proc', pidFile', lastBox')
    PROVE  CliInv'
  <1>1. /\ boxIds \in Nat /\ ids \in Nat
        /\ \A d \in Clis : cli[d].made \in Nat /\ CliTrue(cli[d], box, boxIds)
    BY BoxBounds, CliAssumption DEF CliInv, BoxesOK
  <1>2. \A d \in Clis : cli'[d] = IF d = c THEN r ELSE cli[d]
    BY DEF CliInv
  <1>3. ASSUME NEW d \in Clis, d # c
        PROVE  CliTrue(cli[d], b, ids)
    <2>1. cli[d].made <= boxIds /\ cli[d].made <= ids
      BY <1>1 DEF CliTrue
    <2>2. \A n \in CliNames : cli[d].made # 0 /\ b[n].id = cli[d].made => b[n].id = box[n].id
      BY <1>1, <2>1
    <2> QED BY <1>1, <2>1, <2>2 DEF CliTrue
  <1>4. \A d \in Clis : CliTrue(cli'[d], b, ids)
    BY <1>2, <1>3
  <1>5. cli' \in [Clis -> CliRecs]
    BY DEF CliInv
  <1> QED BY <1>4, <1>5 DEF CliInv

\* A step that leaves the gateway's sandboxes alone.
LEMMA CliMoves ==
    ASSUME CliInv, NEW c \in Clis, NEW q \in CliRecs, cli' = [cli EXCEPT ![c] = q],
           UNCHANGED <<box, boxIds>>, MachineOK(proc', pidFile', lastBox'),
           q.op = cli[c].op, q.made = cli[c].made, q.name = cli[c].name,
           q.op = "create" =>
              \/ cli[c].pc \in Before /\ q.pc \in Before /\ q.ran = cli[c].ran
              \/ cli[c].pc \in Making /\ q.pc \in Making /\ q.ran = cli[c].ran
              \/ cli[c].pc \in Making \cup Ending /\ q.pc \in Ending
    PROVE  CliInv'
  <1>1. CliTrue(cli[c], box, boxIds) /\ BoxesOK(box, boxIds) /\ boxIds \in Nat
    BY BoxBounds DEF CliInv
  <1>2. CliTrue(q, box, boxIds)
    BY <1>1 DEF CliTrue, Before, Making, Ending
  <1>3. boxIds <= boxIds /\ \A n \in CliNames : box[n].id \in {0, box[n].id}
    BY <1>1
  <1> QED BY <1>1, <1>2, <1>3, CliUpdate

LEMMA GoStep ==
    ASSUME CliInv, NEW c \in Clis, NEW pc \in CliPcs, Go(c, pc),
           UNCHANGED <<box, boxIds>>, MachineOK(proc', pidFile', lastBox'),
           cli[c].op = "create" =>
              \/ cli[c].pc \in Before /\ pc \in Before
              \/ cli[c].pc \in Making /\ pc \in Making
              \/ cli[c].pc \in Making \cup Ending /\ pc \in Ending
    PROVE  CliInv'
  <1> DEFINE q == [cli[c] EXCEPT !.pc = pc]
  <1>1. cli' = [cli EXCEPT ![c] = q] /\ cli[c] \in CliRecs
    BY BoxBounds DEF Go
  <1>2. /\ q \in CliRecs /\ q.op = cli[c].op /\ q.made = cli[c].made /\ q.name = cli[c].name
        /\ q.ran = cli[c].ran /\ q.pc = pc
    BY <1>1 DEF CliRecs
  <1> HIDE DEF q
  <1> QED BY <1>1, <1>2, CliMoves

LEMMA FailStep ==
    ASSUME CliInv, NEW c \in Clis, Fail(c), UNCHANGED <<box, boxIds>>,
           MachineOK(proc', pidFile', lastBox')
    PROVE  CliInv'
  <1>1. CliTrue(IdleCli, box, boxIds) /\ IdleCli \in CliRecs /\ boxIds \in Nat
    BY BoxBounds, IdleCliTrue, EmptyRecords
  <1>2. BoxesOK(box, boxIds) /\ cli' = [cli EXCEPT ![c] = IdleCli]
    BY DEF CliInv, Fail
  <1>3. boxIds <= boxIds /\ \A n \in CliNames : box[n].id \in {0, box[n].id}
    BY <1>1
  <1> QED BY <1>1, <1>2, <1>3, CliUpdate

\* Done ends a command that is no create, or one whose sandbox is kept, like
\* Fail; a create whose sandbox is not kept has run no session, or has seen to it
\* that the sandbox is gone.
LEMMA DoneStep ==
    ASSUME CliInv, NEW c \in Clis, Done(c), MachineOK(proc', pidFile', lastBox'),
           NEW b, box' = b, boxIds' = boxIds, BoxesOK(b, boxIds),
           \A n \in CliNames : b[n].id \in {0, box[n].id},
           cli[c].op = "create" /\ ~Persists(cli[c]) =>
              /\ cli[c].made # 0
              /\ cli[c].ran => \A n \in CliNames : b[n].id # cli[c].made
    PROVE  CliInv'
  <1>1. /\ CliTrue(cli[c], box, boxIds) /\ boxIds \in Nat /\ boxIds <= boxIds /\ cli[c] \in CliRecs
        /\ IdleCli \in CliRecs /\ CliTrue(IdleCli, b, boxIds)
    BY BoxBounds, EmptyRecords, IdleCliTrue DEF CliInv
  <1>2. CASE cli[c].op = "create" /\ ~Persists(cli[c])
    <2> DEFINE q == [IdleCli EXCEPT !.op = "create", !.pc = "done", !.made = cli[c].made,
                                    !.ran = cli[c].ran]
    <2>1. cli' = [cli EXCEPT ![c] = q]
      BY <1>2 DEF Done
    <2>2. cli[c].made \in 0..MaxBoxId /\ cli[c].ran \in BOOLEAN
      BY <1>1 DEF CliRecs
    <2>3. /\ q \in CliRecs /\ q.op = "create" /\ q.pc = "done" /\ q.made = cli[c].made
          /\ q.ran = cli[c].ran
      BY <1>1, <2>2 DEF CliRecs, CliPcs
    <2> HIDE DEF q
    <2>4. CliTrue(q, b, boxIds)
      BY <1>1, <1>2, <2>3 DEF CliTrue, Before, Making, Ending
    <2> QED BY <1>1, <2>1, <2>3, <2>4, CliUpdate
  <1>3. CASE ~(cli[c].op = "create" /\ ~Persists(cli[c]))
    <2>1. cli' = [cli EXCEPT ![c] = IdleCli]
      BY <1>3 DEF Done
    <2> QED BY <1>1, <2>1, CliUpdate
  <1> QED BY <1>2, <1>3

\* A command as the user starts it
LEMMA StartStep ==
    ASSUME CliInv, NEW c \in Clis,
           StartCreate(c) \/ StartForward(c) \/ StartStop(c) \/ StartDelete(c) \/ Exit(c)
    PROVE  CliInv'
  <1>1. /\ UNCHANGED <<box, boxIds, proc, pidFile, lastBox>> /\ MachineOK(proc', pidFile', lastBox')
        /\ BoxesOK(box, boxIds) /\ boxIds \in Nat /\ boxIds <= boxIds
        /\ \A n \in CliNames : box[n].id \in {0, box[n].id}
    <2>1. UNCHANGED <<box, boxIds, proc, pidFile, lastBox>>
      BY DEF StartCreate, StartForward, StartStop, StartDelete, Exit
    <2>2. MachineOK(proc, pidFile, lastBox) /\ BoxesOK(box, boxIds) /\ boxIds \in Nat
      BY BoxBounds DEF CliInv
    <2> QED BY <2>1, <2>2
  <1>2. IdleCli \in CliRecs /\ IdleCli.made = 0 /\ ~IdleCli.ran /\ IdleCli.made <= boxIds
    BY <1>1, EmptyRecords DEF IdleCli
  <1>3. ASSUME NEW q \in CliRecs, cli' = [cli EXCEPT ![c] = q], q.made = IdleCli.made,
               q.op = "create" => q.pc = "check" /\ ~q.ran
        PROVE  CliInv'
    <2>1. CliTrue(q, box, boxIds)
      BY <1>2, <1>3 DEF CliTrue, Before, Making, Ending
    <2> QED BY <1>1, <1>3, <2>1, CliUpdate
  <1>4. CASE StartCreate(c)
    <2>1. PICK n \in CliNames, port \in CliPorts \cup {0}, keep \in BOOLEAN :
             cli' = [cli EXCEPT ![c] = [IdleCli EXCEPT !.op = "create", !.name = n, !.port = port,
                                                       !.keep = keep, !.pc = "check"]]
      BY <1>4 DEF StartCreate
    <2> DEFINE q == [IdleCli EXCEPT !.op = "create", !.name = n, !.port = port, !.keep = keep, !.pc = "check"]
    <2>2. q \in CliRecs /\ q.made = IdleCli.made /\ q.pc = "check" /\ q.ran = IdleCli.ran
      BY <1>2 DEF CliRecs, CliPcs
    <2>3. cli' = [cli EXCEPT ![c] = q]
      BY <2>1
    <2> HIDE DEF q
    <2> QED BY <1>2, <1>3, <2>2, <2>3
  <1>5. CASE StartForward(c)
    <2>1. PICK n \in CliNames, port \in CliPorts :
             cli' = [cli EXCEPT ![c] = [IdleCli EXCEPT !.op = "forward", !.name = n, !.port = port,
                                                       !.pc = "fwdcheck"]]
      BY <1>5 DEF StartForward
    <2> DEFINE q == [IdleCli EXCEPT !.op = "forward", !.name = n, !.port = port, !.pc = "fwdcheck"]
    <2>2. q \in CliRecs /\ q.made = IdleCli.made /\ q.op = "forward"
      BY <1>2 DEF CliRecs, CliPcs
    <2>3. cli' = [cli EXCEPT ![c] = q]
      BY <2>1
    <2> HIDE DEF q
    <2> QED BY <1>3, <2>2, <2>3
  <1>6. CASE StartStop(c)
    <2>1. PICK n \in CliNames, port \in CliPorts :
             cli' = [cli EXCEPT ![c] = [IdleCli EXCEPT !.op = "stop", !.name = n,
                                                       !.todo = {port}, !.pc = "kill"]]
      BY <1>6 DEF StartStop
    <2> DEFINE q == [IdleCli EXCEPT !.op = "stop", !.name = n, !.todo = {port}, !.pc = "kill"]
    <2>2. q \in CliRecs /\ q.made = IdleCli.made /\ q.op = "stop"
      BY <1>2 DEF CliRecs, CliPcs
    <2>3. cli' = [cli EXCEPT ![c] = q]
      BY <2>1
    <2> HIDE DEF q
    <2> QED BY <1>3, <2>2, <2>3
  <1>7. CASE StartDelete(c)
    <2>1. PICK n \in CliNames :
             cli' = [cli EXCEPT ![c] = [IdleCli EXCEPT !.op = "delete", !.name = n, !.pc = "stopall"]]
      BY <1>7 DEF StartDelete
    <2> DEFINE q == [IdleCli EXCEPT !.op = "delete", !.name = n, !.pc = "stopall"]
    <2>2. q \in CliRecs /\ q.made = IdleCli.made /\ q.op = "delete"
      BY <1>2 DEF CliRecs, CliPcs
    <2>3. cli' = [cli EXCEPT ![c] = q]
      BY <2>1
    <2> HIDE DEF q
    <2> QED BY <1>3, <2>2, <2>3
  <1>8. CASE Exit(c)
    BY <1>1, <1>8, FailStep DEF Exit, Fail
  <1> QED BY <1>4, <1>5, <1>6, <1>7, <1>8

\* sandbox create, up to its session
LEMMA CreateStep ==
    ASSUME CliInv, NEW c \in Clis,
           \/ CheckPortFirst(c) \/ Prepare(c) \/ RequestSandbox(c) \/ WatchEvent(c) \/ WatchEnds(c)
           \/ Upload(c) \/ RunSession(c) \/ ProxyConnect(c) \/ SessionEnds(c) \/ Finalize(c)
    PROVE  CliInv'
  <1>1. /\ BoxesOK(box, boxIds) /\ MachineOK(proc, pidFile, lastBox) /\ CliTrue(cli[c], box, boxIds)
        /\ cli[c] \in CliRecs /\ boxIds \in Nat /\ MaxBoxId \in Nat /\ cli[c].made \in Nat
    BY BoxBounds DEF CliInv
  <1>2. cli[c].op = "create" /\ cli[c].name \in CliNames
    BY <1>1 DEF CheckPortFirst, Prepare, RequestSandbox, WatchEvent, WatchEnds, Upload, RunSession,
                ProxyConnect, SessionEnds, Finalize, At, CliRecs
  <1>3. CASE CheckPortFirst(c)
    <2>1. cli[c].pc = "check" /\ (Go(c, "prepare") \/ Fail(c)) /\ UNCHANGED <<box, boxIds, proc, pidFile, lastBox>>
      BY <1>3 DEF CheckPortFirst, At
    <2>2. "prepare" \in CliPcs /\ "prepare" \in Before /\ "check" \in Before
      BY DEF CliPcs, Before
    <2> QED BY <1>1, <2>1, <2>2, GoStep, FailStep
  <1>4. CASE Prepare(c)
    <2>1. cli[c].pc = "prepare" /\ (Go(c, "request") \/ Fail(c)) /\ UNCHANGED <<box, boxIds, proc, pidFile, lastBox>>
      BY <1>4 DEF Prepare, At
    <2>2. "request" \in CliPcs /\ "request" \in Before /\ "prepare" \in Before
      BY DEF CliPcs, Before
    <2> QED BY <1>1, <2>1, <2>2, GoStep, FailStep
  <1>5. CASE RequestSandbox(c)
    <2>1. CASE Fail(c) /\ UNCHANGED <<box, boxIds, lastBox>>
      BY <1>1, <1>5, <2>1, FailStep DEF RequestSandbox
    <2>2. CASE ~(Fail(c) /\ UNCHANGED <<box, boxIds, lastBox>>)
      <3> DEFINE n == cli[c].name
                 k == boxIds + 1
                 nb == [id |-> k, phase |-> "Provisioning"]
                 b == [box EXCEPT ![n] = nb]
                 q == [cli[c] EXCEPT !.pc = "watch", !.made = k, !.last = "Provisioning", !.sawNonReady = TRUE]
      <3>1. /\ cli[c].pc = "request" /\ box[n].id = 0 /\ boxIds < MaxBoxId /\ boxIds' = k /\ box' = b
            /\ lastBox' \in {n, lastBox} /\ UNCHANGED <<proc, pidFile>> /\ cli' = [cli EXCEPT ![c] = q]
        BY <1>5, <2>2 DEF RequestSandbox, At
      <3>2. n \in CliNames /\ k \in 0..MaxBoxId /\ k \in Nat /\ k # 0 /\ boxIds < k
        BY <1>1, <1>2, <3>1
      <3>3. nb \in BoxRecs /\ nb.id = k
        BY <3>2 DEF BoxRecs, BoxPhases
      <3>4. /\ q \in CliRecs /\ q.op = "create" /\ q.pc = "watch" /\ q.made = k /\ q.name = n
            /\ q.ran = cli[c].ran
        BY <1>1, <1>2, <3>2 DEF CliRecs, CliPcs, BoxPhases
      <3> HIDE DEF n, k, nb, q
      <3>5. box \in [CliNames -> BoxRecs] /\ \A m \in CliNames : box[m].id \in Nat /\ box[m].id <= boxIds
        BY BoxBounds DEF CliInv, BoxesOK
      <3>6. b \in [CliNames -> BoxRecs] /\ \A m \in CliNames : b[m] = IF m = n THEN nb ELSE box[m]
        BY <3>2, <3>3, <3>5
      <3> HIDE DEF b
      <3>7. \A m \in CliNames : b[m].id <= k
        BY <1>1, <3>2, <3>3, <3>5, <3>6
      <3>8. \A m \in CliNames : b[m].id \in {0, box[m].id} \/ b[m].id > boxIds
        BY <1>1, <3>2, <3>3, <3>6
      <3>9. \A m \in CliNames : b[m].id = k => m = n
        BY <1>1, <3>2, <3>5, <3>6
      <3>10. ~cli[c].ran
        BY <1>1, <1>2, <3>1 DEF CliTrue, Before
      <3>11. k <= k /\ boxIds <= k
        BY <1>1, <3>2
      <3>12. CliTrue(q, b, k)
        BY <3>2, <3>4, <3>9, <3>10, <3>11 DEF CliTrue, Making, Ending, Before
      <3>13. BoxesOK(b, k) /\ MachineOK(proc', pidFile', lastBox')
        BY <1>1, <3>1, <3>2, <3>6, <3>7 DEF BoxesOK, MachineOK
      <3> QED BY <3>1, <3>4, <3>8, <3>11, <3>12, <3>13, CliUpdate
    <2> QED BY <2>1, <2>2
  <1>6. CASE WatchEvent(c) \/ WatchEnds(c)
    <2>1. cli[c].pc = "watch" /\ UNCHANGED <<box, boxIds, proc, pidFile, lastBox>>
      BY <1>6 DEF WatchEvent, WatchEnds, At
    <2>2. CASE Fail(c)
      BY <1>1, <2>1, <2>2, FailStep
    <2>3. ASSUME NEW pc \in {"watch", "upload"}, NEW l \in BoxPhases, NEW s \in BOOLEAN,
                 cli' = [cli EXCEPT ![c] = [cli[c] EXCEPT !.pc = pc, !.last = l, !.sawNonReady = s]]
          PROVE  CliInv'
      <3> DEFINE q == [cli[c] EXCEPT !.pc = pc, !.last = l, !.sawNonReady = s]
      <3>1. /\ q \in CliRecs /\ q.op = cli[c].op /\ q.made = cli[c].made /\ q.name = cli[c].name
            /\ q.ran = cli[c].ran /\ q.pc = pc
        BY <1>1 DEF CliRecs, CliPcs
      <3>2. cli' = [cli EXCEPT ![c] = q]
        BY <2>3
      <3> HIDE DEF q
      <3>3. pc \in Making /\ "watch" \in Making
        BY DEF Making
      <3> QED BY <1>1, <2>1, <3>1, <3>2, <3>3, CliMoves
    <2>4. CASE WatchOver(c)
      <3>1. cli' = [cli EXCEPT ![c] = [cli[c] EXCEPT !.pc = "upload", !.last = "None", !.sawNonReady = FALSE]]
        BY <2>4 DEF WatchOver, CliInv
      <3> QED BY <2>3, <3>1 DEF BoxPhases
    <2>5. CASE ~WatchOver(c) /\ ~Fail(c)
      <3> DEFINE l == PhaseSeen(c)
                 s == cli[c].sawNonReady \/ l # "Ready"
      <3>1. cli' = [cli EXCEPT ![c].last = l, ![c].sawNonReady = s]
        BY <1>6, <2>5 DEF WatchEvent, WatchEnds
      <3>2. l \in BoxPhases
        BY <1>1, <1>2 DEF PhaseSeen, BoxPhases, BoxesOK, BoxRecs
      <3>3. s \in BOOLEAN
        BY <1>1 DEF CliRecs
      <3> HIDE DEF l, s
      <3>4. cli[c] = [cli[c] EXCEPT !.pc = "watch"]
        BY <1>1, <2>1 DEF CliRecs
      <3>5. [cli[c] EXCEPT !.last = l, !.sawNonReady = s]
                = [cli[c] EXCEPT !.pc = "watch", !.last = l, !.sawNonReady = s]
        BY <1>1, <2>1 DEF CliRecs
      <3>6. cli' = [cli EXCEPT ![c] = [cli[c] EXCEPT !.last = l, !.sawNonReady = s]]
        BY <3>1 DEF CliInv
      <3> QED BY <2>3, <3>2, <3>3, <3>5, <3>6
    <2> QED BY <2>2, <2>4, <2>5
  <1>7. CASE Upload(c)
    <2> DEFINE pc == IF cli[c].port = 0 THEN "run" ELSE "fwdcheck"
    <2>1. cli[c].pc = "upload" /\ (Go(c, pc) \/ Fail(c)) /\ UNCHANGED <<box, boxIds, proc, pidFile, lastBox>>
      BY <1>7 DEF Upload, At
    <2>2. pc \in CliPcs /\ pc \in Making /\ "upload" \in Making
      BY DEF CliPcs, Making
    <2> HIDE DEF pc
    <2> QED BY <1>1, <2>1, <2>2, GoStep, FailStep
  <1>8. CASE RunSession(c)
    <2>1. cli[c].pc = "run" /\ UNCHANGED <<box, boxIds, proc, pidFile, lastBox>>
      BY <1>8 DEF RunSession, At
    <2>2. cli[c].made # 0 /\ ~cli[c].ran
      BY <1>1, <1>2, <2>1 DEF CliTrue, Making
    <2>3. CASE Fail(c)
      BY <1>1, <2>1, <2>3, FailStep
    <2>4. CASE Done(c)
      BY <1>1, <2>1, <2>2, <2>4, DoneStep
    <2>5. ASSUME NEW pc \in {"connect", "finalize"}, NEW id \in 0..MaxBoxId,
                 cli' = [cli EXCEPT ![c] = [cli[c] EXCEPT !.id = id, !.pc = pc, !.ran = TRUE]]
          PROVE  CliInv'
      <3> DEFINE q == [cli[c] EXCEPT !.id = id, !.pc = pc, !.ran = TRUE]
      <3>1. q \in CliRecs /\ q.op = cli[c].op /\ q.made = cli[c].made /\ q.name = cli[c].name /\ q.pc = pc
        BY <1>1 DEF CliRecs, CliPcs
      <3>2. cli' = [cli EXCEPT ![c] = q]
        BY <2>5
      <3> HIDE DEF q
      <3>3. pc \in Ending /\ "run" \in Making
        BY DEF Ending, Making
      <3> QED BY <1>1, <2>1, <3>1, <3>2, <3>3, CliMoves
    <2>6. CASE cli' = [cli EXCEPT ![c].id = box[cli[c].name].id, ![c].pc = "connect", ![c].ran = TRUE]
      <3>1. box[cli[c].name].id \in 0..MaxBoxId
        BY <1>1, <1>2 DEF BoxesOK, BoxRecs
      <3>2. cli' = [cli EXCEPT ![c] = [cli[c] EXCEPT !.id = box[cli[c].name].id, !.pc = "connect", !.ran = TRUE]]
        BY <2>6 DEF CliInv
      <3> QED BY <2>5, <3>1, <3>2
    <2>7. CASE cli' = [cli EXCEPT ![c].pc = "finalize", ![c].ran = TRUE]
      <3>1. cli[c].id \in 0..MaxBoxId
        BY <1>1 DEF CliRecs
      <3>2. cli' = [cli EXCEPT ![c] = [cli[c] EXCEPT !.pc = "finalize", !.ran = TRUE]]
        BY <2>7 DEF CliInv
      <3>3. [cli[c] EXCEPT !.pc = "finalize", !.ran = TRUE]
               = [cli[c] EXCEPT !.id = cli[c].id, !.pc = "finalize", !.ran = TRUE]
        BY <1>1 DEF CliRecs
      <3> QED BY <2>5, <3>1, <3>2, <3>3
    <2> QED BY <1>8, <2>3, <2>4, <2>6, <2>7 DEF RunSession
  <1>9. CASE ProxyConnect(c)
    <2>1. cli[c].pc = "connect" /\ UNCHANGED <<box, boxIds, proc, pidFile, lastBox>>
      BY <1>9 DEF ProxyConnect, At
    <2>2. ASSUME NEW pc \in {"connect", "session", "finalize"}, NEW id \in 0..MaxBoxId, NEW t \in Nat,
                 cli' = [cli EXCEPT ![c] = [cli[c] EXCEPT !.pc = pc, !.tries = t, !.id = id]]
          PROVE  CliInv'
      <3> DEFINE q == [cli[c] EXCEPT !.pc = pc, !.tries = t, !.id = id]
      <3>1. q \in CliRecs /\ q.op = cli[c].op /\ q.made = cli[c].made /\ q.name = cli[c].name /\ q.pc = pc
        BY <1>1 DEF CliRecs, CliPcs
      <3>2. cli' = [cli EXCEPT ![c] = q]
        BY <2>2
      <3> HIDE DEF q
      <3>3. pc \in Ending /\ "connect" \in Ending
        BY DEF Ending
      <3> QED BY <1>1, <2>1, <3>1, <3>2, <3>3, CliMoves
    <2>3. ASSUME NEW pc \in {"session", "finalize"}, ConnectOver(c, pc)
          PROVE  CliInv'
      <3>1. cli' = [cli EXCEPT ![c] = [cli[c] EXCEPT !.pc = pc, !.tries = 0, !.id = 0]]
        BY <2>3 DEF ConnectOver, CliInv
      <3>2. 0 \in 0..MaxBoxId /\ 0 \in Nat
        BY <1>1
      <3> QED BY <2>2, <3>1, <3>2
    <2>4. CASE cli' = [cli EXCEPT ![c].tries = @ + 1]
      <3>1. cli[c].tries \in Nat /\ cli[c].id \in 0..MaxBoxId
        BY <1>1 DEF CliRecs
      <3> DEFINE t == cli[c].tries + 1
      <3>2. t \in Nat
        BY <3>1
      <3>3. cli' = [cli EXCEPT ![c] = [cli[c] EXCEPT !.tries = t]]
        BY <2>4 DEF CliInv
      <3> HIDE DEF t
      <3>4. [cli[c] EXCEPT !.tries = t] = [cli[c] EXCEPT !.pc = "connect", !.tries = t, !.id = cli[c].id]
        BY <1>1, <2>1 DEF CliRecs
      <3> QED BY <2>2, <3>1, <3>2, <3>3, <3>4
    <2> QED BY <1>9, <2>3, <2>4 DEF ProxyConnect
  <1>10. CASE SessionEnds(c)
    <2>1. cli[c].pc = "session" /\ UNCHANGED <<box, boxIds, proc, pidFile, lastBox>>
      BY <1>10 DEF SessionEnds, At
    <2>2. CASE Persists(cli[c])
      BY <1>1, <1>10, <2>1, <2>2, DoneStep DEF SessionEnds
    <2>3. CASE ~Persists(cli[c])
      <3>1. Go(c, "finalize") /\ "finalize" \in CliPcs /\ "finalize" \in Ending /\ "session" \in Ending
        BY <1>10, <2>3 DEF SessionEnds, CliPcs, Ending
      <3> QED BY <1>1, <2>1, <3>1, GoStep
    <2> QED BY <2>2, <2>3
  <1>11. CASE Finalize(c)
    <2>1. cli[c].pc = "finalize" /\ UNCHANGED <<box, boxIds, proc, pidFile, lastBox>>
      BY <1>11 DEF Finalize, At
    <2>2. CASE Persists(cli[c])
      BY <1>1, <1>11, <2>1, <2>2, DoneStep DEF Finalize
    <2>3. CASE ~Persists(cli[c])
      <3>1. Go(c, "stopall") /\ "stopall" \in CliPcs /\ "stopall" \in Ending /\ "finalize" \in Ending
        BY <1>11, <2>3 DEF Finalize, CliPcs, Ending
      <3> QED BY <1>1, <2>1, <3>1, GoStep
    <2> QED BY <2>2, <2>3
  <1> QED BY <1>3, <1>4, <1>5, <1>6, <1>7, <1>8, <1>9, <1>10, <1>11

\* The processes and the pid files stay well formed.
LEMMA FoundPid ==
    ASSUME NEW id, NEW port
    PROVE  FindSshForwardPid(id, port) \in CliPids \cup {0}
  <1> DEFINE S == {p \in CliPids : PidMatchesForward(p, port, id)}
  <1>1. CASE S = {}
    BY <1>1 DEF FindSshForwardPid
  <1>2. CASE S # {}
    <2>1. PICK m \in CliPids \cup {0} : CliPids \subseteq 1..m
      BY CliAssumption
    <2>2. m \in Nat
      BY <2>1
    <2>3. S \subseteq 0..m
      <3>1. \A i \in 1..m : i \in 0..m
        BY <2>2
      <3> QED BY <2>1, <3>1
    <2>4. \E p \in S : \A q \in S : q <= p
      BY <1>2, <2>2, <2>3, GreatestNumber
    <2> QED BY <1>2, <2>4 DEF FindSshForwardPid
  <1> QED BY <1>1, <1>2

LEMMA ForwardStep ==
    ASSUME CliInv, NEW c \in Clis,
           ForwardCheck(c) \/ ForwardSession(c) \/ ForwardSsh(c) \/ ForwardRecord(c)
    PROVE  CliInv'
  <1>1. /\ BoxesOK(box, boxIds) /\ MachineOK(proc, pidFile, lastBox) /\ CliTrue(cli[c], box, boxIds)
        /\ cli[c] \in CliRecs /\ cli[c].name \in CliNames /\ UNCHANGED <<box, boxIds>>
    <2>1. UNCHANGED <<box, boxIds>>
      BY DEF ForwardCheck, ForwardSession, ForwardSsh, ForwardRecord
    <2> QED BY <2>1, BoxBounds DEF CliInv, CliRecs
  <1>2. cli[c].id \in 0..MaxBoxId /\ cli[c].port \in CliPorts \cup {0}
    BY <1>1 DEF CliRecs
  <1>3. /\ \A pc \in {"fwdcheck", "fwdsession", "fwdssh", "fwdrecord", "run"} : pc \in Making /\ pc \in CliPcs
    BY DEF Making, CliPcs
  <1>4. CASE ForwardCheck(c)
    <2>1. cli[c].pc = "fwdcheck" /\ (Go(c, "fwdsession") \/ Fail(c)) /\ UNCHANGED <<proc, pidFile, lastBox>>
      BY <1>4 DEF ForwardCheck
    <2> QED BY <1>1, <1>3, <2>1, GoStep, FailStep
  <1>5. CASE ForwardSession(c)
    <2>1. cli[c].pc = "fwdsession" /\ UNCHANGED <<proc, pidFile, lastBox>>
      BY <1>5 DEF ForwardSession
    <2>2. CASE Fail(c)
      BY <1>1, <2>1, <2>2, FailStep
    <2>3. CASE ~Fail(c)
      <3> DEFINE id == box[cli[c].name].id
                 q == [cli[c] EXCEPT !.id = id, !.pc = "fwdssh"]
      <3>1. cli' = [cli EXCEPT ![c] = q]
        BY <1>5, <2>3 DEF ForwardSession, CliInv
      <3>2. id \in 0..MaxBoxId
        BY <1>1 DEF BoxesOK, BoxRecs
      <3> HIDE DEF id
      <3>3. /\ q \in CliRecs /\ q.op = cli[c].op /\ q.made = cli[c].made /\ q.name = cli[c].name
            /\ q.ran = cli[c].ran /\ q.pc = "fwdssh"
        BY <1>1, <1>3, <3>2 DEF CliRecs
      <3> HIDE DEF q
      <3> QED BY <1>1, <1>3, <2>1, <3>1, <3>3, CliMoves
    <2> QED BY <2>2, <2>3
  <1>6. CASE ForwardSsh(c)
    <2>1. cli[c].pc = "fwdssh" /\ UNCHANGED <<pidFile, lastBox>>
      BY <1>6 DEF ForwardSsh
    <2>2. CASE Fail(c) /\ UNCHANGED proc
      BY <1>1, <2>1, <2>2, FailStep
    <2>3. CASE ~(Fail(c) /\ UNCHANGED proc)
      <3> DEFINE s == [kind |-> "ssh", id |-> cli[c].id, port |-> cli[c].port]
      <3>1. Go(c, "fwdrecord") /\ \E p \in CliPids : proc' = [proc EXCEPT ![p] = s]
        BY <1>6, <2>3 DEF ForwardSsh
      <3>2. s \in ProcRecs
        BY <1>2 DEF ProcRecs
      <3> HIDE DEF s
      <3>3. MachineOK(proc', pidFile', lastBox')
        BY <1>1, <2>1, <3>1, <3>2 DEF MachineOK
      <3> QED BY <1>1, <1>3, <2>1, <3>1, <3>3, GoStep
    <2> QED BY <2>2, <2>3
  <1>7. CASE ForwardRecord(c)
    <2> DEFINE p == FindSshForwardPid(cli[c].id, cli[c].port)
               f == [pid |-> p, id |-> cli[c].id]
    <2>1. /\ cli[c].pc = "fwdrecord" /\ UNCHANGED <<proc, lastBox>>
          /\ pidFile' \in {pidFile, [pidFile EXCEPT ![<<cli[c].name, cli[c].port>>] = f]}
      BY <1>7 DEF ForwardRecord
    <2>2. p \in CliPids \cup {0}
      BY FoundPid
    <2> HIDE DEF p
    <2>3. f \in FileRecs
      BY <1>2, <2>2 DEF FileRecs
    <2> HIDE DEF f
    <2>4. MachineOK(proc', pidFile', lastBox')
      BY <1>1, <2>1, <2>3 DEF MachineOK
    <2>5. CASE cli[c].op = "create"
      <3>1. Go(c, "run")
        BY <1>7, <2>5 DEF ForwardRecord
      <3> QED BY <1>1, <1>3, <2>1, <2>4, <3>1, GoStep
    <2>6. CASE cli[c].op # "create"
      <3>1. Done(c)
        BY <1>7, <2>6 DEF ForwardRecord
      <3> QED BY <1>1, <2>4, <2>6, <3>1, DoneStep
    <2> QED BY <2>5, <2>6
  <1> QED BY <1>4, <1>5, <1>6, <1>7

LEMMA StopStep ==
    ASSUME CliInv, NEW c \in Clis,
           ListForwards(c) \/ StopKill(c) \/ StopRemove(c) \/ StopDone(c) \/ DeleteBox(c)
    PROVE  CliInv'
  <1>1. /\ BoxesOK(box, boxIds) /\ MachineOK(proc, pidFile, lastBox) /\ CliTrue(cli[c], box, boxIds)
        /\ cli[c] \in CliRecs /\ cli[c].name \in CliNames /\ cli[c].todo \in SUBSET CliPorts
    BY BoxBounds DEF CliInv, CliRecs
  <1>2. NoFile \in FileRecs /\ Dead \in ProcRecs /\ NoBox \in BoxRecs /\ NoBox.id = 0
    BY EmptyRecords
  <1>3. \A pc \in {"stopall", "kill", "remove", "delete"} : pc \in Ending /\ pc \in CliPcs
    BY DEF Ending, CliPcs
  <1>4. ASSUME NEW pc \in {"kill", "remove"}, NEW todo \in SUBSET CliPorts, NEW t \in CliPorts \cup {0},
               cli' = [cli EXCEPT ![c] = [cli[c] EXCEPT !.pc = pc, !.todo = todo, !.target = t]],
               cli[c].pc \in {"stopall", "kill", "remove"}, UNCHANGED <<box, boxIds>>,
               MachineOK(proc', pidFile', lastBox')
        PROVE  CliInv'
    <2> DEFINE q == [cli[c] EXCEPT !.pc = pc, !.todo = todo, !.target = t]
    <2>1. q \in CliRecs /\ q.op = cli[c].op /\ q.made = cli[c].made /\ q.name = cli[c].name /\ q.pc = pc
      BY <1>1, <1>3 DEF CliRecs
    <2>2. cli' = [cli EXCEPT ![c] = q]
      BY <1>4
    <2> HIDE DEF q
    <2>3. cli[c].pc \in Making \cup Ending /\ q.pc \in Ending
      BY <1>3, <1>4, <2>1
    <2> QED BY <1>4, <2>1, <2>2, <2>3, CliMoves
  <1>5. CASE ListForwards(c)
    <2> DEFINE todo == {p \in CliPorts : pidFile[<<cli[c].name, p>>].pid # 0}
    <2>1. /\ cli' = [cli EXCEPT ![c] = [cli[c] EXCEPT !.pc = "kill", !.todo = todo]]
          /\ cli[c].pc = "stopall" /\ UNCHANGED <<box, boxIds, proc, pidFile, lastBox>>
      BY <1>5 DEF ListForwards, CliInv
    <2>2. todo \in SUBSET CliPorts /\ cli[c].target \in CliPorts \cup {0}
      BY <1>1 DEF CliRecs
    <2> HIDE DEF todo
    <2>3. [cli[c] EXCEPT !.pc = "kill", !.todo = todo]
             = [cli[c] EXCEPT !.pc = "kill", !.todo = todo, !.target = cli[c].target]
      BY <1>1 DEF CliRecs
    <2> QED BY <1>1, <1>4, <2>1, <2>2, <2>3
  <1>6. CASE StopKill(c)
    <2>1. PICK port \in cli[c].todo :
             /\ KillForward(cli[c].name, port)
             /\ cli' = [cli EXCEPT ![c] = [cli[c] EXCEPT !.pc = "remove", !.target = port]]
      BY <1>6 DEF StopKill, CliInv
    <2>2. cli[c].pc = "kill" /\ UNCHANGED <<box, boxIds, pidFile, lastBox>> /\ port \in CliPorts
      BY <1>1, <1>6 DEF StopKill
    <2>3. [cli[c] EXCEPT !.pc = "remove", !.target = port]
             = [cli[c] EXCEPT !.pc = "remove", !.todo = cli[c].todo, !.target = port]
      BY <1>1 DEF CliRecs
    <2>4. proc' \in [CliPids -> ProcRecs]
      BY <1>1, <1>2, <2>1 DEF KillForward, MachineOK
    <2>5. MachineOK(proc', pidFile', lastBox')
      BY <1>1, <2>2, <2>4 DEF MachineOK
    <2> QED BY <1>1, <1>4, <2>1, <2>2, <2>3, <2>5
  <1>7. CASE StopRemove(c)
    <2> DEFINE port == cli[c].target
               todo == cli[c].todo \ {port}
    <2>1. /\ RemovePidFile(cli[c].name, port)
          /\ cli' = [cli EXCEPT ![c] = [cli[c] EXCEPT !.pc = "kill", !.todo = todo, !.target = 0]]
          /\ cli[c].pc = "remove" /\ UNCHANGED <<box, boxIds, proc, lastBox>>
      BY <1>7 DEF StopRemove, CliInv
    <2>2. todo \in SUBSET CliPorts
      BY <1>1
    <2>3. pidFile' \in [CliNames \X CliPorts -> FileRecs]
      BY <1>1, <1>2, <2>1 DEF RemovePidFile, MachineOK
    <2>4. MachineOK(proc', pidFile', lastBox')
      BY <1>1, <2>1, <2>3 DEF MachineOK
    <2> HIDE DEF todo, port
    <2> QED BY <1>4, <2>1, <2>2, <2>4
  <1>8. CASE StopDone(c)
    <2>1. cli[c].pc = "kill" /\ UNCHANGED <<box, boxIds, proc, pidFile, lastBox>>
      BY <1>8 DEF StopDone
    <2>2. CASE cli[c].op = "stop"
      BY <1>1, <1>8, <2>1, <2>2, DoneStep DEF StopDone
    <2>3. CASE cli[c].op # "stop"
      <3>1. Go(c, "delete")
        BY <1>8, <2>3 DEF StopDone
      <3> QED BY <1>1, <1>3, <2>1, <3>1, GoStep
    <2> QED BY <2>2, <2>3
  <1>9. CASE DeleteBox(c)
    <2>1. cli[c].pc = "delete" /\ UNCHANGED <<boxIds, proc, pidFile>>
      BY <1>9 DEF DeleteBox
    <2>2. CASE Fail(c) /\ UNCHANGED <<box, lastBox>>
      BY <1>1, <2>1, <2>2, FailStep
    <2>3. CASE ~(Fail(c) /\ UNCHANGED <<box, lastBox>>)
      <3> DEFINE n == cli[c].name
                 b == [box EXCEPT ![n] = NoBox]
      <3>1. box' = b /\ Done(c) /\ lastBox' \in {NoName, lastBox}
        BY <1>9, <2>3 DEF DeleteBox
      <3>2. n \in CliNames
        BY <1>1
      <3> HIDE DEF n
      <3>3. b \in [CliNames -> BoxRecs] /\ \A m \in CliNames : b[m] = IF m = n THEN NoBox ELSE box[m]
        BY <1>1, <1>2, <3>2 DEF BoxesOK
      <3> HIDE DEF b
      <3>4. BoxesOK(b, boxIds)
        <4>1. boxIds \in Nat /\ \A m \in CliNames : b[m].id <= boxIds
          BY <1>1, <1>2, <3>3, BoxBounds DEF BoxesOK
        <4> QED BY <1>1, <3>3, <4>1 DEF BoxesOK
      <3>5. \A m \in CliNames : b[m].id \in {0, box[m].id}
        BY <1>2, <3>3
      <3>6. cli[c].op = "create" => /\ cli[c].made # 0
                                    /\ \A m \in CliNames : b[m].id # cli[c].made
        <4> SUFFICES ASSUME cli[c].op = "create"
                     PROVE  cli[c].made # 0 /\ \A m \in CliNames : b[m].id # cli[c].made
          OBVIOUS
        <4>1. cli[c].made # 0 /\ \A m \in CliNames : box[m].id = cli[c].made => m = n
          BY <1>1, <1>3, <2>1 DEF CliTrue, n
        <4> QED BY <1>2, <3>3, <4>1
      <3>7. MachineOK(proc', pidFile', lastBox')
        BY <1>1, <2>1, <3>1 DEF MachineOK
      <3> QED BY <2>1, <3>1, <3>4, <3>5, <3>6, <3>7, DoneStep
    <2> QED BY <2>2, <2>3
  <1> QED BY <1>5, <1>6, <1>7, <1>8, <1>9

LEMMA OutsideStep ==
    ASSUME CliInv, BoxPhase \/ ProcDies \/ PidReused
    PROVE  CliInv'
  <1>1. BoxesOK(box, boxIds) /\ MachineOK(proc, pidFile, lastBox)
    BY DEF CliInv
  <1>2. Dead \in ProcRecs
    BY EmptyRecords
  <1>3. CASE BoxPhase
    <2>1. PICK n \in CliNames, ph \in {"Provisioning", "Ready", "Error"} :
             box' = [box EXCEPT ![n] = [box[n] EXCEPT !.phase = ph]]
      BY <1>1, <1>3 DEF BoxPhase, BoxesOK
    <2> DEFINE nb == [box[n] EXCEPT !.phase = ph]
    <2>2. box[n] \in BoxRecs
      BY <1>1 DEF BoxesOK
    <2>3. nb \in BoxRecs /\ nb.id = box[n].id
      BY <2>2 DEF BoxRecs, BoxPhases
    <2>4. box' = [box EXCEPT ![n] = nb]
      BY <2>1
    <2> HIDE DEF nb
    <2>5. box' \in [CliNames -> BoxRecs] /\ \A m \in CliNames : box'[m].id = box[m].id
      BY <1>1, <2>3, <2>4 DEF BoxesOK
    <2>6. UNCHANGED <<boxIds, proc, pidFile, lastBox, cli>>
      BY <1>3 DEF BoxPhase
    <2>7. BoxesOK(box', boxIds')
      BY <1>1, <2>5, <2>6 DEF BoxesOK
    <2>8. \A c \in Clis : CliTrue(cli[c], box', boxIds)
      BY <2>5 DEF CliInv, CliTrue
    <2> QED BY <1>1, <2>6, <2>7, <2>8 DEF CliInv
  <1>4. CASE ProcDies
    <2>1. proc' \in [CliPids -> ProcRecs] /\ UNCHANGED <<box, boxIds, pidFile, lastBox, cli>>
      BY <1>1, <1>2, <1>4 DEF ProcDies, MachineOK
    <2>2. MachineOK(proc', pidFile', lastBox')
      BY <1>1, <2>1 DEF MachineOK
    <2> QED BY <2>1, <2>2 DEF CliInv
  <1>5. CASE PidReused
    <2>1. PICK p \in CliPids, port \in CliPorts \cup {0} :
             proc' = [proc EXCEPT ![p] = [kind |-> "other", id |-> 0, port |-> port]]
      BY <1>5 DEF PidReused
    <2> DEFINE r == [kind |-> "other", id |-> 0, port |-> port]
    <2>2. r \in ProcRecs
      BY CliAssumption DEF ProcRecs
    <2>3. proc' = [proc EXCEPT ![p] = r]
      BY <2>1
    <2> HIDE DEF r
    <2>4. UNCHANGED <<box, boxIds, pidFile, lastBox, cli>>
      BY <1>5 DEF PidReused
    <2>5. MachineOK(proc', pidFile', lastBox')
      BY <1>1, <2>2, <2>3, <2>4 DEF MachineOK
    <2> QED BY <2>4, <2>5 DEF CliInv
  <1> QED BY <1>3, <1>4, <1>5

\* Whatever other terminals create, delete, forward and stop meanwhile, and
\* whatever becomes of processes and pids, a create that ran its session and
\* reported success, and was not asked to keep its sandbox, has left none
\* (finalize_sandbox_create_session deletes by name), and the state is well
\* formed.
THEOREM EphemeralIsRemoved == CliSpec => []CommandsSound
  <1>1. CliInit => CliInv
    <2> SUFFICES ASSUME CliInit PROVE CliInv
      OBVIOUS
    <2>1. /\ NoBox \in BoxRecs /\ NoBox.id = 0 /\ NoFile \in FileRecs /\ Dead \in ProcRecs
          /\ IdleCli \in CliRecs
      BY EmptyRecords
    <2>2. BoxesOK(box, boxIds) /\ boxIds \in Nat
      BY <2>1, CliAssumption DEF CliInit, BoxesOK
    <2>3. MachineOK(proc, pidFile, lastBox)
      BY <2>1 DEF CliInit, MachineOK
    <2>4. cli \in [Clis -> CliRecs] /\ \A c \in Clis : CliTrue(cli[c], box, boxIds)
      BY <2>1, <2>2, IdleCliTrue DEF CliInit
    <2> QED BY <2>2, <2>3, <2>4 DEF CliInv
  <1>2. CliInv /\ [CliNext]_cliVars => CliInv'
    <2> SUFFICES ASSUME CliInv, [CliNext]_cliVars PROVE CliInv'
      OBVIOUS
    <2>1. CASE UNCHANGED cliVars
      BY <2>1 DEF cliVars, CliInv
    <2>2. CASE CliNext
      BY <2>2, StartStep, CreateStep, ForwardStep, StopStep, OutsideStep DEF CliNext
    <2> QED BY <2>1, <2>2
  <1>3. CliInv => CommandsSound
    <2> SUFFICES ASSUME CliInv PROVE CliTypeOK /\ EphemeralRemoved
      BY DEF CommandsSound
    <2>1. box \in [CliNames -> [id : 0..MaxBoxId, phase : {"None", "Provisioning", "Ready", "Error"}]]
      BY DEF CliInv, BoxesOK, BoxRecs, BoxPhases
    <2>2. \A c \in Clis : /\ cli[c].pc \in CliPcs
                          /\ cli[c].op \in {"none", "create", "forward", "stop", "delete"}
                          /\ cli[c].name \in CliNames /\ cli[c].port \in CliPorts \cup {0}
                          /\ cli[c].made \in 0..MaxBoxId /\ cli[c].id \in 0..MaxBoxId
      BY DEF CliInv, CliRecs
    <2>3. CliTypeOK
      BY <2>1, <2>2 DEF CliTypeOK, CliInv, BoxesOK, MachineOK, ProcRecs, FileRecs
    <2>4. EphemeralRemoved
      BY DEF EphemeralRemoved, CliInv, CliTrue, At
    <2> QED BY <2>3, <2>4
  <1> QED BY <1>1, <1>2, <1>3, PTL DEF CliSpec

-----------------------------------------------------------------------------
(* GatewayBootstrap: one gateway, deployed, resumed and cleaned up.        *)

DeployPcs ==
    {"idle", "existing", "image", "network", "volume", "ports", "container", "kind", "start", "nodes", "workload",
     "namespace", "pki", "apply", "rollout", "store", "ssh", "push", "helm", "ready", "meta", "grpc", "cleanup",
     "failed"}

\* Between the container and its registration the deploy knows the container's
\* port; before and after, the registration does.
Settled == {"idle", "existing", "image", "network", "volume", "ports", "container", "grpc", "failed"}
Holding ==
    {"start", "nodes", "workload", "namespace", "pki", "apply", "rollout", "store", "ssh", "push", "ready", "meta"}

Certs == [SecretNames -> 0..MaxGen]
CtrRecs == [st : {"none", "stopped", "running"}, port : HostPorts \cup {0}]
MetaRecs == [there : BOOLEAN, port : HostPorts \cup {0}]
DepRecs ==
    [pc : DeployPcs, auto : BOOLEAN, recreate : BOOLEAN, resume : BOOLEAN, port : HostPorts \cup {0},
     rotated : BOOLEAN, hadWorkload : BOOLEAN, todo : SUBSET SecretNames]

DeployTypes ==
    /\ mode \in DeployModes /\ ctr \in CtrRecs /\ meta \in MetaRecs /\ dep \in DepRecs
    /\ volume \in BOOLEAN /\ sshKey \in BOOLEAN /\ workload \in BOOLEAN /\ active \in BOOLEAN
    /\ ghost \in BOOLEAN /\ cut \in BOOLEAN
    /\ secrets \in Certs /\ loaded \in Certs /\ bundle \in Certs /\ gen \in 0..MaxGen

PcOfMode(pc, mo) == (mo = "k3s" => pc \notin {"kind", "helm"}) /\ (mo = "kind" => pc # "push")
PortTrue(pc, port, me, c) ==
    /\ pc \in Settled /\ me.port # 0 /\ c.st # "none" => me.port = c.port
    /\ pc \in Holding /\ c.st # "none" => c.port = port
    /\ pc = "start" => c.st # "none"

DeployInv ==
    /\ DeployTypes /\ PcOfMode(dep.pc, mode)
    /\ mode = "k3s" /\ ~cut => PortTrue(dep.pc, dep.port, meta, ctr)

\* What follows a step in the order of its mode.
LEMMA Following ==
    ASSUME NEW q, Len(q) = 8, NEW k \in 1..7, NEW x, q[k] = x, \A j \in 1..8 : q[j] = x => j = k
    PROVE  q[(CHOOSE i \in 1..Len(q) : q[i] = x) + 1] = q[k + 1]
  <1>1. k \in 1..8
    OBVIOUS
  <1>2. (CHOOSE i \in 1..8 : q[i] = x) = k
    BY <1>1
  <1> QED BY <1>2

LEMMA AfterIs ==
    /\ mode = "k3s" =>
          /\ After("pki") = "rollout" /\ After("rollout") = "store" /\ After("store") = "ssh"
          /\ After("ssh") = "push" /\ After("push") = "ready" /\ After("ready") = "meta"
    /\ mode = "kind" =>
          /\ After("pki") = "store" /\ After("store") = "ssh" /\ After("ssh") = "helm"
          /\ After("helm") = "rollout" /\ After("rollout") = "ready" /\ After("ready") = "meta"
  <1> DEFINE q == Steps[mode]
  <1>1. CASE mode = "k3s"
    <2>1. q = <<"workload", "pki", "rollout", "store", "ssh", "push", "ready", "meta">>
      BY <1>1 DEF Steps
    <2>2. /\ Len(q) = 8 /\ q[1] = "workload" /\ q[2] = "pki" /\ q[3] = "rollout" /\ q[4] = "store" /\ q[5] = "ssh"
          /\ q[6] = "push" /\ q[7] = "ready" /\ q[8] = "meta"
      BY <2>1
    <2> HIDE DEF q

    <2>3. After("pki") = "rollout"
      <3>1. 2 \in 1..7 /\ 2 + 1 = 3 /\ \A j \in 1..8 : q[j] = "pki" => j = 2
        BY <2>2
      <3>2. q[(CHOOSE i \in 1..Len(q) : q[i] = "pki") + 1] = q[2 + 1]
        BY <2>2, <3>1, Following
      <3> QED BY <2>2, <3>1, <3>2 DEF After, q
    <2>4. After("rollout") = "store"
      <3>1. 3 \in 1..7 /\ 3 + 1 = 4 /\ \A j \in 1..8 : q[j] = "rollout" => j = 3
        BY <2>2
      <3>2. q[(CHOOSE i \in 1..Len(q) : q[i] = "rollout") + 1] = q[3 + 1]
        BY <2>2, <3>1, Following
      <3> QED BY <2>2, <3>1, <3>2 DEF After, q
    <2>5. After("store") = "ssh"
      <3>1. 4 \in 1..7 /\ 4 + 1 = 5 /\ \A j \in 1..8 : q[j] = "store" => j = 4
        BY <2>2
      <3>2. q[(CHOOSE i \in 1..Len(q) : q[i] = "store") + 1] = q[4 + 1]
        BY <2>2, <3>1, Following
      <3> QED BY <2>2, <3>1, <3>2 DEF After, q
    <2>6. After("ssh") = "push"
      <3>1. 5 \in 1..7 /\ 5 + 1 = 6 /\ \A j \in 1..8 : q[j] = "ssh" => j = 5
        BY <2>2
      <3>2. q[(CHOOSE i \in 1..Len(q) : q[i] = "ssh") + 1] = q[5 + 1]
        BY <2>2, <3>1, Following
      <3> QED BY <2>2, <3>1, <3>2 DEF After, q
    <2>7. After("push") = "ready"
      <3>1. 6 \in 1..7 /\ 6 + 1 = 7 /\ \A j \in 1..8 : q[j] = "push" => j = 6
        BY <2>2
      <3>2. q[(CHOOSE i \in 1..Len(q) : q[i] = "push") + 1] = q[6 + 1]
        BY <2>2, <3>1, Following
      <3> QED BY <2>2, <3>1, <3>2 DEF After, q
    <2>8. After("ready") = "meta"
      <3>1. 7 \in 1..7 /\ 7 + 1 = 8 /\ \A j \in 1..8 : q[j] = "ready" => j = 7
        BY <2>2
      <3>2. q[(CHOOSE i \in 1..Len(q) : q[i] = "ready") + 1] = q[7 + 1]
        BY <2>2, <3>1, Following
      <3> QED BY <2>2, <3>1, <3>2 DEF After, q
    <2> QED BY <1>1, <2>3, <2>4, <2>5, <2>6, <2>7, <2>8
  <1>2. CASE mode = "kind"
    <2>1. q = <<"workload", "pki", "store", "ssh", "helm", "rollout", "ready", "meta">>
      BY <1>2 DEF Steps
    <2>2. /\ Len(q) = 8 /\ q[1] = "workload" /\ q[2] = "pki" /\ q[3] = "store" /\ q[4] = "ssh" /\ q[5] = "helm"
          /\ q[6] = "rollout" /\ q[7] = "ready" /\ q[8] = "meta"
      BY <2>1
    <2> HIDE DEF q

    <2>3. After("pki") = "store"
      <3>1. 2 \in 1..7 /\ 2 + 1 = 3 /\ \A j \in 1..8 : q[j] = "pki" => j = 2
        BY <2>2
      <3>2. q[(CHOOSE i \in 1..Len(q) : q[i] = "pki") + 1] = q[2 + 1]
        BY <2>2, <3>1, Following
      <3> QED BY <2>2, <3>1, <3>2 DEF After, q
    <2>4. After("store") = "ssh"
      <3>1. 3 \in 1..7 /\ 3 + 1 = 4 /\ \A j \in 1..8 : q[j] = "store" => j = 3
        BY <2>2
      <3>2. q[(CHOOSE i \in 1..Len(q) : q[i] = "store") + 1] = q[3 + 1]
        BY <2>2, <3>1, Following
      <3> QED BY <2>2, <3>1, <3>2 DEF After, q
    <2>5. After("ssh") = "helm"
      <3>1. 4 \in 1..7 /\ 4 + 1 = 5 /\ \A j \in 1..8 : q[j] = "ssh" => j = 4
        BY <2>2
      <3>2. q[(CHOOSE i \in 1..Len(q) : q[i] = "ssh") + 1] = q[4 + 1]
        BY <2>2, <3>1, Following
      <3> QED BY <2>2, <3>1, <3>2 DEF After, q
    <2>6. After("helm") = "rollout"
      <3>1. 5 \in 1..7 /\ 5 + 1 = 6 /\ \A j \in 1..8 : q[j] = "helm" => j = 5
        BY <2>2
      <3>2. q[(CHOOSE i \in 1..Len(q) : q[i] = "helm") + 1] = q[5 + 1]
        BY <2>2, <3>1, Following
      <3> QED BY <2>2, <3>1, <3>2 DEF After, q
    <2>7. After("rollout") = "ready"
      <3>1. 6 \in 1..7 /\ 6 + 1 = 7 /\ \A j \in 1..8 : q[j] = "rollout" => j = 6
        BY <2>2
      <3>2. q[(CHOOSE i \in 1..Len(q) : q[i] = "rollout") + 1] = q[6 + 1]
        BY <2>2, <3>1, Following
      <3> QED BY <2>2, <3>1, <3>2 DEF After, q
    <2>8. After("ready") = "meta"
      <3>1. 7 \in 1..7 /\ 7 + 1 = 8 /\ \A j \in 1..8 : q[j] = "ready" => j = 7
        BY <2>2
      <3>2. q[(CHOOSE i \in 1..Len(q) : q[i] = "ready") + 1] = q[7 + 1]
        BY <2>2, <3>1, Following
      <3> QED BY <2>2, <3>1, <3>2 DEF After, q
    <2> QED BY <1>2, <2>3, <2>4, <2>5, <2>6, <2>7, <2>8
  <1> QED BY <1>1, <1>2

\* The deploy goes on, or gives up.
LEMMA DepGoes ==
    ASSUME DeployInv, NEW to \in DeployPcs, GoTo(to)
    PROVE  dep' \in DepRecs /\ dep'.pc = to /\ dep'.port = dep.port
  <1>1. dep \in DepRecs /\ dep' = [dep EXCEPT !.pc = to]
    BY DEF DeployInv, DeployTypes, GoTo
  <1> QED BY <1>1 DEF DepRecs

LEMMA DepIdle == NoDeploy \in DepRecs /\ NoDeploy.pc = "idle" /\ NoDeploy.port = 0
  <1>1. {} \in SUBSET SecretNames /\ "idle" \in DeployPcs
    BY DEF DeployPcs
  <1> QED BY <1>1 DEF NoDeploy, DepRecs

LEMMA DepAbandons ==
    ASSUME DeployInv, NEW to \in {"failed", "cleanup"}, Abandon(to)
    PROVE  dep' \in DepRecs /\ dep'.pc = to
  <1> DEFINE r == to = "cleanup" /\ dep.resume
             p == IF dep.auto THEN dep.port ELSE 0
  <1>1. dep \in DepRecs /\ dep' = [NoDeploy EXCEPT !.pc = to, !.auto = dep.auto, !.recreate = dep.recreate,
                                                   !.resume = r, !.port = p]
    BY DEF DeployInv, DeployTypes, Abandon
  <1>2. dep.auto \in BOOLEAN /\ dep.recreate \in BOOLEAN /\ dep.resume \in BOOLEAN /\ dep.port \in HostPorts \cup {0}
    BY <1>1 DEF DepRecs
  <1>3. r \in BOOLEAN /\ p \in HostPorts \cup {0} /\ to \in DeployPcs
    BY <1>2 DEF DeployPcs
  <1> HIDE DEF r, p
  <1> QED BY <1>1, <1>2, <1>3, DepIdle DEF DepRecs

LEMMA FailsEarly ==
    ASSUME DeployInv, FailEarly
    PROVE  dep' \in DepRecs /\ dep'.pc = "failed"
  BY DepAbandons DEF FailEarly

LEMMA FailsLate ==
    ASSUME DeployInv, FailLate
    PROVE  dep' \in DepRecs /\ (mode = "k3s" => dep'.pc = "cleanup") /\ (mode = "kind" => dep'.pc = "failed")
  <1> DEFINE t == IF mode = "kind" THEN "failed" ELSE "cleanup"
  <1>1. Abandon(t) /\ t \in {"failed", "cleanup"}
    BY DEF FailLate
  <1>2. dep' \in DepRecs /\ dep'.pc = t
    <2> HIDE DEF t
    <2> QED BY <1>1, DepAbandons
  <1> QED BY <1>2

\* A step that touches only the deploy.
LEMMA DepMoves ==
    ASSUME DeployInv, UNCHANGED <<mode, cluster, onDisk>>, dep' \in DepRecs, PcOfMode(dep'.pc, mode),
           mode = "k3s" /\ ~cut => PortTrue(dep'.pc, dep'.port, meta, ctr)
    PROVE  DeployInv'
  <1>1. DeployTypes'
    BY DEF DeployInv, DeployTypes, cluster, onDisk
  <1>2. PcOfMode(dep'.pc, mode') /\ (mode' = "k3s" /\ ~cut' => PortTrue(dep'.pc, dep'.port, meta', ctr'))
    BY DEF cluster, onDisk
  <1> QED BY <1>1, <1>2 DEF DeployInv

LEMMA DeployValues ==
    ASSUME DeployInv
    PROVE  /\ NoCerts \in Certs /\ Mounted \in Certs /\ NoCtr \in CtrRecs /\ NoCtr.st = "none"
           /\ NoMeta \in MetaRecs /\ NoMeta.port = 0
           /\ mode = "k3s" \/ mode = "kind"
  <1>1. 0 \in 0..MaxGen /\ (mode = "k3s" \/ mode = "kind") /\ secrets \in Certs
    BY DeployAssumption DEF DeployInv, DeployTypes
  <1>2. NoCerts \in Certs
    BY <1>1 DEF NoCerts, Certs
  <1>3. Mounted \in Certs
    BY <1>1 DEF Mounted, Certs
  <1> QED BY <1>1, <1>2, <1>3 DEF NoCtr, CtrRecs, NoMeta, MetaRecs

\* What happens outside a deploy: commands without one, and the cluster by itself.
LEMMA OutsideDeploy ==
    ASSUME DeployInv,
           \/ GatewayStop \/ GatewayDestroy \/ GatewayAdd \/ GatewayUse
           \/ HelmInstalls \/ PodStarts \/ PodStops \/ ContainerDies \/ SecretLost
    PROVE  DeployInv'
  <1>1. DeployTypes /\ PcOfMode(dep.pc, mode) /\ (mode = "k3s" /\ ~cut => PortTrue(dep.pc, dep.port, meta, ctr))
    BY DEF DeployInv
  <1>2. ctr \in CtrRecs /\ meta \in MetaRecs /\ secrets \in Certs
    BY <1>1 DEF DeployTypes
  <1>3. ASSUME ctr.st # "none", ctr' = [ctr EXCEPT !.st = "stopped"], loaded' = NoCerts,
               UNCHANGED <<mode, ghost, volume, secrets, sshKey, workload, gen, onDisk, dep>>
        PROVE  DeployInv'
    <2>1. ctr' \in CtrRecs /\ ctr'.port = ctr.port
      BY <1>2, <1>3 DEF CtrRecs
    <2>2. DeployTypes'
      BY <1>1, <1>3, <2>1, DeployValues DEF DeployTypes, onDisk
    <2>3. PcOfMode(dep'.pc, mode') /\ (mode' = "k3s" /\ ~cut' => PortTrue(dep'.pc, dep'.port, meta', ctr'))
      BY <1>1, <1>3, <2>1 DEF PortTrue, onDisk
    <2> QED BY <2>2, <2>3 DEF DeployInv
  <1>4. CASE GatewayStop
    BY <1>3, <1>4 DEF GatewayStop, Running
  <1>5. CASE ContainerDies
    BY <1>3, <1>5 DEF ContainerDies, Running
  <1>6. ASSUME UNCHANGED <<mode, ctr, meta, cut, dep>>, DeployTypes'
        PROVE  DeployInv'
    <2>1. PcOfMode(dep'.pc, mode') /\ (mode' = "k3s" /\ ~cut' => PortTrue(dep'.pc, dep'.port, meta', ctr'))
      BY <1>1, <1>6
    <2> QED BY <1>6, <2>1 DEF DeployInv
  <1>7. CASE GatewayUse
    <2>1. DeployTypes' /\ UNCHANGED <<mode, ctr, meta, cut, dep>>
      BY <1>1, <1>7 DEF GatewayUse, DeployTypes, cluster
    <2> QED BY <1>6, <2>1
  <1>8. CASE HelmInstalls
    <2>1. DeployTypes' /\ UNCHANGED <<mode, ctr, meta, cut, dep>>
      BY <1>1, <1>8 DEF HelmInstalls, DeployTypes, onDisk
    <2> QED BY <1>6, <2>1
  <1>9. CASE PodStarts
    <2>1. DeployTypes' /\ UNCHANGED <<mode, ctr, meta, cut, dep>>
      BY <1>1, <1>9, DeployValues DEF PodStarts, DeployTypes, onDisk
    <2> QED BY <1>6, <2>1
  <1>10. CASE PodStops
    <2>1. DeployTypes' /\ UNCHANGED <<mode, ctr, meta, cut, dep>>
      BY <1>1, <1>10, DeployValues DEF PodStops, DeployTypes, onDisk
    <2> QED BY <1>6, <2>1
  <1>11. CASE SecretLost
    <2>1. PICK s \in SecretNames : secrets' = [secrets EXCEPT ![s] = 0]
      BY <1>11 DEF SecretLost
    <2>2. secrets' \in Certs
      BY <1>2, <2>1, DeployAssumption DEF Certs
    <2>3. DeployTypes' /\ UNCHANGED <<mode, ctr, meta, cut, dep>>
      BY <1>1, <1>11, <2>2 DEF SecretLost, DeployTypes, onDisk
    <2> QED BY <1>6, <2>3
  <1>12. CASE GatewayDestroy
    <2>1. DeployTypes'
      BY <1>1, <1>12, DeployValues DEF GatewayDestroy, DestroyResources, DeployTypes
    <2>2. meta' = NoMeta /\ ctr' = NoCtr /\ dep' = dep /\ mode' = mode /\ dep.pc = "idle"
      BY <1>12 DEF GatewayDestroy, DestroyResources
    <2>3. PcOfMode(dep'.pc, mode') /\ (mode' = "k3s" /\ ~cut' => PortTrue(dep'.pc, dep'.port, meta', ctr'))
      BY <1>1, <2>2, DeployValues DEF PortTrue
    <2> QED BY <2>1, <2>3 DEF DeployInv
  <1>13. CASE GatewayAdd
    <2>1. meta' = [there |-> TRUE, port |-> 0]
      BY <1>13 DEF GatewayAdd, NoMeta
    <2>2. meta' \in MetaRecs /\ meta'.port = 0
      BY <2>1 DEF MetaRecs
    <2>3. UNCHANGED <<mode, ctr, cut, dep>> /\ dep.pc = "idle"
      BY <1>13 DEF GatewayAdd, cluster
    <2>4. DeployTypes'
      BY <1>1, <1>13, <2>2 DEF GatewayAdd, DeployTypes, cluster
    <2>5. PcOfMode(dep'.pc, mode') /\ (mode' = "k3s" /\ ~cut' => PortTrue(dep'.pc, dep'.port, meta', ctr'))
      BY <1>1, <2>2, <2>3 DEF PortTrue, Holding
    <2> QED BY <2>4, <2>5 DEF DeployInv
  <1> QED BY <1>4, <1>5, <1>7, <1>8, <1>9, <1>10, <1>11, <1>12, <1>13

\* The steps of a deploy that change nothing but the deploy.
LEMMA DeployGoesOn ==
    ASSUME DeployInv,
           \/ GatewayStart \/ AutoBootstrap \/ EnsureImage \/ EnsureNetwork \/ CheckPortConflicts
           \/ CheckWorkload \/ WaitForNamespace \/ WaitReady \/ DeployFails
    PROVE  DeployInv'
  <1>1. /\ DeployTypes /\ PcOfMode(dep.pc, mode) /\ (mode = "k3s" /\ ~cut => PortTrue(dep.pc, dep.port, meta, ctr))
        /\ dep \in DepRecs /\ meta \in MetaRecs /\ (mode = "k3s" \/ mode = "kind")
    BY DeployValues DEF DeployInv, DeployTypes
  <1>2. CASE GatewayStart
    <2>1. PICK recreate \in BOOLEAN, port \in HostPorts :
             dep' = IF mode = "k3s" /\ ~recreate /\ Running THEN NoDeploy
                    ELSE [NoDeploy EXCEPT !.pc = IF mode = "kind" THEN "kind" ELSE "existing",
                                          !.recreate = recreate,
                                          !.port = IF ~recreate /\ meta.port # 0 THEN meta.port ELSE port]
      BY <1>2 DEF GatewayStart
    <2> DEFINE t == IF mode = "kind" THEN "kind" ELSE "existing"
               p == IF ~recreate /\ meta.port # 0 THEN meta.port ELSE port
    <2>2. /\ t \in DeployPcs /\ PcOfMode(t, mode) /\ (mode = "k3s" => t = "existing")
          /\ p \in HostPorts \cup {0}
      BY <1>1 DEF PcOfMode, DeployPcs, MetaRecs
    <2>3. dep' = NoDeploy \/ dep' = [NoDeploy EXCEPT !.pc = t, !.recreate = recreate, !.port = p]
      BY <2>1
    <2> HIDE DEF t, p
    <2>4. dep' \in DepRecs /\ (dep'.pc = "idle" \/ dep'.pc = t)
      BY <2>2, <2>3, DepIdle DEF DepRecs
    <2>5. PcOfMode(dep'.pc, mode) /\ (mode = "k3s" => dep'.pc \in {"idle", "existing"})
      BY <2>2, <2>4 DEF PcOfMode, DeployPcs
    <2>6. dep.pc = "idle" /\ UNCHANGED <<mode, cluster, onDisk>>
      BY <1>2 DEF GatewayStart
    <2>7. mode = "k3s" /\ ~cut => PortTrue(dep'.pc, dep'.port, meta, ctr)
      BY <1>1, <2>5, <2>6 DEF PortTrue, Settled, Holding
    <2> QED BY <2>4, <2>5, <2>6, <2>7, DepMoves
  <1>3. CASE AutoBootstrap
    <2>1. /\ dep.pc = "idle" /\ mode = "k3s" /\ UNCHANGED <<mode, cluster, onDisk>>
          /\ dep' = [NoDeploy EXCEPT !.pc = "existing", !.auto = TRUE, !.port = DefaultPort]
      BY <1>3 DEF AutoBootstrap
    <2>2. DefaultPort \in HostPorts
      BY DeployAssumption DEF DefaultPort
    <2>3. dep' \in DepRecs /\ dep'.pc = "existing"
      BY <2>1, <2>2, DepIdle DEF DepRecs, DeployPcs
    <2>4. PcOfMode(dep'.pc, mode) /\ (mode = "k3s" /\ ~cut => PortTrue(dep'.pc, dep'.port, meta, ctr))
      BY <1>1, <2>1, <2>3 DEF PortTrue, Settled, Holding, PcOfMode, DeployPcs
    <2> QED BY <2>1, <2>3, <2>4, DepMoves
  <1>4. ASSUME NEW from, NEW to, dep.pc = from, GoTo(to), UNCHANGED <<mode, cluster, onDisk>>,
               PcOfMode(from, mode) => PcOfMode(to, mode),
               (from \in Settled /\ to \in Settled) \/ (from \in Holding /\ to \in Holding \ {"start"})
        PROVE  DeployInv'
    <2>1. PcOfMode(to, mode) /\ to \in DeployPcs
      BY <1>1, <1>4 DEF PcOfMode, Settled, Holding, DeployPcs
    <2>2. dep' \in DepRecs /\ dep'.pc = to /\ dep'.port = dep.port
      BY <1>4, <2>1, DepGoes
    <2>3. mode = "k3s" /\ ~cut => PortTrue(to, dep.port, meta, ctr)
      BY <1>1, <1>4 DEF PortTrue, Settled, Holding
    <2> QED BY <1>4, <2>1, <2>2, <2>3, DepMoves
  <1>5. ASSUME FailEarly, UNCHANGED <<mode, cluster, onDisk>>, dep.pc \in Settled
        PROVE  DeployInv'
    <2>1. dep' \in DepRecs /\ dep'.pc = "failed"
      BY <1>5, FailsEarly
    <2>2. PcOfMode(dep'.pc, mode) /\ (mode = "k3s" /\ ~cut => PortTrue(dep'.pc, dep'.port, meta, ctr))
      BY <1>1, <1>5, <2>1 DEF PortTrue, Settled, Holding, PcOfMode, DeployPcs
    <2> QED BY <1>5, <2>1, <2>2, DepMoves
  <1>6. ASSUME FailLate, UNCHANGED <<mode, cluster, onDisk>>
        PROVE  DeployInv'
    <2>1. /\ dep' \in DepRecs /\ (mode = "k3s" => dep'.pc = "cleanup") /\ (mode = "kind" => dep'.pc = "failed")
      BY <1>6, FailsLate
    <2>2. PcOfMode(dep'.pc, mode) /\ (mode = "k3s" /\ ~cut => PortTrue(dep'.pc, dep'.port, meta, ctr))
      BY <1>1, <2>1 DEF PortTrue, Settled, Holding, PcOfMode, DeployPcs
    <2> QED BY <1>6, <2>1, <2>2, DepMoves
  <1>7. CASE EnsureImage
    BY <1>4, <1>5, <1>7 DEF EnsureImage, AtStep, Settled, PcOfMode, DeployPcs
  <1>8. CASE EnsureNetwork
    BY <1>4, <1>5, <1>8 DEF EnsureNetwork, AtStep, Settled, PcOfMode, DeployPcs
  <1>9. CASE CheckPortConflicts
    BY <1>4, <1>5, <1>9 DEF CheckPortConflicts, AtStep, Settled, PcOfMode, DeployPcs
  <1>10. CASE WaitForNamespace
    BY <1>4, <1>6, <1>10 DEF WaitForNamespace, AtStep, Holding, PcOfMode, DeployPcs
  <1>11. CASE WaitReady
    <2>1. After("ready") = "meta"
      BY <1>1, AfterIs
    <2> QED BY <1>4, <1>6, <1>11, <2>1 DEF WaitReady, AtStep, Holding, PcOfMode, DeployPcs
  <1>12. CASE CheckWorkload
    <2>1. dep.pc = "workload" /\ UNCHANGED <<mode, cluster, onDisk>>
      BY <1>12 DEF CheckWorkload, AtStep
    <2>2. PICK answered \in BOOLEAN : dep' = [dep EXCEPT !.pc = "namespace", !.hadWorkload = workload /\ answered]
      BY <1>12 DEF CheckWorkload
    <2>3. dep' \in DepRecs /\ dep'.pc = "namespace" /\ dep'.port = dep.port
      BY <1>1, <2>2 DEF DepRecs, DeployPcs
    <2>4. PcOfMode(dep'.pc, mode) /\ (mode = "k3s" /\ ~cut => PortTrue(dep'.pc, dep'.port, meta, ctr))
      BY <1>1, <2>1, <2>3 DEF PortTrue, Settled, Holding, PcOfMode, DeployPcs
    <2> QED BY <2>1, <2>3, <2>4, DepMoves
  <1>13. CASE DeployFails
    <2> DEFINE e == [NoDeploy EXCEPT !.pc = "existing", !.auto = TRUE, !.recreate = TRUE, !.port = dep.port]
    <2>1. dep.pc = "failed" /\ UNCHANGED <<mode, cluster, onDisk>> /\ (dep' = NoDeploy \/ dep' = e)
      BY <1>13 DEF DeployFails, AtStep
    <2>2. dep.port \in HostPorts \cup {0}
      BY <1>1 DEF DepRecs
    <2>3. dep' \in DepRecs /\ dep'.pc \in {"idle", "existing"}
      BY <2>1, <2>2, DepIdle DEF DepRecs, DeployPcs
    <2>4. PcOfMode(dep'.pc, mode) /\ (mode = "k3s" /\ ~cut => PortTrue(dep'.pc, dep'.port, meta, ctr))
      BY <1>1, <2>1, <2>3 DEF PortTrue, Settled, Holding, PcOfMode
    <2> QED BY <2>1, <2>3, <2>4, DepMoves
  <1> QED BY <1>2, <1>3, <1>7, <1>8, <1>9, <1>10, <1>11, <1>12, <1>13

\* A step of a deploy that leaves the container and the registration alone.
LEMMA DepWorks ==
    ASSUME DeployInv, DeployTypes', UNCHANGED <<mode, ctr, meta, cut>>, PcOfMode(dep'.pc, mode),
           \/ dep.pc \in Settled /\ dep'.pc \in Settled
           \/ dep.pc \in Holding /\ dep'.pc \in Holding \ {"start"} /\ dep'.port = dep.port
           \/ mode = "k3s" /\ dep'.pc = "cleanup"
           \/ mode = "kind"
    PROVE  DeployInv'
  <1>1. mode = "k3s" /\ ~cut => PortTrue(dep.pc, dep.port, meta, ctr)
    BY DEF DeployInv
  <1>2. mode = "k3s" /\ ~cut => PortTrue(dep'.pc, dep'.port, meta, ctr)
    BY <1>1 DEF PortTrue, Settled, Holding
  <1>3. PcOfMode(dep'.pc, mode') /\ (mode' = "k3s" /\ ~cut' => PortTrue(dep'.pc, dep'.port, meta', ctr'))
    BY <1>2
  <1> QED BY <1>3 DEF DeployInv

\* The steps from the running container to the registration that change the cluster.
LEMMA ClusterChanges ==
    ASSUME DeployInv,
           \/ EnsureVolume \/ CleanStaleNodes \/ ReconcilePki \/ ApplySecret \/ Rollout \/ StorePkiBundle
           \/ ReconcileSshSecret \/ PushImages \/ DeployHelm
    PROVE  DeployInv'
  <1>1. /\ DeployTypes /\ PcOfMode(dep.pc, mode) /\ dep \in DepRecs /\ (mode = "k3s" \/ mode = "kind")
        /\ gen \in 0..MaxGen /\ secrets \in Certs
    BY DeployValues DEF DeployInv, DeployTypes
  <1>2. NoCerts \in Certs /\ Mounted \in Certs
    BY DeployValues
  <1>3. ASSUME NEW to, GoTo(to), to \in Settled \cup Holding \/ to = "helm"
        PROVE  dep' \in DepRecs /\ dep'.pc = to /\ dep'.port = dep.port
    <2>1. to \in DeployPcs
      BY <1>3 DEF Settled, Holding, DeployPcs
    <2> QED BY <1>3, <2>1, DepGoes
  <1>4. ASSUME FailLate
        PROVE  /\ dep' \in DepRecs /\ PcOfMode(dep'.pc, mode)
               /\ (mode = "k3s" /\ dep'.pc = "cleanup") \/ mode = "kind"
    BY <1>1, <1>4, FailsLate DEF PcOfMode
  <1>5. CASE EnsureVolume
    <2>1. dep.pc = "volume" /\ UNCHANGED <<mode, ghost, ctr, secrets, sshKey, workload, loaded, gen, onDisk>>
      BY <1>5 DEF EnsureVolume, AtStep
    <2>2. dep' \in DepRecs /\ dep'.pc \in {"ports", "failed"} /\ (volume' = TRUE \/ volume' = volume)
      BY <1>3, <1>5, FailsEarly DEF EnsureVolume, Settled
    <2>3. DeployTypes'
      BY <1>1, <2>1, <2>2 DEF DeployTypes, onDisk
    <2>4. PcOfMode(dep'.pc, mode) /\ dep.pc \in Settled /\ dep'.pc \in Settled
      BY <2>1, <2>2 DEF PcOfMode, Settled
    <2>5. UNCHANGED <<mode, ctr, meta, cut>>
      BY <2>1 DEF onDisk
    <2> QED BY <2>3, <2>4, <2>5, DepWorks
  <1>6. CASE CleanStaleNodes
    <2>1. /\ dep.pc = "nodes" /\ UNCHANGED <<mode, ctr, volume, secrets, sshKey, workload, loaded, gen, onDisk>>
          /\ (ghost' = ghost \/ ghost' = FALSE) /\ GoTo("workload")
      BY <1>6 DEF CleanStaleNodes, AtStep
    <2>2. dep' \in DepRecs /\ dep'.pc = "workload" /\ dep'.port = dep.port
      BY <1>3, <2>1 DEF Holding
    <2>3. DeployTypes'
      BY <1>1, <2>1, <2>2 DEF DeployTypes, onDisk
    <2>4. PcOfMode(dep'.pc, mode) /\ dep.pc \in Holding /\ dep'.pc \in Holding \ {"start"}
      BY <2>1, <2>2 DEF PcOfMode, Holding
    <2>5. UNCHANGED <<mode, ctr, meta, cut>>
      BY <2>1 DEF onDisk
    <2> QED BY <2>2, <2>3, <2>4, <2>5, DepWorks
  <1>7. CASE ReconcilePki
    <2>1. dep.pc = "pki" /\ UNCHANGED <<mode, ctr, volume, secrets, sshKey, workload, loaded, ghost, onDisk>>
      BY <1>7 DEF ReconcilePki, AtStep
    <2>2. After("pki") \in {"rollout", "store"}
      BY <1>1, AfterIs
    <2>3. dep' \in DepRecs /\ dep'.pc \in {"rollout", "store", "apply"} /\ dep'.port = dep.port /\ gen' \in 0..MaxGen
      <3>1. CASE Complete(secrets)
        BY <1>1, <1>3, <1>7, <2>2, <3>1 DEF ReconcilePki, Holding
      <3>2. CASE ~Complete(secrets)
        <4>1. /\ gen < MaxGen /\ gen' = gen + 1
              /\ dep' = [dep EXCEPT !.pc = "apply", !.todo = SecretNames, !.rotated = TRUE]
          BY <1>7, <3>2 DEF ReconcilePki, GeneratePki
        <4>2. dep' \in DepRecs /\ dep'.pc = "apply" /\ dep'.port = dep.port
          BY <1>1, <4>1 DEF DepRecs, DeployPcs
        <4>3. gen' \in 0..MaxGen
          BY <1>1, <4>1, DeployAssumption
        <4> QED BY <4>2, <4>3
      <3> QED BY <3>1, <3>2
    <2>4. DeployTypes'
      BY <1>1, <2>1, <2>3 DEF DeployTypes, onDisk
    <2>5. PcOfMode(dep'.pc, mode) /\ dep.pc \in Holding /\ dep'.pc \in Holding \ {"start"}
      BY <2>1, <2>3 DEF PcOfMode, Holding
    <2>6. UNCHANGED <<mode, ctr, meta, cut>>
      BY <2>1 DEF onDisk
    <2> QED BY <2>3, <2>4, <2>5, <2>6, DepWorks
  <1>8. CASE ApplySecret
    <2> DEFINE s == IF "server" \in dep.todo THEN "server" ELSE IF "ca" \in dep.todo THEN "ca" ELSE "client"
               t == IF dep.todo = {s} THEN After("pki") ELSE "apply"
    <2>1. dep.pc = "apply" /\ UNCHANGED <<mode, ghost, ctr, volume, sshKey, workload, loaded, gen, onDisk>>
      BY <1>8 DEF ApplySecret, AtStep
    <2>2. UNCHANGED <<mode, ctr, meta, cut>>
      BY <2>1 DEF onDisk
    <2>3. s \in SecretNames
      BY DEF SecretNames
    <2>4. \/ secrets' = [secrets EXCEPT ![s] = gen] /\ dep' = [dep EXCEPT !.todo = dep.todo \ {s}, !.pc = t]
          \/ secrets' = secrets /\ FailLate
      BY <1>8 DEF ApplySecret
    <2>5. t \in {"rollout", "store", "apply"}
      BY <1>1, AfterIs
    <2> HIDE DEF s, t
    <2>6. secrets' \in Certs
      BY <1>1, <2>3, <2>4 DEF Certs
    <2>7. CASE secrets' = secrets /\ FailLate
      <3>1. DeployTypes'
        BY <1>1, <1>4, <2>1, <2>6, <2>7 DEF DeployTypes, onDisk
      <3> QED BY <1>4, <2>2, <2>7, <3>1, DepWorks
    <2>8. CASE dep' = [dep EXCEPT !.todo = dep.todo \ {s}, !.pc = t]
      <3>1. dep.todo \ {s} \in SUBSET SecretNames
        BY <1>1 DEF DepRecs
      <3>2. dep' \in DepRecs /\ dep'.pc = t /\ dep'.port = dep.port
        BY <1>1, <2>5, <2>8, <3>1 DEF DepRecs, DeployPcs
      <3>3. DeployTypes'
        BY <1>1, <2>1, <2>6, <3>2 DEF DeployTypes, onDisk
      <3>4. PcOfMode(dep'.pc, mode) /\ dep.pc \in Holding /\ dep'.pc \in Holding \ {"start"}
        BY <2>1, <2>5, <3>2 DEF PcOfMode, Holding
      <3> QED BY <2>2, <3>2, <3>3, <3>4, DepWorks
    <2> QED BY <2>4, <2>7, <2>8
  <1>9. CASE Rollout
    <2>1. dep.pc = "rollout" /\ UNCHANGED <<mode, ghost, ctr, volume, secrets, sshKey, workload, gen, onDisk>>
      BY <1>9 DEF Rollout, AtStep
    <2>2. UNCHANGED <<mode, ctr, meta, cut>>
      BY <2>1 DEF onDisk
    <2>3. (loaded' = Mounted \/ loaded' = loaded) /\ (PastRollout \/ FailLate)
      BY <1>9 DEF Rollout, RestartDeployment
    <2>4. loaded' \in Certs
      BY <1>1, <1>2, <2>3 DEF DeployTypes
    <2>5. CASE FailLate
      <3>1. DeployTypes'
        BY <1>1, <1>4, <2>1, <2>4, <2>5 DEF DeployTypes, onDisk
      <3> QED BY <1>4, <2>2, <2>5, <3>1, DepWorks
    <2>6. CASE PastRollout
      <3> DEFINE t == After("rollout")
      <3>1. t \in {"store", "ready"}
        BY <1>1, AfterIs
      <3>2. dep' = [dep EXCEPT !.pc = t, !.rotated = FALSE, !.hadWorkload = FALSE]
        BY <2>6 DEF PastRollout
      <3> HIDE DEF t
      <3>3. dep' \in DepRecs /\ dep'.pc = t /\ dep'.port = dep.port
        BY <1>1, <3>1, <3>2 DEF DepRecs, DeployPcs
      <3>4. DeployTypes'
        BY <1>1, <2>1, <2>4, <3>3 DEF DeployTypes, onDisk
      <3>5. PcOfMode(dep'.pc, mode) /\ dep.pc \in Holding /\ dep'.pc \in Holding \ {"start"}
        BY <2>1, <3>1, <3>3 DEF PcOfMode, Holding
      <3> QED BY <2>2, <3>3, <3>4, <3>5, DepWorks
    <2> QED BY <2>3, <2>5, <2>6
  <1>10. ASSUME NEW from, NEW to, dep.pc = from, from \in Holding \/ mode = "kind", GoTo(to) \/ FailLate,
                to \in Holding \ {"start"} \/ (to = "helm" /\ mode = "kind"), to # "push" \/ mode = "k3s",
                UNCHANGED <<mode, ghost, ctr, volume, secrets, gen, meta, active, cut>>,
                sshKey' \in BOOLEAN, workload' \in BOOLEAN, loaded' \in Certs, bundle' \in Certs
         PROVE  DeployInv'
    <2>1. CASE FailLate
      <3>1. DeployTypes'
        BY <1>1, <1>4, <1>10, <2>1 DEF DeployTypes
      <3> QED BY <1>4, <1>10, <2>1, <3>1, DepWorks
    <2>2. CASE GoTo(to)
      <3>1. dep' \in DepRecs /\ dep'.pc = to /\ dep'.port = dep.port
        BY <1>3, <1>10, <2>2
      <3>2. DeployTypes'
        BY <1>1, <1>10, <3>1 DEF DeployTypes
      <3>3. PcOfMode(dep'.pc, mode)
        BY <1>1, <1>10, <3>1 DEF PcOfMode, Holding
      <3>4. (dep.pc \in Holding /\ dep'.pc \in Holding \ {"start"}) \/ mode = "kind"
        BY <1>10, <3>1
      <3> QED BY <1>10, <3>1, <3>2, <3>3, <3>4, DepWorks
    <2> QED BY <1>10, <2>1, <2>2
  <1>11. /\ sshKey \in BOOLEAN /\ workload \in BOOLEAN /\ loaded \in Certs /\ bundle \in Certs
    BY <1>1 DEF DeployTypes
  <1>12. CASE StorePkiBundle
    <2>1. /\ dep.pc = "store" /\ UNCHANGED <<mode, ghost, ctr, volume, secrets, gen, meta, active, cut>>
          /\ sshKey' = sshKey /\ workload' = workload /\ loaded' = loaded
          /\ (bundle' = secrets \/ bundle' = bundle) /\ (GoTo(After("store")) \/ FailLate)
      BY <1>12 DEF StorePkiBundle, AtStep, cluster
    <2>2. After("store") = "ssh" /\ "ssh" \in Holding /\ "store" \in Holding /\ "ssh" # "push"
      BY <1>1, AfterIs DEF Holding
    <2> QED BY <1>1, <1>10, <1>11, <2>1, <2>2
  <1>13. CASE ReconcileSshSecret
    <2>1. /\ dep.pc = "ssh" /\ UNCHANGED <<mode, ghost, ctr, volume, secrets, gen, meta, active, cut>>
          /\ (sshKey' = TRUE \/ sshKey' = sshKey) /\ workload' = workload /\ loaded' = loaded
          /\ bundle' = bundle /\ (GoTo(After("ssh")) \/ FailLate)
      BY <1>13 DEF ReconcileSshSecret, AtStep, onDisk
    <2> DEFINE t == After("ssh")
    <2>2. /\ (t \in Holding \ {"start"} \/ (t = "helm" /\ mode = "kind")) /\ (t # "push" \/ mode = "k3s") /\ "ssh" \in Holding
      BY <1>1, AfterIs DEF Holding
    <2>3. sshKey' \in BOOLEAN
      BY <1>11, <2>1
    <2> HIDE DEF t
    <2>4. GoTo(t) \/ FailLate
      BY <2>1 DEF t
    <2> QED BY <1>10, <1>11, <2>1, <2>2, <2>3, <2>4
  <1>14. CASE PushImages
    <2>1. /\ dep.pc = "push" /\ UNCHANGED <<mode, ghost, ctr, volume, secrets, gen, meta, active, cut>>
          /\ sshKey' = sshKey /\ workload' = workload /\ (loaded' = Mounted \/ loaded' = loaded)
          /\ bundle' = bundle /\ (GoTo(After("push")) \/ FailLate)
      BY <1>14 DEF PushImages, AtStep, onDisk, RestartDeployment
    <2>2. mode = "k3s"
      BY <1>1, <2>1 DEF PcOfMode
    <2>3. After("push") = "ready" /\ "ready" \in Holding /\ "push" \in Holding /\ "ready" # "push"
      BY <2>2, AfterIs DEF Holding
    <2> QED BY <1>2, <1>10, <1>11, <2>1, <2>3
  <1>15. CASE DeployHelm
    <2>1. /\ dep.pc = "helm" /\ UNCHANGED <<mode, ghost, ctr, volume, secrets, gen, meta, active, cut>>
          /\ sshKey' = sshKey /\ (workload' = TRUE \/ workload' = workload) /\ loaded' = loaded
          /\ bundle' = bundle /\ (GoTo(After("helm")) \/ FailLate)
      BY <1>15 DEF DeployHelm, AtStep, onDisk
    <2>2. mode = "kind"
      BY <1>1, <2>1 DEF PcOfMode
    <2>3. After("helm") = "rollout" /\ "rollout" \in Holding /\ "rollout" # "push"
      BY <2>2, AfterIs DEF Holding
    <2>4. workload' \in BOOLEAN
      BY <1>11, <2>1
    <2> QED BY <1>10, <1>11, <2>1, <2>2, <2>3, <2>4
  <1> QED BY <1>5, <1>6, <1>7, <1>8, <1>9, <1>12, <1>13, <1>14, <1>15

\* The steps that make, start or remove the container, or register it.
LEMMA ContainerChanges ==
    ASSUME DeployInv,
           \/ CheckExisting \/ EnsureContainer \/ StartContainer \/ EnsureKindCluster \/ StoreMetadata \/ WaitGrpc
           \/ CleanUp \/ CliStops
    PROVE  DeployInv'
  <1>1. /\ DeployTypes /\ PcOfMode(dep.pc, mode) /\ dep \in DepRecs /\ (mode = "k3s" \/ mode = "kind")
        /\ ctr \in CtrRecs /\ meta \in MetaRecs
        /\ (mode = "k3s" /\ ~cut => PortTrue(dep.pc, dep.port, meta, ctr))
    BY DeployValues DEF DeployInv, DeployTypes
  <1>2. ASSUME FailLate
        PROVE  /\ dep' \in DepRecs /\ PcOfMode(dep'.pc, mode)
               /\ (mode = "k3s" /\ dep'.pc = "cleanup") \/ mode = "kind"
    BY <1>1, <1>2, FailsLate DEF PcOfMode
  <1>3. CASE CheckExisting
    <2>1. CASE dep.recreate
      <3>1. /\ dep.pc = "existing" /\ GoTo("image") /\ UNCHANGED <<mode, gen, onDisk>> /\ ctr' = NoCtr
        BY <1>3, <2>1 DEF CheckExisting, AtStep, DestroyResources
      <3>2. dep' \in DepRecs /\ dep'.pc = "image" /\ "image" \in DeployPcs
        BY <3>1, DepGoes DEF DeployPcs
      <3>3. DeployTypes'
        BY <1>1, <1>3, <2>1, <3>1, <3>2, DeployValues DEF CheckExisting, DestroyResources, DeployTypes, onDisk
      <3>4. PcOfMode(dep'.pc, mode') /\ (mode' = "k3s" /\ ~cut' => PortTrue(dep'.pc, dep'.port, meta', ctr'))
        BY <3>1, <3>2, DeployValues DEF PcOfMode, PortTrue
      <3> QED BY <3>3, <3>4 DEF DeployInv
    <2>2. CASE ~dep.recreate
      <3> DEFINE r == volume \/ ctr.st # "none"
      <3>1. /\ dep.pc = "existing" /\ UNCHANGED <<mode, cluster, onDisk>>
            /\ dep' = [dep EXCEPT !.pc = "image", !.resume = r]
        BY <1>3, <2>2 DEF CheckExisting, AtStep
      <3>2. r \in BOOLEAN
        OBVIOUS
      <3> HIDE DEF r
      <3>3. dep' \in DepRecs /\ dep'.pc = "image"
        BY <1>1, <3>1, <3>2 DEF DepRecs, DeployPcs
      <3>4. PcOfMode(dep'.pc, mode) /\ (mode = "k3s" /\ ~cut => PortTrue(dep'.pc, dep'.port, meta, ctr))
        BY <1>1, <3>1, <3>3 DEF PcOfMode, PortTrue, Settled, Holding
      <3> QED BY <3>1, <3>3, <3>4, DepMoves
    <2> QED BY <2>1, <2>2
  <1>4. CASE EnsureContainer
    <2>1. dep.pc = "container" /\ UNCHANGED <<mode, volume, secrets, sshKey, workload, loaded, gen, onDisk>>
      BY <1>4 DEF EnsureContainer, AtStep
    <2>2. CASE FailLate /\ UNCHANGED <<ctr, ghost>>
      <3>1. DeployTypes' /\ UNCHANGED <<mode, ctr, meta, cut>>
        BY <1>1, <1>2, <2>1, <2>2 DEF DeployTypes, onDisk
      <3> QED BY <1>2, <2>2, <3>1, DepWorks
    <2>3. CASE ~(FailLate /\ UNCHANGED <<ctr, ghost>>)
      <3> DEFINE n == NewContainer(dep.port)
                 g == ghost \/ (ctr.st = "none" /\ workload)
      <3>1. /\ (ctr' = n \/ (ctr' = ctr /\ ctr.st # "none")) /\ ghost' = g
            /\ dep' = [dep EXCEPT !.pc = "start", !.port = ctr'.port]
        BY <1>4, <2>3 DEF EnsureContainer
      <3>2. n \in CtrRecs /\ n.st = "stopped" /\ g \in BOOLEAN
        BY <1>1 DEF NewContainer, CtrRecs, DepRecs
      <3> HIDE DEF n, g
      <3>3. ctr' \in CtrRecs /\ ctr'.port \in HostPorts \cup {0}
        BY <1>1, <3>1, <3>2 DEF CtrRecs
      <3>4. dep' \in DepRecs /\ dep'.pc = "start" /\ dep'.port = ctr'.port
        BY <1>1, <3>1, <3>3 DEF DepRecs, DeployPcs
      <3>5. DeployTypes'
        BY <1>1, <2>1, <3>1, <3>2, <3>3, <3>4 DEF DeployTypes, onDisk
      <3>6. PcOfMode(dep'.pc, mode') /\ (mode' = "k3s" /\ ~cut' => PortTrue(dep'.pc, dep'.port, meta', ctr'))
        BY <3>1, <3>2, <3>4 DEF PcOfMode, PortTrue, Settled
      <3> QED BY <3>5, <3>6 DEF DeployInv
    <2> QED BY <2>2, <2>3
  <1>5. CASE StartContainer
    <2>1. dep.pc = "start" /\ UNCHANGED <<mode, ghost, volume, secrets, sshKey, workload, loaded, gen, onDisk>>
      BY <1>5 DEF StartContainer, AtStep
    <2>2. CASE FailLate /\ UNCHANGED ctr
      <3>1. DeployTypes' /\ UNCHANGED <<mode, ctr, meta, cut>>
        BY <1>1, <1>2, <2>1, <2>2 DEF DeployTypes, onDisk
      <3> QED BY <1>2, <2>2, <3>1, DepWorks
    <2>3. CASE ~(FailLate /\ UNCHANGED ctr)
      <3>1. ctr' = [ctr EXCEPT !.st = "running"] /\ GoTo("nodes")
        BY <1>5, <2>3 DEF StartContainer
      <3>2. ctr' \in CtrRecs /\ ctr'.port = ctr.port
        BY <1>1, <3>1 DEF CtrRecs
      <3>3. dep' \in DepRecs /\ dep'.pc = "nodes" /\ dep'.port = dep.port /\ "nodes" \in DeployPcs
        BY <3>1, DepGoes DEF DeployPcs
      <3>4. DeployTypes'
        BY <1>1, <2>1, <3>2, <3>3 DEF DeployTypes, onDisk
      <3>5. PcOfMode(dep'.pc, mode') /\ (mode' = "k3s" /\ ~cut' => PortTrue(dep'.pc, dep'.port, meta', ctr'))
        <4>1. mode = "k3s" /\ ~cut => PortTrue("nodes", dep.port, meta, ctr')
          BY <1>1, <2>1, <3>2 DEF PortTrue, Holding, Settled
        <4> QED BY <2>1, <3>3, <4>1 DEF PcOfMode, onDisk
      <3> QED BY <3>4, <3>5 DEF DeployInv
    <2> QED BY <2>2, <2>3
  <1>6. CASE EnsureKindCluster
    <2>1. dep.pc = "kind" /\ UNCHANGED <<mode, ghost, secrets, sshKey, workload, loaded, gen, onDisk>>
      BY <1>6 DEF EnsureKindCluster, AtStep
    <2>2. mode = "kind"
      BY <1>1, <2>1 DEF PcOfMode
    <2> DEFINE n == [st |-> "running", port |-> dep.port]
    <2>3. /\ (ctr' = n \/ ctr' = ctr) /\ (volume' = TRUE \/ volume' = volume) /\ (GoTo("workload") \/ FailEarly)
      BY <1>6 DEF EnsureKindCluster
    <2>4. n \in CtrRecs
      BY <1>1 DEF CtrRecs, DepRecs
    <2> HIDE DEF n
    <2>5. dep' \in DepRecs /\ dep'.pc \in {"workload", "failed"}
      BY <2>3, DepGoes, FailsEarly DEF DeployPcs
    <2>6. DeployTypes'
      BY <1>1, <2>1, <2>3, <2>4, <2>5 DEF DeployTypes, onDisk
    <2>7. PcOfMode(dep'.pc, mode') /\ mode' # "k3s"
      BY <2>1, <2>2, <2>5 DEF PcOfMode
    <2> QED BY <2>6, <2>7 DEF DeployInv
  <1>7. CASE StoreMetadata
    <2>1. /\ dep.pc = "meta" /\ UNCHANGED <<mode, cluster, bundle, cut>> /\ GoTo("grpc")
          /\ meta' = [there |-> TRUE, port |-> dep.port]
          /\ active' = (active \/ mode = "kind" \/ dep.auto)
      BY <1>7 DEF StoreMetadata, AtStep
    <2>2. meta' \in MetaRecs /\ meta'.port = dep.port
      BY <1>1, <2>1 DEF MetaRecs, DepRecs
    <2>3. dep' \in DepRecs /\ dep'.pc = "grpc" /\ dep'.port = dep.port /\ "grpc" \in DeployPcs
      BY <2>1, DepGoes DEF DeployPcs
    <2>4. active' \in BOOLEAN
      BY <2>1
    <2>5. DeployTypes'
      BY <1>1, <2>1, <2>2, <2>3, <2>4 DEF DeployTypes, cluster
    <2>6. mode = "k3s" /\ ~cut => PortTrue("grpc", dep.port, meta', ctr)
      BY <1>1, <2>1, <2>2 DEF PortTrue, Holding
    <2>7. PcOfMode(dep'.pc, mode') /\ (mode' = "k3s" /\ ~cut' => PortTrue(dep'.pc, dep'.port, meta', ctr'))
      BY <2>1, <2>3, <2>6 DEF PcOfMode, cluster
    <2> QED BY <2>5, <2>7 DEF DeployInv
  <1>8. CASE WaitGrpc
    <2>1. /\ dep.pc = "grpc" /\ UNCHANGED <<mode, cluster, bundle, meta, cut>> /\ dep' = NoDeploy
          /\ (active' = TRUE \/ active' = active)
      BY <1>8 DEF WaitGrpc, AtStep
    <2>2. DeployTypes' /\ UNCHANGED <<mode, ctr, meta, cut>>
      BY <1>1, <2>1, DepIdle DEF DeployTypes, cluster
    <2>3. PcOfMode(dep'.pc, mode) /\ dep.pc \in Settled /\ dep'.pc \in Settled
      BY <2>1, DepIdle DEF PcOfMode, Settled
    <2> QED BY <2>2, <2>3, DepWorks
  <1>9. CASE CleanUp
    <2>1. /\ Abandon("failed") /\ UNCHANGED <<mode, gen, bundle, meta, active>>
      BY <1>9 DEF CleanUp
    <2>2. dep' \in DepRecs /\ dep'.pc = "failed"
      BY <2>1, DepAbandons
    <2>3. ctr' = NoCtr \/ cut' = TRUE
      BY <1>9 DEF CleanUp, DestroyResources
    <2>4. DeployTypes'
      BY <1>1, <1>9, <2>1, <2>2, DeployValues DEF CleanUp, DestroyResources, DeployTypes
    <2>5. PcOfMode(dep'.pc, mode') /\ (mode' = "k3s" /\ ~cut' => PortTrue(dep'.pc, dep'.port, meta', ctr'))
      BY <2>2, <2>3, DeployValues DEF PcOfMode, PortTrue
    <2> QED BY <2>4, <2>5 DEF DeployInv
  <1>10. CASE CliStops
    <2>1. dep' = NoDeploy /\ cut' = TRUE /\ UNCHANGED <<mode, cluster, bundle, meta, active>>
      BY <1>10 DEF CliStops
    <2>2. DeployTypes'
      BY <1>1, <2>1, DepIdle DEF DeployTypes, cluster
    <2>3. PcOfMode(dep'.pc, mode') /\ cut'
      BY <2>1, DepIdle DEF PcOfMode
    <2> QED BY <2>2, <2>3 DEF DeployInv
  <1> QED BY <1>3, <1>4, <1>5, <1>6, <1>7, <1>8, <1>9, <1>10

\* However deploys of a gateway fail, are resumed and are repeated, for any
\* ports and any number of certificate generations: unless a deploy was
\* interrupted, the port the CLI has registered is the port of the container
\* that is there.
THEOREM RegistrationIsTrue == BootSpec => []DeploySound
  <1>1. BootInit => DeployInv
    <2> SUFFICES ASSUME BootInit PROVE DeployInv
      OBVIOUS
    <2>1. /\ mode \in DeployModes /\ ctr = NoCtr /\ meta = NoMeta /\ dep = NoDeploy /\ secrets = NoCerts
          /\ loaded = NoCerts /\ bundle = NoCerts /\ volume = FALSE /\ sshKey = FALSE /\ workload = FALSE
          /\ ghost = FALSE /\ gen = 0 /\ active = FALSE /\ cut = FALSE
      BY DEF BootInit
    <2>2. NoCerts \in Certs /\ 0 \in 0..MaxGen
      BY DeployAssumption DEF NoCerts, Certs
    <2>3. NoCtr \in CtrRecs /\ NoCtr.st = "none" /\ NoMeta \in MetaRecs
      BY DEF NoCtr, CtrRecs, NoMeta, MetaRecs
    <2>4. DeployTypes
      BY <2>1, <2>2, <2>3, DepIdle DEF DeployTypes
    <2>5. PcOfMode(dep.pc, mode) /\ PortTrue(dep.pc, dep.port, meta, ctr)
      BY <2>1, <2>3, DepIdle DEF PcOfMode, PortTrue
    <2> QED BY <2>4, <2>5 DEF DeployInv
  <1>2. DeployInv /\ [BootNext]_bootVars => DeployInv'
    <2> SUFFICES ASSUME DeployInv, [BootNext]_bootVars PROVE DeployInv'
      OBVIOUS
    <2>1. CASE UNCHANGED bootVars
      <3>1. UNCHANGED <<mode, cluster, onDisk>> /\ dep' = dep
        BY <2>1 DEF bootVars, cluster, onDisk
      <3>2. /\ dep \in DepRecs /\ PcOfMode(dep.pc, mode)
            /\ (mode = "k3s" /\ ~cut => PortTrue(dep.pc, dep.port, meta, ctr))
        BY DEF DeployInv, DeployTypes
      <3> QED BY <3>1, <3>2, DepMoves
    <2>2. CASE BootNext
      BY <2>2, OutsideDeploy, DeployGoesOn, ClusterChanges, ContainerChanges DEF BootNext
    <2> QED BY <2>1, <2>2
  <1>3. DeployInv => DeploySound
    <2> SUFFICES ASSUME DeployInv PROVE DeploySound
      OBVIOUS
    <2>1. DeployTypes /\ (mode = "k3s" /\ ~cut => PortTrue(dep.pc, dep.port, meta, ctr))
      BY DEF DeployInv
    <2>2. BootTypeOK
      <3>1. dep.port \in HostPorts \cup {0} /\ dep.todo \subseteq SecretNames
        BY <2>1 DEF DeployTypes, DepRecs
      <3>2. {volume, sshKey, workload, active, ghost, cut} \subseteq BOOLEAN
        BY <2>1 DEF DeployTypes
      <3> QED BY <2>1, <3>1, <3>2 DEF DeployTypes, BootTypeOK, CtrRecs, MetaRecs, Certs
    <2>3. RegisteredPort
      BY <2>1 DEF RegisteredPort, PortTrue, Settled
    <2> QED BY <2>2, <2>3 DEF DeploySound
  <1> QED BY <1>1, <1>2, <1>3, PTL DEF BootSpec

-----------------------------------------------------------------------------
(* EdgeTunnel: the registry of listeners, and one tunnelled connection.    *)

\* A queue holds the units from + 1 to from + k in order, then perhaps its end.
Run(q, tag, end, from, k) ==
    /\ k \in Nat /\ (Len(q) = k \/ Len(q) = k + 1)
    /\ \A i \in 1..k : q[i] = <<tag, from + i>>
    /\ Len(q) = k + 1 => q[k + 1] = end

Items == {"unit", "eof", "binary", "close"} \X Nat

LEMMA RunPush ==
    ASSUME NEW q \in Seq(Items), NEW tag \in {"unit", "binary"}, NEW end \in Items, NEW from \in Nat, NEW k,
           Run(q, tag, end, from, k), Len(q) = k
    PROVE  /\ Append(q, <<tag, from + k + 1>>) \in Seq(Items)
           /\ Run(Append(q, <<tag, from + k + 1>>), tag, end, from, k + 1)
  <1> DEFINE x == <<tag, from + k + 1>>
             r == Append(q, x)
  <1>1. k \in Nat /\ x \in Items /\ x = <<tag, from + (k + 1)>>
    BY DEF Run, Items
  <1> HIDE DEF x
  <1>2. r \in Seq(Items) /\ Len(r) = k + 1 /\ r[k + 1] = x /\ \A i \in 1..k : r[i] = q[i]
    BY <1>1
  <1> HIDE DEF r
  <1>3. ASSUME NEW i \in 1..(k + 1) PROVE r[i] = <<tag, from + i>>
    <2>1. CASE i = k + 1
      BY <1>1, <1>2, <2>1
    <2>2. CASE i # k + 1
      <3>1. i \in 1..k
        BY <1>1, <2>2
      <3> QED BY <1>2, <3>1 DEF Run
    <2> QED BY <2>1, <2>2
  <1>4. Run(r, tag, end, from, k + 1)
    BY <1>1, <1>2, <1>3 DEF Run
  <1> QED BY <1>2, <1>4 DEF r, x

LEMMA RunEnd ==
    ASSUME NEW q \in Seq(Items), NEW tag, NEW end \in Items, NEW from \in Nat, NEW k,
           Run(q, tag, end, from, k), Len(q) = k
    PROVE  Append(q, end) \in Seq(Items) /\ Run(Append(q, end), tag, end, from, k)
  <1> DEFINE r == Append(q, end)
  <1>1. k \in Nat
    BY DEF Run
  <1>2. r \in Seq(Items) /\ Len(r) = k + 1 /\ r[k + 1] = end /\ \A i \in 1..k : r[i] = q[i]
    BY <1>1
  <1> HIDE DEF r
  <1>3. Run(r, tag, end, from, k)
    BY <1>1, <1>2 DEF Run
  <1> QED BY <1>2, <1>3 DEF r

LEMMA RunPop ==
    ASSUME NEW q \in Seq(Items), NEW tag, NEW end, NEW from \in Nat, NEW k,
           Run(q, tag, end, from, k), q # <<>>, Head(q) # end
    PROVE  /\ k - 1 \in Nat /\ Head(q) = <<tag, from + 1>> /\ Tail(q) \in Seq(Items)
           /\ Len(Tail(q)) = Len(q) - 1 /\ Run(Tail(q), tag, end, from + 1, k - 1)
  <1> DEFINE r == Tail(q)
  <1>1. k \in Nat /\ Len(q) \in Nat /\ Len(q) # 0 /\ Head(q) = q[1]
    BY DEF Run
  <1>2. k # 0
    <2> SUFFICES ASSUME k = 0 PROVE FALSE
      OBVIOUS
    <2>1. Len(q) = 1 /\ q[1] = end
      BY <1>1 DEF Run
    <2> QED BY <1>1, <2>1
  <1>3. r \in Seq(Items) /\ Len(r) = Len(q) - 1 /\ \A i \in 1..(Len(q) - 1) : r[i] = q[i + 1]
    BY <1>1
  <1> HIDE DEF r
  <1>4. Head(q) = <<tag, from + 1>>
    BY <1>1, <1>2 DEF Run
  <1>5. ASSUME NEW i \in 1..(k - 1) PROVE r[i] = <<tag, (from + 1) + i>>
    <2>1. i + 1 \in 1..k /\ i \in 1..(Len(q) - 1) /\ from + (i + 1) = (from + 1) + i
      BY <1>1 DEF Run
    <2> QED BY <1>3, <2>1 DEF Run
  <1>6. Len(r) = (k - 1) + 1 => r[(k - 1) + 1] = end
    <2> SUFFICES ASSUME Len(r) = (k - 1) + 1 PROVE r[k] = end
      BY <1>1
    <2>1. Len(q) = k + 1 /\ k \in 1..(Len(q) - 1)
      BY <1>1, <1>2, <1>3
    <2> QED BY <1>3, <2>1 DEF Run
  <1>7. Run(r, tag, end, from + 1, k - 1)
    BY <1>1, <1>2, <1>3, <1>5, <1>6 DEF Run
  <1> QED BY <1>1, <1>2, <1>3, <1>4, <1>7 DEF r

\* Without its end a queue is all units; and its units are as many as counted.
LEMMA RunOpen ==
    ASSUME NEW q \in Seq(Items), NEW tag, NEW end, NEW from, NEW k, Run(q, tag, end, from, k), ~Contains(q, end)
    PROVE  Len(q) = k
  <1>1. \A i \in 1..Len(q) : q[i] # end
    BY DEF Contains
  <1> QED BY <1>1 DEF Run

LEMMA RunCount ==
    ASSUME NEW q \in Seq(Items), NEW tag \in {"unit", "binary"}, NEW end, end \in {Eof, CloseFrame}, NEW from \in Nat,
           NEW k, Run(q, tag, end, from, k)
    PROVE  OnTheWay(q, end) = k
  <1> DEFINE m == Len(q)
  <1>0. DOMAIN q = 1..m
    OBVIOUS
  <1>1. k \in Nat /\ m \in Nat /\ (m = k \/ m = k + 1)
    BY DEF Run
  <1>5. m = k + 1 => q[k + 1] = end
    BY DEF Run
  <1> HIDE DEF m
  <1>2. \A i \in 1..k : q[i] # end
    <2> SUFFICES ASSUME NEW i \in 1..k, q[i] = end PROVE FALSE
      OBVIOUS
    <2>1. q[i] = <<tag, from + i>>
      BY DEF Run
    <2>2. end[1] = tag
      BY <2>1
    <2> QED BY <2>2 DEF Eof, CloseFrame
  <1>3. {i \in DOMAIN q : q[i] # end} = 1..k
    <2>1. ASSUME NEW i \in 1..m, q[i] # end PROVE i \in 1..k
      <3>1. ~(m = k + 1 /\ i = k + 1)
        BY <1>5, <2>1
      <3> QED BY <1>1, <3>1
    <2>2. ASSUME NEW i \in 1..k PROVE i \in 1..m
      BY <1>1
    <2>3. \A i : i \in {j \in 1..m : q[j] # end} <=> i \in 1..k
      BY <1>2, <2>1, <2>2
    <2>4. {j \in 1..m : q[j] # end} = 1..k
      BY <2>3
    <2> QED BY <1>0, <2>4
  <1>4. Cardinality(1..k) = k
    BY <1>1, FS_Interval
  <1> QED BY <1>3, <1>4 DEF OnTheWay

-----------------------------------------------------------------------------
\* One direction: received, on the WebSocket and in the sender's socket are
\* consecutive; the WebSocket has no end before its handler has ended.
StreamTrue(n, s, w, g, live) ==
    /\ \A i \in 1..Len(g) : g[i] = i
    /\ \E k, j \in Nat :
          /\ Run(w, "binary", CloseFrame, Len(g), k) /\ Run(s, "unit", Eof, Len(g) + k, j)
          /\ n = Len(g) + k + j
          /\ live => Len(w) = k

Tasks == {"none", "opening", "copying", "ended"}
TunRecs ==
    [addr : 0..MaxListeners, task : [Handlers -> Tasks], sent : [Dirs -> Nat], sock : [Dirs -> Seq(Items)],
     ws : [Dirs -> Seq(Items)], got : [Dirs -> Seq(Nat)]]
TunCallRecs ==
    [pc : {"idle", "start", "register", "connect", "open"}, server : TunServers \cup {"none"}, addr : 0..MaxListeners]

TunTypes ==
    /\ tunnelCalls \in [TunCalls -> TunCallRecs] /\ registry \in [TunServers -> 0..MaxListeners]
    /\ serves \in Seq(TunServers) /\ Len(serves) <= MaxListeners /\ tun \in TunRecs

Serving(sv, a, s) == a \in 1..Len(sv) /\ sv[a] = s

CallTrue(r, sv) ==
    /\ r.pc # "idle" => r.server \in TunServers
    /\ r.pc \in {"register", "connect", "open"} => Serving(sv, r.addr, r.server)

FlowTrue(t) ==
    /\ t.sent["up"] + t.sent["down"] <= MaxUnits
    /\ t.task["cli"] = "opening" => t.task["gw"] = "none"
    /\ \A d \in Dirs : StreamTrue(t.sent[d], t.sock[d], t.ws[d], t.got[d], t.task[Handler(d)] # "ended")

TunInv ==
    /\ TunTypes /\ FlowTrue(tun)
    /\ \A s \in TunServers : registry[s] # NoAddr => Serving(serves, registry[s], s)
    /\ \A c \in TunCalls : CallTrue(tunnelCalls[c], serves)

\* A connection of which nothing has been sent.
LEMMA FreshTunnel ==
    ASSUME NEW t \in TunRecs, t.sent = NoTun.sent, t.sock = NoTun.sock, t.ws = NoTun.ws, t.got = NoTun.got,
           t.task["cli"] = "opening" => t.task["gw"] = "none"
    PROVE  FlowTrue(t)
  <1>1. /\ t.sent = [d \in Dirs |-> 0] /\ t.sock = [d \in Dirs |-> <<>>] /\ t.ws = [d \in Dirs |-> <<>>]
        /\ t.got = [d \in Dirs |-> <<>>]
    BY DEF NoTun
  <1>2. "up" \in Dirs /\ "down" \in Dirs
    BY DEF Dirs
  <1>3. t.sent["up"] + t.sent["down"] <= MaxUnits
    BY <1>1, <1>2, TunAssumption
  <1>4. ASSUME NEW live PROVE StreamTrue(0, <<>>, <<>>, <<>>, live)
    <2>1. Run(<<>>, "binary", CloseFrame, 0, 0) /\ Run(<<>>, "unit", Eof, 0, 0)
      BY DEF Run
    <2>2. Len(<<>>) = 0 /\ 0 + 0 = 0 /\ 0 \in Nat
      OBVIOUS
    <2> QED BY <2>1, <2>2 DEF StreamTrue
  <1>5. ASSUME NEW d \in Dirs
        PROVE  StreamTrue(t.sent[d], t.sock[d], t.ws[d], t.got[d], t.task[Handler(d)] # "ended")
    <2>1. t.sent[d] = 0 /\ t.sock[d] = <<>> /\ t.ws[d] = <<>> /\ t.got[d] = <<>>
      BY <1>1
    <2> QED BY <1>4, <2>1
  <1> QED BY <1>3, <1>5 DEF FlowTrue

\* A step of the tunnelled connection alone.
LEMMA TunStep ==
    ASSUME TunInv, UNCHANGED <<tunnelCalls, registry, serves>>, tun' \in TunRecs, FlowTrue(tun')
    PROVE  TunInv'
  <1>1. TunTypes'
    BY DEF TunInv, TunTypes
  <1> QED BY <1>1 DEF TunInv

\* The connection after one direction, or the tasks, have changed.
Put(u, t, d, k, n, s, w, g) ==
    /\ u \in TunRecs
    /\ u.task = k /\ u.sent = [t.sent EXCEPT ![d] = n] /\ u.sock = [t.sock EXCEPT ![d] = s]
    /\ u.ws = [t.ws EXCEPT ![d] = w] /\ u.got = [t.got EXCEPT ![d] = g]

\* Tasks only go on to their end.
Onward(old, new) ==
    /\ \A h \in Handlers : new[h] = "ended" \/ (new[h] = old[h])
    /\ new["cli"] = "opening" => new["gw"] = "none"

LEMMA StreamOver ==
    ASSUME NEW n, NEW s, NEW w, NEW g, NEW a \in BOOLEAN, NEW b \in BOOLEAN, StreamTrue(n, s, w, g, a), b => a
    PROVE  StreamTrue(n, s, w, g, b)
  <1> QED BY DEF StreamTrue

LEMMA PutKeeps ==
    ASSUME NEW t \in TunRecs, FlowTrue(t), NEW d \in Dirs, NEW k \in [Handlers -> Tasks], Onward(t.task, k),
           NEW n \in Nat, NEW s \in Seq(Items), NEW w \in Seq(Items), NEW g \in Seq(Nat),
           n = t.sent[d] \/ (n = t.sent[d] + 1 /\ t.sent["up"] + t.sent["down"] < MaxUnits),
           StreamTrue(n, s, w, g, k[Handler(d)] # "ended"),
           NEW u, Put(u, t, d, k, n, s, w, g)
    PROVE  FlowTrue(u)
  <1>1. /\ t.sent \in [Dirs -> Nat] /\ t.sock \in [Dirs -> Seq(Items)]
        /\ t.ws \in [Dirs -> Seq(Items)] /\ t.got \in [Dirs -> Seq(Nat)] /\ t.task \in [Handlers -> Tasks]
    BY DEF TunRecs
  <1>2. /\ u.task = k /\ u.sent = [t.sent EXCEPT ![d] = n] /\ u.sock = [t.sock EXCEPT ![d] = s]
        /\ u.ws = [t.ws EXCEPT ![d] = w] /\ u.got = [t.got EXCEPT ![d] = g]
    BY DEF Put
  <1>4. u.sent["up"] + u.sent["down"] <= MaxUnits
    <2>1. t.sent["up"] + t.sent["down"] <= MaxUnits /\ "up" \in Dirs /\ "down" \in Dirs /\ d \in {"up", "down"}
      BY DEF FlowTrue, Dirs
    <2>2. t.sent["up"] \in Nat /\ t.sent["down"] \in Nat /\ MaxUnits \in Nat
      BY <1>1, <2>1, TunAssumption
    <2>3. CASE d = "up"
      <3>1. u.sent["up"] = n /\ u.sent["down"] = t.sent["down"]
        BY <1>1, <1>2, <2>1, <2>3
      <3> QED BY <2>1, <2>2, <2>3, <3>1
    <2>4. CASE d = "down"
      <3>1. u.sent["down"] = n /\ u.sent["up"] = t.sent["up"]
        BY <1>1, <1>2, <2>1, <2>4
      <3> QED BY <2>1, <2>2, <2>4, <3>1
    <2> QED BY <2>1, <2>3, <2>4
  <1>5. u.task["cli"] = "opening" => u.task["gw"] = "none"
    BY <1>2 DEF Onward
  <1>6. ASSUME NEW e \in Dirs
        PROVE  StreamTrue(u.sent[e], u.sock[e], u.ws[e], u.got[e], u.task[Handler(e)] # "ended")
    <2>1. CASE e = d
      <3>1. u.sent[e] = n /\ u.sock[e] = s /\ u.ws[e] = w /\ u.got[e] = g
        BY <1>1, <1>2, <2>1
      <3> QED BY <1>2, <2>1, <3>1
    <2>2. CASE e # d
      <3>1. u.sent[e] = t.sent[e] /\ u.sock[e] = t.sock[e] /\ u.ws[e] = t.ws[e] /\ u.got[e] = t.got[e]
        BY <1>1, <1>2, <2>2
      <3>2. StreamTrue(t.sent[e], t.sock[e], t.ws[e], t.got[e], t.task[Handler(e)] # "ended")
        BY DEF FlowTrue
      <3>3. Handler(e) \in Handlers
        BY DEF Handler, Handlers
      <3>4. u.task[Handler(e)] # "ended" => t.task[Handler(e)] # "ended"
        BY <1>2, <3>3 DEF Onward
      <3> QED BY <3>1, <3>2, <3>4, StreamOver
    <2> QED BY <2>1, <2>2
  <1> QED BY <1>4, <1>5, <1>6 DEF FlowTrue

\* The copies of the record that the actions make.
LEMMA PutIs ==
    ASSUME NEW t \in TunRecs, NEW d \in Dirs, NEW h \in Handlers, NEW n \in Nat, NEW s \in Seq(Items),
           NEW w \in Seq(Items), NEW g \in Seq(Nat), NEW u
    PROVE  /\ u = [t EXCEPT !.sent[d] = n, !.sock[d] = s] => Put(u, t, d, t.task, n, s, t.ws[d], t.got[d])
           /\ u = [t EXCEPT !.sock[d] = s] => Put(u, t, d, t.task, t.sent[d], s, t.ws[d], t.got[d])
           /\ u = [t EXCEPT !.ws[d] = w, !.task[h] = "ended"] =>
                 Put(u, t, d, [t.task EXCEPT ![h] = "ended"], t.sent[d], t.sock[d], w, t.got[d])
           /\ u = [t EXCEPT !.sock[d] = s, !.ws[d] = w] => Put(u, t, d, t.task, t.sent[d], s, w, t.got[d])
           /\ u = [t EXCEPT !.task[h] = "ended"] =>
                 Put(u, t, d, [t.task EXCEPT ![h] = "ended"], t.sent[d], t.sock[d], t.ws[d], t.got[d])
           /\ u = [t EXCEPT !.ws[d] = w, !.got[d] = g] => Put(u, t, d, t.task, t.sent[d], t.sock[d], w, g)
  <1>1. /\ t.sent \in [Dirs -> Nat] /\ t.sock \in [Dirs -> Seq(Items)] /\ t.task \in [Handlers -> Tasks]
        /\ t.ws \in [Dirs -> Seq(Items)] /\ t.got \in [Dirs -> Seq(Nat)]
    BY DEF TunRecs
  <1>2. /\ [t.sent EXCEPT ![d] = t.sent[d]] = t.sent /\ [t.sock EXCEPT ![d] = t.sock[d]] = t.sock
        /\ [t.ws EXCEPT ![d] = t.ws[d]] = t.ws /\ [t.got EXCEPT ![d] = t.got[d]] = t.got
    BY <1>1
  <1> DEFINE n1 == [t.sent EXCEPT ![d] = n]
             s1 == [t.sock EXCEPT ![d] = s]
             w1 == [t.ws EXCEPT ![d] = w]
             g1 == [t.got EXCEPT ![d] = g]
             k1 == [t.task EXCEPT ![h] = "ended"]
  <1>3. /\ n1 \in [Dirs -> Nat] /\ s1 \in [Dirs -> Seq(Items)] /\ k1 \in [Handlers -> Tasks]
        /\ w1 \in [Dirs -> Seq(Items)] /\ g1 \in [Dirs -> Seq(Nat)]
    BY <1>1 DEF Tasks
  <1>4. u = [t EXCEPT !.sent[d] = n, !.sock[d] = s]
        => Put(u, t, d, t.task, n, s, t.ws[d], t.got[d])
    <2> SUFFICES ASSUME u = [t EXCEPT !.sent[d] = n, !.sock[d] = s]
                 PROVE  Put(u, t, d, t.task, n, s, t.ws[d], t.got[d])
      OBVIOUS
    <2>1. u = [t EXCEPT !.sent = n1, !.sock = s1]
      OBVIOUS
    <2> HIDE DEF n1, s1, w1, g1, k1
    <2>2. u \in TunRecs /\ u.task = t.task /\ u.sent = n1 /\ u.sock = s1 /\ u.ws = t.ws /\ u.got = t.got
      BY ONLY <2>1, <1>3, t \in TunRecs DEF TunRecs
    <2> QED BY <1>2, <2>2 DEF Put, n1, s1, w1, g1, k1
  <1>5. u = [t EXCEPT !.sock[d] = s]
        => Put(u, t, d, t.task, t.sent[d], s, t.ws[d], t.got[d])
    <2> SUFFICES ASSUME u = [t EXCEPT !.sock[d] = s]
                 PROVE  Put(u, t, d, t.task, t.sent[d], s, t.ws[d], t.got[d])
      OBVIOUS
    <2>1. u = [t EXCEPT !.sock = s1]
      OBVIOUS
    <2> HIDE DEF n1, s1, w1, g1, k1
    <2>2. u \in TunRecs /\ u.task = t.task /\ u.sent = t.sent /\ u.sock = s1 /\ u.ws = t.ws /\ u.got = t.got
      BY ONLY <2>1, <1>3, t \in TunRecs DEF TunRecs
    <2> QED BY <1>2, <2>2 DEF Put, n1, s1, w1, g1, k1
  <1>6. u = [t EXCEPT !.ws[d] = w, !.task[h] = "ended"]
        => Put(u, t, d, k1, t.sent[d], t.sock[d], w, t.got[d])
    <2> SUFFICES ASSUME u = [t EXCEPT !.ws[d] = w, !.task[h] = "ended"]
                 PROVE  Put(u, t, d, k1, t.sent[d], t.sock[d], w, t.got[d])
      OBVIOUS
    <2>1. u = [t EXCEPT !.ws = w1, !.task = k1]
      OBVIOUS
    <2> HIDE DEF n1, s1, w1, g1, k1
    <2>2. u \in TunRecs /\ u.task = k1 /\ u.sent = t.sent /\ u.sock = t.sock /\ u.ws = w1 /\ u.got = t.got
      BY ONLY <2>1, <1>3, t \in TunRecs DEF TunRecs
    <2> QED BY <1>2, <2>2 DEF Put, n1, s1, w1, g1, k1
  <1>7. u = [t EXCEPT !.sock[d] = s, !.ws[d] = w]
        => Put(u, t, d, t.task, t.sent[d], s, w, t.got[d])
    <2> SUFFICES ASSUME u = [t EXCEPT !.sock[d] = s, !.ws[d] = w]
                 PROVE  Put(u, t, d, t.task, t.sent[d], s, w, t.got[d])
      OBVIOUS
    <2>1. u = [t EXCEPT !.sock = s1, !.ws = w1]
      OBVIOUS
    <2> HIDE DEF n1, s1, w1, g1, k1
    <2>2. u \in TunRecs /\ u.task = t.task /\ u.sent = t.sent /\ u.sock = s1 /\ u.ws = w1 /\ u.got = t.got
      BY ONLY <2>1, <1>3, t \in TunRecs DEF TunRecs
    <2> QED BY <1>2, <2>2 DEF Put, n1, s1, w1, g1, k1
  <1>8. u = [t EXCEPT !.task[h] = "ended"]
        => Put(u, t, d, k1, t.sent[d], t.sock[d], t.ws[d], t.got[d])
    <2> SUFFICES ASSUME u = [t EXCEPT !.task[h] = "ended"]
                 PROVE  Put(u, t, d, k1, t.sent[d], t.sock[d], t.ws[d], t.got[d])
      OBVIOUS
    <2>1. u = [t EXCEPT !.task = k1]
      OBVIOUS
    <2> HIDE DEF n1, s1, w1, g1, k1
    <2>2. u \in TunRecs /\ u.task = k1 /\ u.sent = t.sent /\ u.sock = t.sock /\ u.ws = t.ws /\ u.got = t.got
      BY ONLY <2>1, <1>3, t \in TunRecs DEF TunRecs
    <2> QED BY <1>2, <2>2 DEF Put, n1, s1, w1, g1, k1
  <1>9. u = [t EXCEPT !.ws[d] = w, !.got[d] = g]
        => Put(u, t, d, t.task, t.sent[d], t.sock[d], w, g)
    <2> SUFFICES ASSUME u = [t EXCEPT !.ws[d] = w, !.got[d] = g]
                 PROVE  Put(u, t, d, t.task, t.sent[d], t.sock[d], w, g)
      OBVIOUS
    <2>1. u = [t EXCEPT !.ws = w1, !.got = g1]
      OBVIOUS
    <2> HIDE DEF n1, s1, w1, g1, k1
    <2>2. u \in TunRecs /\ u.task = t.task /\ u.sent = t.sent /\ u.sock = t.sock /\ u.ws = w1 /\ u.got = g1
      BY ONLY <2>1, <1>3, t \in TunRecs DEF TunRecs
    <2> QED BY <1>2, <2>2 DEF Put, n1, s1, w1, g1, k1
  <1> QED BY <1>4, <1>5, <1>6, <1>7, <1>8, <1>9

\* The tasks after none or one of them has ended.
LEMMA TasksGoOn ==
    ASSUME NEW t \in TunRecs, FlowTrue(t), NEW h \in Handlers
    PROVE  /\ Onward(t.task, t.task)
           /\ t.task[h] = "copying" => /\ [t.task EXCEPT ![h] = "ended"] \in [Handlers -> Tasks]
                                       /\ Onward(t.task, [t.task EXCEPT ![h] = "ended"])
  <1>1. t.task \in [Handlers -> Tasks] /\ "cli" \in Handlers /\ "gw" \in Handlers
    BY DEF TunRecs, Handlers
  <1>2. t.task["cli"] = "opening" => t.task["gw"] = "none"
    BY DEF FlowTrue
  <1>3. Onward(t.task, t.task)
    BY <1>2 DEF Onward
  <1>4. ASSUME t.task[h] = "copying", NEW k, k = [t.task EXCEPT ![h] = "ended"]
        PROVE  k \in [Handlers -> Tasks] /\ Onward(t.task, k)
    <2>1. k \in [Handlers -> Tasks] /\ k[h] = "ended" /\ \A x \in Handlers : x # h => k[x] = t.task[x]
      BY <1>1, <1>4 DEF Tasks
    <2>2. k["cli"] = "opening" => k["gw"] = "none"
      <3> SUFFICES ASSUME k["cli"] = "opening" PROVE k["gw"] = "none"
        OBVIOUS
      <3>1. h # "cli" /\ t.task["cli"] = "opening"
        BY <1>1, <2>1
      <3>2. h = "gw"
        BY <3>1 DEF Handlers
      <3> QED BY <1>2, <1>4, <2>1, <3>1, <3>2
    <2> QED BY <2>1, <2>2 DEF Onward
  <1> QED BY <1>3, <1>4

\* What a direction of a sound connection looks like.
LEMMA Pieces ==
    ASSUME NEW t \in TunRecs, FlowTrue(t), NEW d \in Dirs
    PROVE  /\ t.sent[d] \in Nat /\ t.sock[d] \in Seq(Items) /\ t.ws[d] \in Seq(Items) /\ t.got[d] \in Seq(Nat)
           /\ t.task \in [Handlers -> Tasks] /\ Len(t.got[d]) \in Nat
           /\ StreamTrue(t.sent[d], t.sock[d], t.ws[d], t.got[d], t.task[Handler(d)] # "ended")
           /\ Handler(d) \in Handlers /\ Other(d) \in Handlers
           /\ Eof \in Items /\ CloseFrame \in Items
  <1>1. t.sent[d] \in Nat /\ t.sock[d] \in Seq(Items) /\ t.ws[d] \in Seq(Items) /\ t.got[d] \in Seq(Nat)
    BY DEF TunRecs
  <1>2. t.task \in [Handlers -> Tasks] /\ Len(t.got[d]) \in Nat
    BY <1>1 DEF TunRecs
  <1>3. Eof \in Items /\ CloseFrame \in Items
    BY DEF Eof, CloseFrame, Items
  <1>4. Handler(d) \in Handlers /\ Other(d) \in Handlers
    BY DEF Handler, Other, Handlers
  <1>5. StreamTrue(t.sent[d], t.sock[d], t.ws[d], t.got[d], t.task[Handler(d)] # "ended")
    BY DEF FlowTrue
  <1> QED BY <1>1, <1>2, <1>3, <1>4, <1>5

\* The sender writes a unit, or closes.
LEMMA SenderSteps ==
    ASSUME NEW t \in TunRecs, FlowTrue(t), NEW d \in Dirs, ~Contains(t.sock[d], Eof)
    PROVE  /\ LET u == [t EXCEPT !.sock[d] = Append(@, Eof)] IN u \in TunRecs /\ FlowTrue(u)
           /\ t.sent["up"] + t.sent["down"] < MaxUnits =>
                 LET u == [t EXCEPT !.sent[d] = @ + 1, !.sock[d] = Append(@, <<"unit", t.sent[d] + 1>>)]
                 IN  u \in TunRecs /\ FlowTrue(u)
  <1> DEFINE n == t.sent[d]
             s == t.sock[d]
             w == t.ws[d]
             g == t.got[d]
             live == t.task[Handler(d)] # "ended"
  <1>1. /\ n \in Nat /\ s \in Seq(Items) /\ w \in Seq(Items) /\ g \in Seq(Nat) /\ t.task \in [Handlers -> Tasks]
        /\ Len(g) \in Nat /\ StreamTrue(n, s, w, g, live) /\ Handler(d) \in Handlers /\ Eof \in Items
    BY Pieces
  <1>2. Onward(t.task, t.task)
    BY <1>1, TasksGoOn
  <1>3. ~Contains(s, Eof)
    OBVIOUS
  <1> HIDE DEF n, s, w, g, live
  <1>4. PICK k, j \in Nat : /\ Run(w, "binary", CloseFrame, Len(g), k) /\ Run(s, "unit", Eof, Len(g) + k, j)
                            /\ n = Len(g) + k + j /\ (live => Len(w) = k)
    BY <1>1 DEF StreamTrue
  <1> DEFINE f == Len(g) + k
  <1>5. f \in Nat /\ f + j = n /\ f + j + 1 = n + 1 /\ n + 1 \in Nat /\ n + 1 = Len(g) + k + (j + 1) /\ j + 1 \in Nat
    BY <1>1, <1>4
  <1>6. Run(s, "unit", Eof, f, j)
    BY <1>4
  <1> HIDE DEF f
  <1>7. Len(s) = j
    BY <1>1, <1>3, <1>6, RunOpen
  <1>8. Append(s, Eof) \in Seq(Items) /\ StreamTrue(n, Append(s, Eof), w, g, live)
    <2>1. Append(s, Eof) \in Seq(Items) /\ Run(Append(s, Eof), "unit", Eof, f, j)
      BY <1>1, <1>5, <1>6, <1>7, RunEnd
    <2> QED BY <1>1, <1>4, <2>1 DEF StreamTrue, f
  <1>9. Append(s, <<"unit", n + 1>>) \in Seq(Items) /\ StreamTrue(n + 1, Append(s, <<"unit", n + 1>>), w, g, live)
    <2>1. /\ Append(s, <<"unit", f + j + 1>>) \in Seq(Items)
          /\ Run(Append(s, <<"unit", f + j + 1>>), "unit", Eof, f, j + 1)
      BY <1>1, <1>5, <1>6, <1>7, RunPush
    <2> QED BY <1>1, <1>4, <1>5, <2>1 DEF StreamTrue, f
  <1>10. ASSUME NEW u, u = [t EXCEPT !.sock[d] = Append(@, Eof)] PROVE u \in TunRecs /\ FlowTrue(u)
    <2>1. u = [t EXCEPT !.sock[d] = Append(s, Eof)]
      BY <1>10 DEF s
    <2>2. Put(u, t, d, t.task, n, Append(s, Eof), w, g)
      BY <1>1, <1>8, <2>1, PutIs DEF n, w, g
    <2>3. FlowTrue(u)
      BY <1>1, <1>2, <1>8, <2>2, PutKeeps DEF live, n
    <2> QED BY <2>2, <2>3 DEF Put
  <1>11. ASSUME t.sent["up"] + t.sent["down"] < MaxUnits, NEW u,
                u = [t EXCEPT !.sent[d] = @ + 1, !.sock[d] = Append(@, <<"unit", t.sent[d] + 1>>)]
         PROVE  u \in TunRecs /\ FlowTrue(u)
    <2>1. u = [t EXCEPT !.sent[d] = n + 1, !.sock[d] = Append(s, <<"unit", n + 1>>)]
      BY <1>11 DEF n, s
    <2>2. Put(u, t, d, t.task, n + 1, Append(s, <<"unit", n + 1>>), w, g)
      BY <1>1, <1>5, <1>9, <2>1, PutIs DEF w, g
    <2>3. FlowTrue(u)
      BY <1>1, <1>2, <1>5, <1>9, <1>11, <2>2, PutKeeps DEF live, n
    <2> QED BY <2>2, <2>3 DEF Put
  <1> QED BY <1>10, <1>11

\* A task ends: by an error, or by a close frame.
LEMMA TaskEnds ==
    ASSUME NEW t \in TunRecs, FlowTrue(t), NEW h \in Handlers, t.task[h] = "copying", NEW u,
           u = [t EXCEPT !.task[h] = "ended"]
    PROVE  u \in TunRecs /\ FlowTrue(u)
  <1> DEFINE d == "up"
             n == t.sent[d]
             s == t.sock[d]
             w == t.ws[d]
             g == t.got[d]
             e == [t.task EXCEPT ![h] = "ended"]
  <1>0. d \in Dirs
    BY DEF Dirs
  <1> HIDE DEF d
  <1>1. /\ n \in Nat /\ s \in Seq(Items) /\ w \in Seq(Items) /\ g \in Seq(Nat) /\ Handler(d) \in Handlers
        /\ StreamTrue(n, s, w, g, t.task[Handler(d)] # "ended")
    BY <1>0, Pieces
  <1>2. e \in [Handlers -> Tasks] /\ Onward(t.task, e)
    BY TasksGoOn
  <1>3. Put(u, t, d, e, n, s, w, g)
    BY <1>0, <1>1, PutIs
  <1> HIDE DEF n, s, w, g, e
  <1>4. e[Handler(d)] # "ended" => t.task[Handler(d)] # "ended"
    BY <1>1, <1>2 DEF Onward
  <1>5. StreamTrue(n, s, w, g, e[Handler(d)] # "ended")
    BY <1>1, <1>4, StreamOver
  <1>6. FlowTrue(u)
    BY <1>0, <1>1, <1>2, <1>3, <1>5, PutKeeps DEF n
  <1> QED BY <1>3, <1>6 DEF Put

\* A handler copies from its socket to the WebSocket.
LEMMA SocketToWs ==
    ASSUME NEW t \in TunRecs, FlowTrue(t), NEW d \in Dirs, t.task[Handler(d)] = "copying", t.sock[d] # <<>>, NEW u,
           u = IF Head(t.sock[d]) = Eof
               THEN [t EXCEPT !.ws[d] = Append(@, CloseFrame), !.task[Handler(d)] = "ended"]
               ELSE [t EXCEPT !.sock[d] = Tail(@), !.ws[d] = Append(@, <<"binary", Head(t.sock[d])[2]>>)]
    PROVE  u \in TunRecs /\ FlowTrue(u)
  <1> DEFINE n == t.sent[d]
             s == t.sock[d]
             w == t.ws[d]
             g == t.got[d]
             h == Handler(d)
             live == t.task[h] # "ended"
  <1>1. /\ n \in Nat /\ s \in Seq(Items) /\ w \in Seq(Items) /\ g \in Seq(Nat) /\ t.task \in [Handlers -> Tasks]
        /\ Len(g) \in Nat /\ StreamTrue(n, s, w, g, live) /\ h \in Handlers /\ Eof \in Items /\ CloseFrame \in Items
    BY Pieces
  <1>2. live /\ s # <<>> /\ t.task[h] = "copying"
    OBVIOUS
  <1>3. /\ Head(s) = Eof => u = [t EXCEPT !.ws[d] = Append(w, CloseFrame), !.task[h] = "ended"]
        /\ Head(s) # Eof => u = [t EXCEPT !.sock[d] = Tail(s), !.ws[d] = Append(w, <<"binary", Head(s)[2]>>)]
    OBVIOUS
  <1> HIDE DEF n, s, w, g, h, live
  <1>4. PICK k, j \in Nat : /\ Run(w, "binary", CloseFrame, Len(g), k) /\ Run(s, "unit", Eof, Len(g) + k, j)
                            /\ n = Len(g) + k + j /\ (live => Len(w) = k)
    BY <1>1 DEF StreamTrue
  <1>5. Len(w) = k
    BY <1>2, <1>4
  <1>6. CASE Head(s) = Eof
    <2> DEFINE e == [t.task EXCEPT ![h] = "ended"]
    <2>1. e \in [Handlers -> Tasks] /\ Onward(t.task, e) /\ e[h] = "ended"
      BY <1>1, <1>2, TasksGoOn
    <2> HIDE DEF e
    <2>2. Append(w, CloseFrame) \in Seq(Items) /\ Run(Append(w, CloseFrame), "binary", CloseFrame, Len(g), k)
      BY <1>1, <1>4, <1>5, RunEnd
    <2>3. StreamTrue(n, s, Append(w, CloseFrame), g, e[h] # "ended")
      BY <1>1, <1>4, <2>1, <2>2 DEF StreamTrue
    <2>4. Put(u, t, d, e, n, s, Append(w, CloseFrame), g)
      BY <1>1, <1>3, <1>6, <2>2, PutIs DEF n, s, g, e
    <2>5. FlowTrue(u)
      BY <1>1, <2>1, <2>2, <2>3, <2>4, PutKeeps DEF h, n
    <2> QED BY <2>4, <2>5 DEF Put
  <1>7. CASE Head(s) # Eof
    <2> DEFINE f == Len(g) + k
               x == Append(w, <<"binary", Len(g) + k + 1>>)
    <2>1. f \in Nat /\ Run(s, "unit", Eof, f, j)
      BY <1>1, <1>4
    <2> HIDE DEF f
    <2>2. /\ j - 1 \in Nat /\ Head(s) = <<"unit", f + 1>> /\ Tail(s) \in Seq(Items)
          /\ Run(Tail(s), "unit", Eof, f + 1, j - 1)
      BY <1>1, <1>2, <1>7, <2>1, RunPop
    <2>3. Head(s)[2] = Len(g) + k + 1
      BY <2>2 DEF f
    <2>4. x \in Seq(Items) /\ Run(x, "binary", CloseFrame, Len(g), k + 1)
      BY <1>1, <1>4, <1>5, RunPush
    <2>5. Len(x) = k + 1
      BY <1>1, <1>5
    <2>6. u = [t EXCEPT !.sock[d] = Tail(s), !.ws[d] = x]
      BY <1>3, <1>7, <2>3
    <2> HIDE DEF x
    <2>7. StreamTrue(n, Tail(s), x, g, live)
      <3>1. f + 1 = Len(g) + (k + 1) /\ n = Len(g) + (k + 1) + (j - 1) /\ k + 1 \in Nat
        <4>1. Len(g) \in Nat /\ n = Len(g) + k + j
          BY <1>1, <1>4
        <4>2. f + 1 = Len(g) + (k + 1) /\ k + 1 \in Nat
          BY <4>1 DEF f
        <4>3. n = Len(g) + (k + 1) + (j - 1)
          BY <4>1
        <4> QED BY <4>2, <4>3
      <3> QED BY <1>1, <2>2, <2>4, <2>5, <3>1 DEF StreamTrue
    <2>8. Onward(t.task, t.task)
      BY <1>1, TasksGoOn
    <2>9. Put(u, t, d, t.task, n, Tail(s), x, g)
      BY <1>1, <2>2, <2>4, <2>6, PutIs DEF n, g
    <2>10. FlowTrue(u)
      BY <1>1, <2>2, <2>4, <2>7, <2>8, <2>9, PutKeeps DEF live, h, n
    <2> QED BY <2>9, <2>10 DEF Put
  <1> QED BY <1>6, <1>7

\* A handler copies from the WebSocket to its socket.
LEMMA WsToSocket ==
    ASSUME NEW t \in TunRecs, FlowTrue(t), NEW d \in Dirs, t.task[Other(d)] = "copying", t.ws[d] # <<>>, NEW u,
           u = IF Head(t.ws[d]) = CloseFrame
               THEN [t EXCEPT !.task[Other(d)] = "ended"]
               ELSE [t EXCEPT !.ws[d] = Tail(@), !.got[d] = @ \o Payload(Head(t.ws[d]))]
    PROVE  u \in TunRecs /\ FlowTrue(u)
  <1> DEFINE n == t.sent[d]
             s == t.sock[d]
             w == t.ws[d]
             g == t.got[d]
             h == Other(d)
             live == t.task[Handler(d)] # "ended"
  <1>1. /\ n \in Nat /\ s \in Seq(Items) /\ w \in Seq(Items) /\ g \in Seq(Nat) /\ t.task \in [Handlers -> Tasks]
        /\ Len(g) \in Nat /\ StreamTrue(n, s, w, g, live) /\ h \in Handlers /\ Handler(d) \in Handlers
    BY Pieces
  <1>2. w # <<>> /\ t.task[h] = "copying"
    OBVIOUS
  <1>3. /\ Head(w) = CloseFrame => u = [t EXCEPT !.task[h] = "ended"]
        /\ Head(w) # CloseFrame => u = [t EXCEPT !.ws[d] = Tail(w), !.got[d] = g \o <<Head(w)[2]>>]
    BY DEF Payload
  <1>4. CASE Head(w) = CloseFrame
    <2>1. u = [t EXCEPT !.task[h] = "ended"]
      BY <1>3, <1>4
    <2> HIDE DEF n, s, w, g, h
    <2> QED BY <1>1, <1>2, <2>1, TaskEnds
  <1>5. CASE Head(w) # CloseFrame
    <2> HIDE DEF n, s, w, g, h, live
    <2>1. PICK k, j \in Nat : /\ Run(w, "binary", CloseFrame, Len(g), k) /\ Run(s, "unit", Eof, Len(g) + k, j)
                              /\ n = Len(g) + k + j /\ (live => Len(w) = k)
      BY <1>1 DEF StreamTrue
    <2>2. /\ k - 1 \in Nat /\ Head(w) = <<"binary", Len(g) + 1>> /\ Tail(w) \in Seq(Items)
          /\ Len(Tail(w)) = Len(w) - 1 /\ Run(Tail(w), "binary", CloseFrame, Len(g) + 1, k - 1)
      BY <1>1, <1>2, <1>5, <2>1, RunPop
    <2> DEFINE x == g \o <<Len(g) + 1>>
    <2>3. u = [t EXCEPT !.ws[d] = Tail(w), !.got[d] = x]
      <3>1. Head(w)[2] = Len(g) + 1
        BY <2>2
      <3> QED BY <1>3, <1>5, <3>1
    <2>4. x \in Seq(Nat) /\ Len(x) = Len(g) + 1 /\ x[Len(g) + 1] = Len(g) + 1 /\ \A i \in 1..Len(g) : x[i] = g[i]
      BY <1>1
    <2> HIDE DEF x
    <2>5. StreamTrue(n, s, Tail(w), x, live)
      <3>1. \A i \in 1..Len(x) : x[i] = i
        <4> SUFFICES ASSUME NEW i \in 1..Len(x) PROVE x[i] = i
          OBVIOUS
        <4>1. CASE i = Len(g) + 1
          BY <2>4, <4>1
        <4>2. CASE i # Len(g) + 1
          <5>1. i \in 1..Len(g)
            BY <1>1, <2>4, <4>2
          <5> QED BY <1>1, <2>4, <5>1 DEF StreamTrue
        <4> QED BY <4>1, <4>2
      <3>2. Len(x) + (k - 1) = Len(g) + k /\ n = Len(x) + (k - 1) + j
        BY <1>1, <2>1, <2>4
      <3>3. live => Len(Tail(w)) = k - 1
        BY <2>1, <2>2
      <3>4. Run(Tail(w), "binary", CloseFrame, Len(x), k - 1) /\ Run(s, "unit", Eof, Len(x) + (k - 1), j)
        BY <2>1, <2>2, <2>4, <3>2
      <3> QED BY <2>2, <3>1, <3>2, <3>3, <3>4 DEF StreamTrue
    <2>6. Onward(t.task, t.task)
      BY <1>1, TasksGoOn
    <2>7. Put(u, t, d, t.task, n, s, Tail(w), x)
      BY <1>1, <2>2, <2>3, <2>4, PutIs DEF n, s
    <2>8. FlowTrue(u)
      BY <1>1, <2>2, <2>4, <2>5, <2>6, <2>7, PutKeeps DEF live, n
    <2> QED BY <2>7, <2>8 DEF Put
  <1> QED BY <1>4, <1>5

\* A step of the callers and the registry alone, by one caller.
LEMMA CallerStep ==
    ASSUME TunInv, NEW c \in TunCalls, NEW r \in TunCallRecs, tunnelCalls' = [tunnelCalls EXCEPT ![c] = r],
           CallTrue(r, serves'), serves' \in Seq(TunServers), Len(serves') <= MaxListeners,
           Len(serves) <= Len(serves'), \A a \in 1..Len(serves) : serves'[a] = serves[a],
           registry' \in [TunServers -> 0..MaxListeners],
           \A s \in TunServers : registry'[s] # NoAddr => Serving(serves', registry'[s], s),
           tun' \in TunRecs, FlowTrue(tun')
    PROVE  TunInv'
  <1>1. TunTypes
    BY DEF TunInv
  <1>2. tunnelCalls' \in [TunCalls -> TunCallRecs]
    BY <1>1 DEF TunTypes
  <1>3. TunTypes'
    BY <1>2 DEF TunTypes
  <1>4. ASSUME NEW x \in TunCalls PROVE CallTrue(tunnelCalls'[x], serves')
    <2>1. CASE x = c
      BY <1>1, <2>1 DEF TunTypes
    <2>2. CASE x # c
      <3>1. tunnelCalls'[x] = tunnelCalls[x] /\ CallTrue(tunnelCalls[x], serves)
        BY <1>1, <2>2 DEF TunTypes, TunInv
      <3>2. Len(serves) \in Nat /\ Len(serves') \in Nat
        BY <1>1 DEF TunTypes
      <3>3. ASSUME NEW a, NEW s, Serving(serves, a, s) PROVE Serving(serves', a, s)
        BY <3>2, <3>3 DEF Serving
      <3> QED BY <3>1, <3>3 DEF CallTrue
    <2> QED BY <2>1, <2>2
  <1> QED BY <1>3, <1>4 DEF TunInv

\* What the invariant says of a caller.
LEMMA CallerIs ==
    ASSUME TunInv, NEW c \in TunCalls
    PROVE  /\ tunnelCalls \in [TunCalls -> TunCallRecs] /\ tunnelCalls[c] \in TunCallRecs
           /\ registry \in [TunServers -> 0..MaxListeners] /\ serves \in Seq(TunServers) /\ Len(serves) \in Nat
           /\ Len(serves) <= MaxListeners /\ tun \in TunRecs /\ FlowTrue(tun) /\ MaxListeners \in Nat
           /\ CallTrue(tunnelCalls[c], serves)
           /\ \A s \in TunServers : registry[s] # NoAddr => Serving(serves, registry[s], s)
  <1>1. TunTypes
    BY DEF TunInv
  <1>2. tunnelCalls[c] \in TunCallRecs /\ Len(serves) \in Nat
    BY <1>1 DEF TunTypes
  <1> QED BY <1>1, <1>2, TunAssumption DEF TunInv, TunTypes

LEMMA TunLookUp ==
    ASSUME TunInv, NEW c \in TunCalls, NEW s \in TunServers, LookUp(c, s)
    PROVE  TunInv'
  <1> DEFINE r == IF registry[s] # NoAddr THEN [pc |-> "connect", server |-> s, addr |-> registry[s]]
                                          ELSE [pc |-> "start", server |-> s, addr |-> NoAddr]
  <1>1. tunnelCalls' = [tunnelCalls EXCEPT ![c] = r] /\ UNCHANGED <<registry, serves, tun>>
    BY DEF LookUp
  <1>2. r \in TunCallRecs
    BY CallerIs DEF TunCallRecs, NoAddr
  <1>3. CallTrue(r, serves)
    <2>1. CASE registry[s] # NoAddr
      <3>1. r.pc = "connect" /\ r.server = s /\ r.addr = registry[s]
        BY <2>1
      <3>2. Serving(serves, registry[s], s)
        BY <2>1, CallerIs
      <3> QED BY <3>1, <3>2 DEF CallTrue
    <2>2. CASE registry[s] = NoAddr
      <3>1. r.pc = "start" /\ r.server = s
        BY <2>2
      <3> QED BY <3>1 DEF CallTrue
    <2> QED BY <2>1, <2>2
  <1>4. Len(serves) <= Len(serves)
    BY CallerIs
  <1> HIDE DEF r
  <1> QED BY <1>1, <1>2, <1>3, <1>4, CallerIs, CallerStep

LEMMA TunStartProxy ==
    ASSUME TunInv, NEW c \in TunCalls, StartTunnelProxy(c)
    PROVE  TunInv'
  <1> DEFINE q == tunnelCalls[c]
             a == Len(serves) + 1
             r == [q EXCEPT !.pc = "register", !.addr = a]
             v == Append(serves, q.server)
  <1>1. /\ tunnelCalls \in [TunCalls -> TunCallRecs] /\ q \in TunCallRecs /\ serves \in Seq(TunServers)
        /\ Len(serves) \in Nat /\ CallTrue(q, serves) /\ MaxListeners \in Nat /\ tun \in TunRecs /\ FlowTrue(tun)
        /\ registry \in [TunServers -> 0..MaxListeners]
        /\ \A s \in TunServers : registry[s] # NoAddr => Serving(serves, registry[s], s)
    BY CallerIs
  <1>2. q.pc = "start" /\ Len(serves) < MaxListeners /\ serves' = v /\ UNCHANGED <<registry, tun>>
    BY DEF StartTunnelProxy
  <1>3. tunnelCalls' = [tunnelCalls EXCEPT ![c] = r]
    BY <1>1 DEF StartTunnelProxy
  <1>4. q.server \in TunServers
    BY <1>1, <1>2 DEF CallTrue
  <1>5. a \in 0..MaxListeners /\ a # 0
    BY <1>1, <1>2
  <1>6. v \in Seq(TunServers) /\ Len(v) = a /\ v[a] = q.server /\ \A b \in 1..Len(serves) : v[b] = serves[b]
    BY <1>1, <1>4
  <1>7. a \in 1..Len(v) /\ Len(v) <= MaxListeners /\ Len(serves) <= Len(v)
    BY <1>1, <1>5, <1>6
  <1> HIDE DEF v, a
  <1>8. r \in TunCallRecs /\ r.server = q.server /\ r.addr = a
    BY <1>1, <1>5 DEF TunCallRecs
  <1> HIDE DEF r, q
  <1>9. CallTrue(r, v)
    BY <1>4, <1>6, <1>7, <1>8 DEF CallTrue, Serving
  <1>10. \A s \in TunServers : registry[s] # NoAddr => Serving(v, registry[s], s)
    <2> SUFFICES ASSUME NEW s \in TunServers, registry[s] # NoAddr PROVE Serving(v, registry[s], s)
      OBVIOUS
    <2>1. registry[s] \in 1..Len(serves) /\ serves[registry[s]] = s
      BY <1>1 DEF Serving
    <2>2. registry[s] \in 1..Len(v)
      BY <1>1, <1>6, <1>7, <2>1
    <2> QED BY <1>6, <2>1, <2>2 DEF Serving
  <1> QED BY <1>1, <1>2, <1>3, <1>6, <1>7, <1>8, <1>9, <1>10, CallerStep

LEMMA TunRegister ==
    ASSUME TunInv, NEW c \in TunCalls, Register(c)
    PROVE  TunInv'
  <1> DEFINE q == tunnelCalls[c]
             v == IF registry[q.server] = NoAddr THEN q.addr ELSE registry[q.server]
             g == [registry EXCEPT ![q.server] = v]
             r == [q EXCEPT !.pc = "connect", !.addr = v]
  <1>1. /\ tunnelCalls \in [TunCalls -> TunCallRecs] /\ q \in TunCallRecs /\ serves \in Seq(TunServers)
        /\ Len(serves) <= MaxListeners /\ CallTrue(q, serves) /\ tun \in TunRecs /\ FlowTrue(tun)
        /\ registry \in [TunServers -> 0..MaxListeners]
        /\ \A s \in TunServers : registry[s] # NoAddr => Serving(serves, registry[s], s)
    BY CallerIs
  <1>2. q.pc = "register" /\ registry' = g /\ UNCHANGED <<serves, tun>>
    BY DEF Register
  <1>3. q.server \in TunServers /\ Serving(serves, q.addr, q.server)
    BY <1>1, <1>2 DEF CallTrue
  <1>4. g[q.server] = v
    BY <1>1, <1>3
  <1>5. tunnelCalls' = [tunnelCalls EXCEPT ![c] = r]
    <2>1. tunnelCalls' = [tunnelCalls EXCEPT ![c].pc = "connect", ![c].addr = g[q.server]]
      BY <1>2 DEF Register
    <2> HIDE DEF g, v
    <2> QED BY <1>1, <1>4, <2>1
  <1>6. q.addr \in 0..MaxListeners /\ Serving(serves, v, q.server)
    BY <1>1, <1>3 DEF TunCallRecs
  <1>7. v \in 0..MaxListeners
    BY <1>1, <1>3, <1>6
  <1> HIDE DEF v
  <1>8. r \in TunCallRecs /\ r.server = q.server /\ r.addr = v
    BY <1>1, <1>7 DEF TunCallRecs
  <1>9. g \in [TunServers -> 0..MaxListeners]
    BY <1>1, <1>7
  <1>10. \A s \in TunServers : g[s] # NoAddr => Serving(serves, g[s], s)
    <2> SUFFICES ASSUME NEW s \in TunServers, g[s] # NoAddr PROVE Serving(serves, g[s], s)
      OBVIOUS
    <2>1. CASE s = q.server
      BY <1>4, <1>6, <2>1
    <2>2. CASE s # q.server
      <3>1. g[s] = registry[s]
        BY <1>1, <2>2
      <3> QED BY <1>1, <3>1
    <2> QED BY <2>1, <2>2
  <1> HIDE DEF r, q, g
  <1>11. CallTrue(r, serves)
    BY <1>3, <1>6, <1>8 DEF CallTrue
  <1>12. Len(serves) <= Len(serves)
    BY CallerIs
  <1> QED BY <1>1, <1>2, <1>5, <1>8, <1>9, <1>10, <1>11, <1>12, CallerStep

LEMMA NoTunIs == NoTun \in TunRecs /\ FlowTrue(NoTun)
  <1>1. /\ <<>> \in Seq(Items) /\ <<>> \in Seq(Nat) /\ 0 \in Nat /\ "none" \in Tasks /\ 0 \in 0..MaxListeners
    BY TunAssumption DEF Tasks
  <1>2. NoTun \in TunRecs
    BY <1>1 DEF NoTun, TunRecs, NoAddr
  <1>3. NoTun.task["cli"] # "opening"
    BY DEF NoTun, Handlers
  <1> QED BY <1>2, <1>3, FreshTunnel

LEMMA TunConnect ==
    ASSUME TunInv, NEW c \in TunCalls, ConnectChannel(c)
    PROVE  TunInv'
  <1> DEFINE q == tunnelCalls[c]
             r == [q EXCEPT !.pc = "open"]
             k == [NoTun.task EXCEPT !["cli"] = "opening"]
  <1>1. /\ tunnelCalls \in [TunCalls -> TunCallRecs] /\ q \in TunCallRecs /\ CallTrue(q, serves)
        /\ registry \in [TunServers -> 0..MaxListeners]
        /\ serves \in Seq(TunServers) /\ Len(serves) <= MaxListeners /\ Len(serves) \in Nat
        /\ \A s \in TunServers : registry[s] # NoAddr => Serving(serves, registry[s], s)
    BY CallerIs
  <1>2. q.pc = "connect" /\ UNCHANGED <<registry, serves>>
    BY DEF ConnectChannel
  <1>3. tunnelCalls' = [tunnelCalls EXCEPT ![c] = r]
    BY <1>1 DEF ConnectChannel
  <1>4. tun' = [NoTun EXCEPT !.addr = q.addr, !.task = k]
    BY DEF ConnectChannel
  <1>5. r \in TunCallRecs /\ CallTrue(r, serves)
    BY <1>1, <1>2 DEF TunCallRecs, CallTrue
  <1>6. NoTun \in TunRecs /\ q.addr \in 0..MaxListeners
    BY <1>1, NoTunIs DEF TunCallRecs
  <1>7. k \in [Handlers -> Tasks] /\ k["gw"] = "none"
    BY DEF NoTun, Handlers, Tasks
  <1> HIDE DEF k, r, q
  <1>8. /\ tun' \in TunRecs /\ tun'.task = k /\ tun'.sent = NoTun.sent /\ tun'.sock = NoTun.sock
        /\ tun'.ws = NoTun.ws /\ tun'.got = NoTun.got
    BY <1>4, <1>6, <1>7 DEF TunRecs
  <1>9. FlowTrue(tun')
    BY <1>7, <1>8, FreshTunnel
  <1>10. Len(serves) <= Len(serves)
    BY <1>1
  <1> QED BY <1>1, <1>2, <1>3, <1>5, <1>8, <1>9, <1>10, CallerStep

LEMMA TunEndCall ==
    ASSUME TunInv, NEW c \in TunCalls, EndCall(c)
    PROVE  TunInv'
  <1>1. tunnelCalls' = [tunnelCalls EXCEPT ![c] = IdleCall] /\ tun' = NoTun /\ UNCHANGED <<registry, serves>>
    BY DEF EndCall
  <1>2. IdleCall \in TunCallRecs /\ CallTrue(IdleCall, serves)
    BY TunAssumption DEF IdleCall, NoAddr, TunCallRecs, CallTrue
  <1>3. Len(serves) <= Len(serves)
    BY CallerIs
  <1> HIDE DEF IdleCall
  <1> QED BY <1>1, <1>2, <1>3, NoTunIs, CallerIs, CallerStep

\* The WebSocket opens, or does not: nothing has been copied before.
LEMMA TunOpens ==
    ASSUME NEW t \in TunRecs, FlowTrue(t), NEW ok \in BOOLEAN, t.task["cli"] = "opening", NEW u,
           u = [t EXCEPT !.task = [h \in Handlers |-> IF ok THEN "copying" ELSE "ended"]]
    PROVE  u \in TunRecs /\ FlowTrue(u)
  <1> DEFINE k == [h \in Handlers |-> IF ok THEN "copying" ELSE "ended"]
  <1>1. k \in [Handlers -> Tasks] /\ k["cli"] # "opening"
    BY DEF Handlers, Tasks
  <1>2. u = [t EXCEPT !.task = k]
    OBVIOUS
  <1> HIDE DEF k
  <1>3. /\ u \in TunRecs /\ u.task = k /\ u.sent = t.sent /\ u.sock = t.sock /\ u.ws = t.ws /\ u.got = t.got
    BY <1>1, <1>2 DEF TunRecs
  <1>4. t.task["cli"] # "ended" /\ t.task["gw"] # "ended"
    BY DEF FlowTrue
  <1>5. ASSUME NEW d \in Dirs PROVE StreamTrue(u.sent[d], u.sock[d], u.ws[d], u.got[d], u.task[Handler(d)] # "ended")
    <2>1. t.task[Handler(d)] # "ended"
      BY <1>4 DEF Handler
    <2>2. StreamTrue(t.sent[d], t.sock[d], t.ws[d], t.got[d], t.task[Handler(d)] # "ended")
      BY DEF FlowTrue
    <2>3. StreamTrue(t.sent[d], t.sock[d], t.ws[d], t.got[d], u.task[Handler(d)] # "ended")
      BY <2>1, <2>2, StreamOver
    <2> QED BY <1>3, <2>3
  <1>6. u.sent["up"] + u.sent["down"] <= MaxUnits
    BY <1>3 DEF FlowTrue
  <1> QED BY <1>1, <1>3, <1>5, <1>6 DEF FlowTrue

\* EdgeTunnel, edge_tunnel_addr and the four copy loops: for any calls,
\* endpoints and number of units, whatever callers race for a listener, in
\* whatever order units are copied and whichever side closes or fails, a call
\* reaches its own gateway and what a receiver has is a prefix of what was
\* sent, the rest being on its way as long as both handlers copy.
THEOREM TunnelIsTransparent == TunSpec => []TunnelSound
  <1>1. TunInit => TunInv
    <2> SUFFICES ASSUME TunInit PROVE TunInv
      OBVIOUS
    <2>1. /\ tunnelCalls = [c \in TunCalls |-> IdleCall] /\ registry = [s \in TunServers |-> NoAddr]
          /\ serves = <<>> /\ tun = NoTun
      BY DEF TunInit
    <2>2. IdleCall \in TunCallRecs /\ CallTrue(IdleCall, <<>>)
      BY TunAssumption DEF IdleCall, NoAddr, TunCallRecs, CallTrue
    <2>3. NoAddr \in 0..MaxListeners /\ Len(<<>>) = 0 /\ 0 <= MaxListeners
      BY TunAssumption DEF NoAddr
    <2> HIDE DEF NoAddr, IdleCall
    <2>4. TunTypes
      BY <2>1, <2>2, <2>3, NoTunIs DEF TunTypes
    <2> QED BY <2>1, <2>2, <2>4, NoTunIs DEF TunInv
  <1>2. TunInv /\ [TunNext]_tunVars => TunInv'
    <2> SUFFICES ASSUME TunInv, [TunNext]_tunVars PROVE TunInv'
      OBVIOUS
    <2>0. tun \in TunRecs /\ FlowTrue(tun)
      BY DEF TunInv, TunTypes
    <2>1. ASSUME NEW c \in TunCalls, NEW s \in TunServers, LookUp(c, s) PROVE TunInv'
      BY <2>1, TunLookUp
    <2>2. ASSUME NEW c \in TunCalls, StartTunnelProxy(c) PROVE TunInv'
      BY <2>2, TunStartProxy
    <2>3. ASSUME NEW c \in TunCalls, Register(c) PROVE TunInv'
      BY <2>3, TunRegister
    <2>4. ASSUME NEW c \in TunCalls, ConnectChannel(c) PROVE TunInv'
      BY <2>4, TunConnect
    <2>5. ASSUME NEW c \in TunCalls, EndCall(c) PROVE TunInv'
      BY <2>5, TunEndCall
    <2>6. ASSUME NEW d \in Dirs, SendUnit(d) PROVE TunInv'
      <3>1. /\ ~Contains(tun.sock[d], Eof) /\ tun.sent["up"] + tun.sent["down"] < MaxUnits
            /\ tun' = [tun EXCEPT !.sent[d] = @ + 1, !.sock[d] = Append(@, <<"unit", tun.sent[d] + 1>>)]
            /\ UNCHANGED <<tunnelCalls, registry, serves>>
        BY <2>6 DEF SendUnit, UnitsSent
      <3> QED BY <2>0, <3>1, SenderSteps, TunStep
    <2>7. ASSUME NEW d \in Dirs, CloseSocket(d) PROVE TunInv'
      <3>1. /\ ~Contains(tun.sock[d], Eof) /\ tun' = [tun EXCEPT !.sock[d] = Append(@, Eof)]
            /\ UNCHANGED <<tunnelCalls, registry, serves>>
        BY <2>7 DEF CloseSocket
      <3> QED BY <2>0, <3>1, SenderSteps, TunStep
    <2>8. ASSUME NEW d \in Dirs, CopyToWs(d) PROVE TunInv'
      <3>1. /\ tun.task[Handler(d)] = "copying" /\ tun.sock[d] # <<>>
            /\ tun' = IF Head(tun.sock[d]) = Eof
                      THEN [tun EXCEPT !.ws[d] = Append(@, CloseFrame), !.task[Handler(d)] = "ended"]
                      ELSE [tun EXCEPT !.sock[d] = Tail(@),
                                       !.ws[d] = Append(@, <<"binary", Head(tun.sock[d])[2]>>)]
            /\ UNCHANGED <<tunnelCalls, registry, serves>>
        BY <2>8 DEF CopyToWs
      <3>2. tun' \in TunRecs /\ FlowTrue(tun')
        BY <2>0, <3>1, SocketToWs
      <3> QED BY <3>1, <3>2, TunStep
    <2>9. ASSUME NEW d \in Dirs, CopyFromWs(d) PROVE TunInv'
      <3>1. /\ tun.task[Other(d)] = "copying" /\ tun.ws[d] # <<>>
            /\ tun' = IF Head(tun.ws[d]) = CloseFrame
                      THEN [tun EXCEPT !.task[Other(d)] = "ended"]
                      ELSE [tun EXCEPT !.ws[d] = Tail(@), !.got[d] = @ \o Payload(Head(tun.ws[d]))]
            /\ UNCHANGED <<tunnelCalls, registry, serves>>
        BY <2>9 DEF CopyFromWs
      <3>2. tun' \in TunRecs /\ FlowTrue(tun')
        BY <2>0, <3>1, WsToSocket
      <3> QED BY <3>1, <3>2, TunStep
    <2>10. ASSUME NEW ok \in BOOLEAN, OpenWs(ok) PROVE TunInv'
      <3>1. /\ tun.task["cli"] = "opening" /\ UNCHANGED <<tunnelCalls, registry, serves>>
            /\ tun' = [tun EXCEPT !.task = [h \in Handlers |-> IF ok THEN "copying" ELSE "ended"]]
        BY <2>10 DEF OpenWs
      <3>2. tun' \in TunRecs /\ FlowTrue(tun')
        BY <2>0, <3>1, TunOpens
      <3> QED BY <3>1, <3>2, TunStep
    <2>11. ASSUME NEW h \in Handlers, CopyFails(h) PROVE TunInv'
      <3>1. /\ tun.task[h] = "copying" /\ tun' = [tun EXCEPT !.task[h] = "ended"]
            /\ UNCHANGED <<tunnelCalls, registry, serves>>
        BY <2>11 DEF CopyFails
      <3>2. tun' \in TunRecs /\ FlowTrue(tun')
        BY <2>0, <3>1, TaskEnds
      <3> QED BY <3>1, <3>2, TunStep
    <2>12. CASE UNCHANGED tunVars
      BY <2>12, <2>0, TunStep DEF tunVars
    <2> QED BY <2>1, <2>2, <2>3, <2>4, <2>5, <2>6, <2>7, <2>8, <2>9, <2>10, <2>11, <2>12 DEF TunNext
  <1>3. TunInv => TunnelSound
    <2> SUFFICES ASSUME TunInv PROVE TunnelSound
      OBVIOUS
    <2>1. TunTypes /\ tun \in TunRecs /\ FlowTrue(tun)
      BY DEF TunInv, TunTypes
    <2>2. TunTypeOK
      <3>1. \A c \in TunCalls : tunnelCalls[c].addr \in 0..MaxListeners
        BY <2>1 DEF TunTypes, TunCallRecs
      <3>2. tun.addr \in 0..MaxListeners
        BY <2>1 DEF TunRecs
      <3>3. \A d \in Dirs : tun.sent[d] \in 0..MaxUnits
        <4>1. tun.sent["up"] \in Nat /\ tun.sent["down"] \in Nat /\ tun.sent["up"] + tun.sent["down"] <= MaxUnits
          BY <2>1 DEF TunRecs, Dirs, FlowTrue
        <4>2. tun.sent["up"] \in 0..MaxUnits /\ tun.sent["down"] \in 0..MaxUnits
          BY <4>1, TunAssumption
        <4> QED BY <4>2 DEF Dirs
      <3> QED BY <2>1, <3>1, <3>2, <3>3 DEF TunTypeOK, TunTypes
    <2>3. RightListener
      BY DEF TunInv, CallTrue, Serving, RightListener
    <2>4. TunnelTransparent
      <3> SUFFICES ASSUME NEW d \in Dirs
                   PROVE  /\ tun.got[d] = [i \in 1..Len(tun.got[d]) |-> i]
                          /\ (\A h \in Handlers : tun.task[h] = "copying") =>
                                tun.sent[d] = Len(tun.got[d]) + OnTheWay(tun.ws[d], CloseFrame)
                                                              + OnTheWay(tun.sock[d], Eof)
        BY DEF TunnelTransparent
      <3> DEFINE n == tun.sent[d]
                 s == tun.sock[d]
                 w == tun.ws[d]
                 g == tun.got[d]
      <3>1. /\ s \in Seq(Items) /\ w \in Seq(Items) /\ g \in Seq(Nat) /\ Len(g) \in Nat
            /\ StreamTrue(n, s, w, g, tun.task[Handler(d)] # "ended")
        BY <2>1, Pieces
      <3> HIDE DEF n, s, w, g
      <3>2. g = [i \in 1..Len(g) |-> i]
        <4>1. g = [i \in 1..Len(g) |-> g[i]]
          BY <3>1
        <4>2. \A i \in 1..Len(g) : g[i] = i
          BY <3>1 DEF StreamTrue
        <4> QED BY <4>1, <4>2
      <3>3. PICK k, j \in Nat : /\ Run(w, "binary", CloseFrame, Len(g), k) /\ Run(s, "unit", Eof, Len(g) + k, j)
                                /\ n = Len(g) + k + j
        BY <3>1 DEF StreamTrue
      <3>4. OnTheWay(w, CloseFrame) = k
        BY <3>1, <3>3, RunCount
      <3>5. OnTheWay(s, Eof) = j
        <4>1. Len(g) + k \in Nat
          BY <3>1
        <4> QED BY <3>1, <3>3, <4>1, RunCount
      <3> QED BY <3>2, <3>3, <3>4, <3>5 DEF n, s, w, g
    <2> QED BY <2>2, <2>3, <2>4 DEF TunnelSound
  <1> QED BY <1>1, <1>2, <1>3, PTL DEF TunSpec

-----------------------------------------------------------------------------
(* ImageDelivery: builds that share a daemon, a second and an import path.  *)

BuildSteps == {"idle", "build", "load", "export", "upload", "import", "remove", "available", "failed"}
BuildRecs == [at : BuildSteps, tag : Tags, tmp : Tars, undisturbed : BOOLEAN]

\* What a command is to deliver; and an archive that would not put another
\* image under its tag.
Mine(c) == Image(ContextTar(ImgContexts[c]))
Harmless(c, t, tar) == tar.is = "tar" => tar.tag # t \/ tar.image = Mine(c)

\* Where the image of an undisturbed command is, by how far the command is.
BuildTrue(c, r, dk, st, cd, kind) ==
    /\ kind = "kind" => r.at \notin {"export", "upload", "import", "remove"}
    /\ kind = "k3s" => r.at # "load"
    /\ r.at = "upload" => \E i \in Images : r.tmp = Tar(r.tag, i)
    /\ r.undisturbed =>
          /\ r.at \in {"load", "export"} => dk[r.tag] = Mine(c)
          /\ r.at = "upload" => r.tmp = Tar(r.tag, Mine(c))
          /\ r.at = "import" => st = Tar(r.tag, Mine(c))
          /\ r.at \in {"remove", "available"} => cd[r.tag] = Mine(c) /\ (kind = "k3s" => Harmless(c, r.tag, st))

\* Two commands of the same second have disturbed each other.
Apart(bs) ==
    \A c, d \in ImgClis :
        c # d /\ bs[c].at # "idle" /\ bs[d].at # "idle" /\ bs[c].undisturbed => bs[d].tag # bs[c].tag

ImgInv ==
    /\ ImgTypeOK /\ Apart(builds)
    /\ \A c \in ImgClis : BuildTrue(c, builds[c], dockerd, staged, containerd, clusterKind)

ImgTypes ==
    /\ clusterKind \in {"kind", "k3s"} /\ builds \in [ImgClis -> BuildRecs]
    /\ dockerd \in [Tags -> Images] /\ containerd \in [Tags -> Images] /\ staged \in Tars \cup {PartialTar}

LEMMA ImgIs == ImgInv => ImgTypes
  BY DEF ImgInv, ImgTypeOK, ImgTypes, BuildRecs, BuildSteps

LEMMA MineIs ==
    ASSUME NEW c \in ImgClis
    PROVE  Mine(c) \in Images /\ Mine(c).is = "image" /\ Mine(c).files = ContextTar(ImgContexts[c])
  <1>1. ContextTar(ImgContexts[c]) \in SUBSET ImgPaths
    BY DEF ContextTar, ImgPaths
  <1>2. Mine(c) = [is |-> "image", files |-> ContextTar(ImgContexts[c])]
    BY DEF Mine, Image
  <1> HIDE DEF Mine
  <1>3. Mine(c) \in Images
    BY <1>1, <1>2 DEF Images, Image
  <1> QED BY <1>2, <1>3

LEMMA TarIs ==
    /\ \A t, i : Tar(t, i).is = "tar" /\ Tar(t, i).tag = t /\ Tar(t, i).image = i
    /\ \A t \in Tags, i \in Images : Tar(t, i) \in Tars
    /\ NoTar \in Tars /\ NoTar.is # "tar" /\ PartialTar.is # "tar"
    /\ \A x \in Tars \cup {PartialTar} : x.is = "tar" => x.tag \in Tags /\ x.image \in Images
  <1>1. \A t, i : Tar(t, i).is = "tar" /\ Tar(t, i).tag = t /\ Tar(t, i).image = i
    BY DEF Tar
  <1>2. (\A t \in Tags, i \in Images : Tar(t, i) \in Tars) /\ NoTar \in Tars
    BY DEF Tars
  <1>3. NoTar.is # "tar" /\ PartialTar.is # "tar"
    BY DEF NoTar, PartialTar
  <1>4. ASSUME NEW x \in Tars \cup {PartialTar}, x.is = "tar" PROVE x.tag \in Tags /\ x.image \in Images
    <2>1. PICK t \in Tags, i \in Images : x = Tar(t, i)
      BY <1>3, <1>4 DEF Tars
    <2> QED BY <1>1, <2>1
  <1> QED BY <1>1, <1>2, <1>3, <1>4

LEMMA IdleIs == IdleBuild \in BuildRecs
  <1>1. 0 \in Tags
    BY ImgAssumption DEF Tags
  <1> QED BY <1>1, TarIs DEF IdleBuild, BuildRecs, BuildSteps

\* Tags stay apart while commands go on, end, or are disturbed.
LEMMA ApartKept ==
    ASSUME NEW bs, NEW bt, Apart(bs),
           \A c \in ImgClis : \/ bt[c].at = "idle"
                              \/ /\ bs[c].at # "idle" /\ bt[c].tag = bs[c].tag
                                 /\ bt[c].undisturbed => bs[c].undisturbed
    PROVE  Apart(bt)
  BY DEF Apart

\* A command that is only disturbed, and one that promises nothing.
LEMMA BuildLess ==
    ASSUME NEW c, NEW r, NEW q, NEW dk, NEW st, NEW cd, NEW kind, BuildTrue(c, r, dk, st, cd, kind),
           q.at = r.at, q.tag = r.tag, q.tmp = r.tmp, q.undisturbed => r.undisturbed
    PROVE  BuildTrue(c, q, dk, st, cd, kind)
  BY DEF BuildTrue

LEMMA BuildOver ==
    ASSUME NEW c, NEW q, NEW dk, NEW st, NEW cd, NEW kind, q.at \in {"idle", "build", "failed"}
    PROVE  BuildTrue(c, q, dk, st, cd, kind)
  BY DEF BuildTrue

\* What others write under other tags does not matter.
LEMMA OtherImage ==
    ASSUME NEW c, NEW r \in BuildRecs, NEW dk \in [Tags -> Images], NEW st, NEW cd \in [Tags -> Images], NEW kind,
           BuildTrue(c, r, dk, st, cd, kind), NEW t, NEW x, r.at # "idle" /\ r.undisturbed => t # r.tag
    PROVE  /\ BuildTrue(c, r, [dk EXCEPT ![t] = x], st, cd, kind)
           /\ BuildTrue(c, r, dk, st, [cd EXCEPT ![t] = x], kind)
  <1>1. r.tag \in Tags
    BY DEF BuildRecs
  <1>2. CASE r.at = "idle"
    BY <1>2, BuildOver
  <1>3. CASE ~r.undisturbed
    BY <1>3 DEF BuildTrue
  <1>4. CASE r.at # "idle" /\ r.undisturbed
    <2>1. [dk EXCEPT ![t] = x][r.tag] = dk[r.tag] /\ [cd EXCEPT ![t] = x][r.tag] = cd[r.tag]
      BY <1>1, <1>4
    <2> QED BY <2>1 DEF BuildTrue
  <1> QED BY <1>2, <1>3, <1>4

\* A step of the commands; and one that is not theirs.
LEMMA ImgStep ==
    ASSUME ImgInv, UNCHANGED <<clusterKind, clock, host>>, builds' \in [ImgClis -> BuildRecs],
           dockerd' \in [Tags -> Images], containerd' \in [Tags -> Images], staged' \in Tars \cup {PartialTar},
           Apart(builds'), \A c \in ImgClis : BuildTrue(c, builds'[c], dockerd', staged', containerd', clusterKind)
    PROVE  ImgInv'
  <1>1. ImgTypeOK'
    BY DEF ImgInv, ImgTypeOK, BuildRecs, BuildSteps
  <1> QED BY <1>1 DEF ImgInv

HostRecs ==
    [at : {"idle", "pulling", "verify", "ready", "failed"}, remote : BOOLEAN, arch : Archs \cup {"none"},
     pulls : 0..MaxPulls]

LEMMA HostStep ==
    ASSUME ImgInv, UNCHANGED <<clusterKind, builds, dockerd, staged, containerd>>, clock' \in Tags, host' \in HostRecs
    PROVE  ImgInv'
  <1>1. ImgTypeOK'
    BY DEF ImgInv, ImgTypeOK, HostRecs
  <1> QED BY <1>1 DEF ImgInv

\* A step of one command that leaves the others as they are.
LEMMA OneBuild ==
    ASSUME ImgInv, UNCHANGED <<clusterKind, clock, host>>, NEW c \in ImgClis, NEW q \in BuildRecs,
           builds' = [builds EXCEPT ![c] = q],
           \/ q.at = "idle"
           \/ builds[c].at # "idle" /\ q.tag = builds[c].tag /\ (q.undisturbed => builds[c].undisturbed),
           dockerd' \in [Tags -> Images], containerd' \in [Tags -> Images], staged' \in Tars \cup {PartialTar},
           BuildTrue(c, q, dockerd', staged', containerd', clusterKind),
           \A d \in ImgClis \ {c} : BuildTrue(d, builds[d], dockerd', staged', containerd', clusterKind)
    PROVE  ImgInv'
  <1>1. builds \in [ImgClis -> BuildRecs] /\ Apart(builds)
    BY ImgIs DEF ImgTypes, ImgInv
  <1>2. builds' \in [ImgClis -> BuildRecs] /\ builds'[c] = q /\ \A d \in ImgClis \ {c} : builds'[d] = builds[d]
    BY <1>1
  <1>3. ASSUME NEW d \in ImgClis
        PROVE  /\ BuildTrue(d, builds'[d], dockerd', staged', containerd', clusterKind)
               /\ \/ builds'[d].at = "idle"
                  \/ d = c /\ builds[d].at # "idle" /\ builds'[d].tag = builds[d].tag
                           /\ (builds'[d].undisturbed => builds[d].undisturbed)
                  \/ d # c /\ builds'[d] = builds[d] /\ builds[d].at # "idle"
    <2>1. CASE d = c
      BY <1>2, <2>1
    <2>2. CASE d # c
      BY <1>2, <2>2
    <2> QED BY <2>1, <2>2
  <1>4. Apart(builds')
    BY <1>1, <1>3, ApartKept
  <1> QED BY <1>2, <1>3, <1>4, ImgStep

\* What the invariant says of a command, and the step to its next position.
LEMMA BuildIs ==
    ASSUME ImgInv, NEW c \in ImgClis
    PROVE  /\ clusterKind \in {"kind", "k3s"} /\ builds \in [ImgClis -> BuildRecs] /\ builds[c] \in BuildRecs
           /\ dockerd \in [Tags -> Images] /\ containerd \in [Tags -> Images] /\ staged \in Tars \cup {PartialTar}
           /\ builds[c].tag \in Tags /\ builds[c].tmp \in Tars /\ builds[c].undisturbed \in BOOLEAN
           /\ BuildTrue(c, builds[c], dockerd, staged, containerd, clusterKind)
           /\ \A d \in ImgClis : BuildTrue(d, builds[d], dockerd, staged, containerd, clusterKind)
  <1>1. ImgTypes
    BY ImgIs
  <1>2. builds[c] \in BuildRecs
    BY <1>1 DEF ImgTypes
  <1> QED BY <1>1, <1>2 DEF ImgTypes, BuildRecs, ImgInv

LEMMA Moved ==
    ASSUME ImgInv, NEW c \in ImgClis, NEW x \in BuildSteps, MoveBuild(c, x)
    PROVE  \E q \in BuildRecs :
              /\ builds' = [builds EXCEPT ![c] = q] /\ q.at = x /\ q.tag = builds[c].tag
              /\ q.tmp = builds[c].tmp /\ q.undisturbed = builds[c].undisturbed
  <1> DEFINE q == [builds[c] EXCEPT !.at = x]
  <1>1. builds[c] \in BuildRecs /\ builds \in [ImgClis -> BuildRecs]
    BY BuildIs
  <1>2. builds' = [builds EXCEPT ![c] = q]
    BY <1>1 DEF MoveBuild
  <1>3. /\ q \in BuildRecs /\ q.at = x /\ q.tag = builds[c].tag /\ q.tmp = builds[c].tmp
        /\ q.undisturbed = builds[c].undisturbed
    BY <1>1 DEF BuildRecs
  <1> HIDE DEF q
  <1> QED BY <1>2, <1>3

\* Whatever fails, nothing is promised.
LEMMA BuildFails ==
    ASSUME ImgInv, NEW c \in ImgClis, builds[c].at # "idle", MoveBuild(c, "failed"),
           UNCHANGED <<clusterKind, clock, dockerd, staged, containerd, host>>
    PROVE  ImgInv'
  <1>1. builds \in [ImgClis -> BuildRecs] /\ "failed" \in BuildSteps
    BY BuildIs DEF BuildSteps
  <1>2. PICK q \in BuildRecs :
          /\ builds' = [builds EXCEPT ![c] = q]
          /\ q.at = "failed" /\ q.tag = builds[c].tag /\ q.tmp = builds[c].tmp
          /\ q.undisturbed = builds[c].undisturbed
    BY <1>1, Moved
  <1>3. BuildTrue(c, q, dockerd, staged, containerd, clusterKind)
    BY <1>2, BuildOver
  <1> QED BY <1>2, <1>3, BuildIs, OneBuild

LEMMA ImgBuildStarts ==
    ASSUME ImgInv, NEW c \in ImgClis, BuildFromDockerfile(c)
    PROVE  ImgInv'
  <1> DEFINE shared(d) == d # c /\ ~BuildAt(d, "idle") /\ builds[d].tag = clock
             q == [IdleBuild EXCEPT !.at = "build", !.tag = clock, !.undisturbed = \A e \in ImgClis : ~shared(e)]
             p(d) == [builds[d] EXCEPT !.undisturbed = @ /\ ~shared(d)]
  <1>1. /\ builds' = [d \in ImgClis |-> IF d = c THEN q ELSE p(d)]
        /\ UNCHANGED <<clusterKind, clock, dockerd, staged, containerd, host>>
    BY DEF BuildFromDockerfile
  <1>2. clock \in Tags /\ Apart(builds)
    BY DEF ImgInv, ImgTypeOK
  <1>3. IdleBuild \in BuildRecs
    BY IdleIs
  <1>4. /\ q \in BuildRecs /\ q.at = "build" /\ q.tag = clock
        /\ q.undisturbed => \A e \in ImgClis : ~shared(e)
    <2> DEFINE b == \A e \in ImgClis : ~shared(e)
    <2>1. b \in BOOLEAN
      OBVIOUS
    <2>2. q = [IdleBuild EXCEPT !.at = "build", !.tag = clock, !.undisturbed = b]
      OBVIOUS
    <2> HIDE DEF b
    <2>3. q \in BuildRecs /\ q.at = "build" /\ q.tag = clock /\ q.undisturbed = b
      BY <1>2, <1>3, <2>1, <2>2 DEF BuildRecs, BuildSteps
    <2> QED BY <2>3 DEF b
  <1>5. ASSUME NEW d \in ImgClis
        PROVE  /\ p(d) \in BuildRecs /\ p(d).at = builds[d].at /\ p(d).tag = builds[d].tag
               /\ p(d).tmp = builds[d].tmp /\ (p(d).undisturbed => builds[d].undisturbed /\ ~shared(d))
    <2> DEFINE b == builds[d].undisturbed /\ ~shared(d)
    <2>1. b \in BOOLEAN /\ builds[d] \in BuildRecs
      BY BuildIs
    <2>2. p(d) = [builds[d] EXCEPT !.undisturbed = b]
      BY <2>1 DEF BuildRecs
    <2> HIDE DEF b
    <2>3. p(d) \in BuildRecs /\ p(d).undisturbed = b /\ p(d).at = builds[d].at /\ p(d).tag = builds[d].tag
          /\ p(d).tmp = builds[d].tmp
      BY <2>1, <2>2 DEF BuildRecs
    <2> QED BY <2>3 DEF b
  <1> HIDE DEF q, p
  <1>6. builds' \in [ImgClis -> BuildRecs] /\ builds'[c] = q /\ \A d \in ImgClis \ {c} : builds'[d] = p(d)
    BY <1>1, <1>4, <1>5
  <1>7. Apart(builds')
    <2> SUFFICES ASSUME NEW x \in ImgClis, NEW y \in ImgClis, x # y, builds'[x].at # "idle", builds'[y].at # "idle",
                        builds'[x].undisturbed
                 PROVE  builds'[y].tag # builds'[x].tag
      BY DEF Apart
    <2>1. CASE x = c
      <3>1. builds'[y] = p(y) /\ builds'[x] = q
        BY <1>6, <2>1
      <3> QED BY <1>4, <1>5, <2>1, <3>1 DEF BuildAt
    <2>2. CASE y = c
      <3>1. builds'[x] = p(x) /\ builds'[y] = q
        BY <1>6, <2>2
      <3> QED BY <1>4, <1>5, <2>2, <3>1 DEF BuildAt
    <2>3. CASE x # c /\ y # c
      <3>1. builds'[x] = p(x) /\ builds'[y] = p(y)
        BY <1>6, <2>3
      <3> QED BY <1>2, <1>5, <3>1 DEF Apart
    <2> QED BY <2>1, <2>2, <2>3
  <1>8. ASSUME NEW d \in ImgClis PROVE BuildTrue(d, builds'[d], dockerd, staged, containerd, clusterKind)
    <2>1. CASE d = c
      BY <1>4, <1>6, <2>1, BuildOver
    <2>2. CASE d # c
      <3>1. builds'[d] = p(d) /\ BuildTrue(d, builds[d], dockerd, staged, containerd, clusterKind)
        BY <1>6, <2>2, BuildIs
      <3> QED BY <1>5, <3>1, BuildLess
    <2> QED BY <2>1, <2>2
  <1> QED BY <1>1, <1>6, <1>7, <1>8, ImgIs, ImgStep DEF ImgTypes

\* A tag that is in use by this command is not another undisturbed one's.
LEMMA TagIsMine ==
    ASSUME ImgInv, NEW c \in ImgClis, builds[c].at # "idle", NEW d \in ImgClis \ {c}
    PROVE  builds[d].at # "idle" /\ builds[d].undisturbed => builds[c].tag # builds[d].tag
  BY DEF ImgInv, Apart

LEMMA ImgBuilds ==
    ASSUME ImgInv, NEW c \in ImgClis, BuildImage(c)
    PROVE  ImgInv'
  <1> DEFINE r == builds[c]
             x == IF clusterKind = "kind" THEN "load" ELSE "export"
             dk == [dockerd EXCEPT ![r.tag] = Mine(c)]
  <1>1. r.at = "build" /\ UNCHANGED <<clusterKind, clock, staged, containerd, host>>
    BY DEF BuildImage, BuildAt
  <1>2. CASE MoveBuild(c, "failed") /\ UNCHANGED dockerd
    BY <1>1, <1>2, BuildFails
  <1>3. CASE dockerd' = [dockerd EXCEPT ![builds[c].tag] = Image(ContextTar(ImgContexts[c]))] /\ MoveBuild(c, x)
    <2>1. dockerd' = dk
      BY <1>3 DEF Mine
    <2>2. x \in BuildSteps /\ (clusterKind = "kind" => x = "load") /\ (clusterKind = "k3s" => x # "load")
          /\ x \in {"load", "export"}
      BY DEF BuildSteps
    <2>3. dk \in [Tags -> Images] /\ dk[r.tag] = Mine(c)
      BY BuildIs, MineIs
    <2> HIDE DEF x
    <2>4. PICK q \in BuildRecs :
            /\ builds' = [builds EXCEPT ![c] = q]
            /\ q.at = x /\ q.tag = r.tag /\ q.tmp = r.tmp /\ q.undisturbed = r.undisturbed
      BY <1>3, <2>2, Moved
    <2>6. BuildTrue(c, q, dk, staged, containerd, clusterKind)
      BY <2>2, <2>3, <2>4 DEF BuildTrue
    <2>7. \A d \in ImgClis \ {c} : BuildTrue(d, builds[d], dk, staged, containerd, clusterKind)
      BY <1>1, BuildIs, TagIsMine, OtherImage
    <2> HIDE DEF dk
    <2>8. builds[c].at # "idle" /\ q.tag = builds[c].tag /\ (q.undisturbed => builds[c].undisturbed)
      BY <1>1, <2>4
    <2> QED BY <1>1, <2>1, <2>3, <2>4, <2>6, <2>7, <2>8, BuildIs, OneBuild
  <1> QED BY <1>2, <1>3 DEF BuildImage

LEMMA ImgLoads ==
    ASSUME ImgInv, NEW c \in ImgClis, KindLoadImage(c)
    PROVE  ImgInv'
  <1> DEFINE r == builds[c]
             cd == [containerd EXCEPT ![r.tag] = dockerd[r.tag]]
  <1>1. r.at = "load" /\ UNCHANGED <<clusterKind, clock, dockerd, staged, host>>
    BY DEF KindLoadImage, BuildAt
  <1>2. CASE MoveBuild(c, "failed") /\ UNCHANGED containerd
    BY <1>1, <1>2, BuildFails
  <1>3. CASE containerd' = cd /\ MoveBuild(c, "available")
    <2>1. cd \in [Tags -> Images] /\ cd[r.tag] = dockerd[r.tag] /\ "available" \in BuildSteps
      BY BuildIs DEF BuildSteps
    <2>2. PICK q \in BuildRecs :
            /\ builds' = [builds EXCEPT ![c] = q]
            /\ q.at = "available" /\ q.tag = r.tag /\ q.tmp = r.tmp /\ q.undisturbed = r.undisturbed
      BY <1>3, <2>1, Moved
    <2>4. clusterKind = "kind"
      BY <1>1, BuildIs DEF BuildTrue
    <2>5. BuildTrue(c, q, dockerd, staged, cd, clusterKind)
      BY <1>1, <2>1, <2>2, <2>4, BuildIs DEF BuildTrue
    <2>6. \A d \in ImgClis \ {c} : BuildTrue(d, builds[d], dockerd, staged, cd, clusterKind)
      BY <1>1, BuildIs, TagIsMine, OtherImage
    <2> HIDE DEF cd
    <2>7. builds[c].at # "idle" /\ q.tag = builds[c].tag /\ (q.undisturbed => builds[c].undisturbed)
      BY <1>1, <2>2
    <2> QED BY <1>1, <1>3, <2>1, <2>2, <2>5, <2>6, <2>7, BuildIs, OneBuild
  <1> QED BY <1>2, <1>3 DEF KindLoadImage

LEMMA ImgExports ==
    ASSUME ImgInv, NEW c \in ImgClis, ExportToTempfile(c)
    PROVE  ImgInv'
  <1> DEFINE r == builds[c]
             tar == Tar(r.tag, dockerd[r.tag])
             q == [r EXCEPT !.at = "upload", !.tmp = tar]
  <1>1. r.at = "export" /\ UNCHANGED <<clusterKind, clock, dockerd, staged, containerd, host>>
    BY DEF ExportToTempfile, BuildAt
  <1>2. CASE MoveBuild(c, "failed")
    BY <1>1, <1>2, BuildFails
  <1>3. CASE builds' = [builds EXCEPT ![c].at = "upload", ![c].tmp = Tar(builds[c].tag, dockerd[builds[c].tag])]
    <2>1. r \in BuildRecs /\ builds \in [ImgClis -> BuildRecs] /\ dockerd[r.tag] \in Images /\ r.tag \in Tags
      BY BuildIs
    <2>2. tar \in Tars
      BY <2>1, TarIs
    <2>3. builds' = [builds EXCEPT ![c] = q]
      BY <1>3, <2>1
    <2> HIDE DEF tar
    <2>4. q \in BuildRecs /\ q.at = "upload" /\ q.tag = r.tag /\ q.tmp = tar /\ q.undisturbed = r.undisturbed
      BY <2>1, <2>2 DEF BuildRecs, BuildSteps
    <2> HIDE DEF q
    <2>5. clusterKind # "kind" /\ (r.undisturbed => dockerd[r.tag] = Mine(c))
      BY <1>1, BuildIs DEF BuildTrue
    <2>6. BuildTrue(c, q, dockerd, staged, containerd, clusterKind)
      BY <2>1, <2>4, <2>5 DEF BuildTrue, tar
    <2>7. builds[c].at # "idle" /\ q.tag = builds[c].tag /\ (q.undisturbed => builds[c].undisturbed)
      BY <1>1, <2>4
    <2> QED BY <1>1, <2>3, <2>4, <2>6, <2>7, BuildIs, OneBuild
  <1> QED BY <1>2, <1>3 DEF ExportToTempfile

\* A step at the import path disturbs the commands that are using it.
LEMMA PathStep ==
    ASSUME ImgInv, UNCHANGED <<clusterKind, clock, dockerd, containerd, host>>, NEW c \in ImgClis, NEW q \in BuildRecs,
           builds[c].at # "idle", q.tag = builds[c].tag, q.undisturbed => builds[c].undisturbed,
           builds' = [d \in ImgClis |-> IF d = c THEN q ELSE [builds[d] EXCEPT !.undisturbed = @ /\ ~Pushing(d)]],
           staged' \in Tars \cup {PartialTar}, BuildTrue(c, q, dockerd, staged', containerd, clusterKind),
           \A d \in ImgClis \ {c} :
              builds[d].undisturbed /\ builds[d].at = "available" /\ clusterKind = "k3s" =>
                 Harmless(d, builds[d].tag, staged')
    PROVE  ImgInv'
  <1> DEFINE p(d) == [builds[d] EXCEPT !.undisturbed = @ /\ ~Pushing(d)]
  <1>1. ASSUME NEW d \in ImgClis
        PROVE  /\ p(d) \in BuildRecs /\ p(d).at = builds[d].at /\ p(d).tag = builds[d].tag
               /\ p(d).tmp = builds[d].tmp /\ (p(d).undisturbed => builds[d].undisturbed /\ ~Pushing(d))
    <2> DEFINE b == builds[d].undisturbed /\ ~Pushing(d)
    <2>1. b \in BOOLEAN /\ builds[d] \in BuildRecs
      BY BuildIs
    <2>2. p(d) = [builds[d] EXCEPT !.undisturbed = b]
      BY <2>1 DEF BuildRecs
    <2> HIDE DEF b
    <2>3. /\ p(d) \in BuildRecs /\ p(d).undisturbed = b /\ p(d).at = builds[d].at /\ p(d).tag = builds[d].tag
          /\ p(d).tmp = builds[d].tmp
      BY <2>1, <2>2 DEF BuildRecs
    <2> QED BY <2>3 DEF b
  <1>2. builds' = [d \in ImgClis |-> IF d = c THEN q ELSE p(d)]
    OBVIOUS
  <1> HIDE DEF p
  <1>3. builds' \in [ImgClis -> BuildRecs] /\ builds'[c] = q /\ \A d \in ImgClis \ {c} : builds'[d] = p(d)
    BY <1>1, <1>2
  <1>4. Apart(builds')
    <2>1. Apart(builds)
      BY DEF ImgInv
    <2>2. ASSUME NEW d \in ImgClis
          PROVE  \/ builds'[d].at = "idle"
                 \/ /\ builds[d].at # "idle" /\ builds'[d].tag = builds[d].tag
                    /\ builds'[d].undisturbed => builds[d].undisturbed
      <3>1. CASE d = c
        BY <1>3, <3>1
      <3>2. CASE d # c
        BY <1>1, <1>3, <3>2
      <3> QED BY <3>1, <3>2
    <2> QED BY <2>1, <2>2, ApartKept
  <1>5. ASSUME NEW d \in ImgClis PROVE BuildTrue(d, builds'[d], dockerd, staged', containerd, clusterKind)
    <2>1. CASE d = c
      BY <1>3, <2>1
    <2>2. CASE d # c
      <3>1. builds'[d] = p(d) /\ BuildTrue(d, builds[d], dockerd, staged, containerd, clusterKind)
        BY <1>3, <2>2, BuildIs
      <3>2. p(d).undisturbed => builds[d].undisturbed /\ builds[d].at \notin {"import", "remove"}
        BY <1>1 DEF Pushing, BuildAt
      <3>3. builds[d].undisturbed /\ builds[d].at = "available" /\ clusterKind = "k3s" =>
                Harmless(d, builds[d].tag, staged')
        BY <2>2
      <3> DEFINE v == p(d)
      <3>4. v.at = builds[d].at /\ v.tag = builds[d].tag /\ v.tmp = builds[d].tmp
        BY <1>1
      <3> HIDE DEF Harmless, v
      <3>5. CASE ~v.undisturbed
        BY <3>1, <3>4, <3>5 DEF BuildTrue, v
      <3>6. CASE v.undisturbed
        <4>1. builds[d].undisturbed /\ v.at \notin {"import", "remove"}
          BY <3>2, <3>4, <3>6 DEF v
        <4>2. v.at = "available" =>
                containerd[v.tag] = Mine(d) /\ (clusterKind = "k3s" => Harmless(d, v.tag, staged'))
          BY <3>1, <3>3, <3>4, <4>1 DEF BuildTrue
        <4>3. BuildTrue(d, v, dockerd, staged', containerd, clusterKind)
          BY <3>1, <3>4, <4>1, <4>2 DEF BuildTrue
        <4> QED BY <3>1, <4>3 DEF v
      <3> QED BY <3>5, <3>6
    <2> QED BY <2>1, <2>2
  <1> QED BY <1>3, <1>4, <1>5, ImgIs, ImgStep DEF ImgTypes

LEMMA ImgUploads ==
    ASSUME ImgInv, NEW c \in ImgClis, UploadToContainer(c)
    PROVE  ImgInv'
  <1> DEFINE r == builds[c]
  <1>1. r.at = "upload" /\ UNCHANGED <<clusterKind, clock, dockerd, containerd, host>>
    BY DEF UploadToContainer, BuildAt
  <1>2. /\ r \in BuildRecs /\ r.tmp \in Tars /\ NoTar \in Tars
        /\ BuildTrue(c, r, dockerd, staged, containerd, clusterKind)
    BY BuildIs, TarIs
  <1>3. CASE /\ staged' = builds[c].tmp
             /\ builds' = [d \in ImgClis |->
                   IF d = c THEN [builds[c] EXCEPT !.at = "import", !.tmp = NoTar,
                                    !.undisturbed = @ /\ \A e \in ImgClis \ {c} : ~Pushing(e)]
                   ELSE [builds[d] EXCEPT !.undisturbed = @ /\ ~Pushing(d)]]
    <2> DEFINE b == r.undisturbed /\ \A e \in ImgClis \ {c} : ~Pushing(e)
               q == [r EXCEPT !.at = "import", !.tmp = NoTar, !.undisturbed = b]
    <2>1. builds' = [d \in ImgClis |-> IF d = c THEN q ELSE [builds[d] EXCEPT !.undisturbed = @ /\ ~Pushing(d)]]
      BY <1>3, <1>2 DEF BuildRecs
    <2>2. b \in BOOLEAN /\ (b => r.undisturbed)
      OBVIOUS
    <2> HIDE DEF b
    <2>3. q \in BuildRecs /\ q.at = "import" /\ q.tag = r.tag /\ (q.undisturbed => r.undisturbed)
      BY <1>2, <2>2 DEF BuildRecs, BuildSteps
    <2> HIDE DEF q
    <2>4. PICK i \in Images : r.tmp = Tar(r.tag, i)
      BY <1>1, <1>2 DEF BuildTrue
    <2>5. BuildTrue(c, q, dockerd, r.tmp, containerd, clusterKind)
      BY <1>1, <1>2, <2>3 DEF BuildTrue
    <2>6. ASSUME NEW d \in ImgClis \ {c}, builds[d].undisturbed, builds[d].at = "available"
          PROVE  Harmless(d, builds[d].tag, r.tmp)
      <3>1. r.tag # builds[d].tag
        BY <1>1, <2>6, TagIsMine
      <3> QED BY <2>4, <3>1, TarIs DEF Harmless
    <2> QED BY <1>1, <1>2, <1>3, <2>1, <2>3, <2>5, <2>6, PathStep
  <1>4. CASE /\ staged' = PartialTar
             /\ builds' = [d \in ImgClis |->
                   IF d = c THEN [builds[c] EXCEPT !.at = "failed", !.tmp = NoTar]
                   ELSE [builds[d] EXCEPT !.undisturbed = @ /\ ~Pushing(d)]]
    <2> DEFINE q == [r EXCEPT !.at = "failed", !.tmp = NoTar]
    <2>1. builds' = [d \in ImgClis |-> IF d = c THEN q ELSE [builds[d] EXCEPT !.undisturbed = @ /\ ~Pushing(d)]]
      BY <1>4
    <2>2. q \in BuildRecs /\ q.at = "failed" /\ q.tag = r.tag /\ (q.undisturbed => r.undisturbed)
      BY <1>2 DEF BuildRecs, BuildSteps
    <2> HIDE DEF q
    <2>3. BuildTrue(c, q, dockerd, PartialTar, containerd, clusterKind)
      BY <2>2, BuildOver
    <2>4. \A d \in ImgClis : Harmless(d, builds[d].tag, PartialTar)
      BY TarIs DEF Harmless
    <2> QED BY <1>1, <1>4, <2>1, <2>2, <2>3, <2>4, PathStep
  <1> QED BY <1>3, <1>4 DEF UploadToContainer

LEMMA ImgRemoves ==
    ASSUME ImgInv, NEW c \in ImgClis, RemoveStaged(c)
    PROVE  ImgInv'
  <1> DEFINE r == builds[c]
             q == [r EXCEPT !.at = "available"]
  <1>1. r.at = "remove" /\ staged' \in {NoTar, staged} /\ UNCHANGED <<clusterKind, clock, dockerd, containerd, host>>
    BY DEF RemoveStaged, BuildAt
  <1>2. builds' = [d \in ImgClis |-> IF d = c THEN q ELSE [builds[d] EXCEPT !.undisturbed = @ /\ ~Pushing(d)]]
    BY DEF RemoveStaged
  <1>3. r \in BuildRecs /\ staged' \in Tars \cup {PartialTar}
    BY <1>1, BuildIs, TarIs
  <1>4. q \in BuildRecs /\ q.at = "available" /\ q.tag = r.tag /\ q.tmp = r.tmp /\ q.undisturbed = r.undisturbed
    BY <1>3 DEF BuildRecs, BuildSteps
  <1> HIDE DEF q
  <1>5. ASSUME NEW d \in ImgClis, Harmless(d, builds[d].tag, staged) PROVE Harmless(d, builds[d].tag, staged')
    BY <1>1, <1>5, TarIs DEF Harmless
  <1>6. ASSUME NEW d \in ImgClis, builds[d].undisturbed, builds[d].at \in {"remove", "available"}, clusterKind = "k3s"
        PROVE  Harmless(d, builds[d].tag, staged')
    <2>1. BuildTrue(d, builds[d], dockerd, staged, containerd, clusterKind)
      BY BuildIs
    <2> HIDE DEF Harmless
    <2>2. Harmless(d, builds[d].tag, staged)
      BY <1>6, <2>1 DEF BuildTrue
    <2> QED BY <1>5, <2>2
  <1>7. BuildTrue(c, q, dockerd, staged', containerd, clusterKind)
    <2>1. BuildTrue(c, r, dockerd, staged, containerd, clusterKind)
      BY BuildIs
    <2>2. r.undisturbed /\ clusterKind = "k3s" => Harmless(c, r.tag, staged')
      BY <1>1, <1>6
    <2> HIDE DEF Harmless
    <2> QED BY <1>1, <1>4, <2>1, <2>2 DEF BuildTrue
  <1> QED BY <1>1, <1>2, <1>3, <1>4, <1>6, <1>7, PathStep

LEMMA ImgImports ==
    ASSUME ImgInv, NEW c \in ImgClis, ImportImages(c)
    PROVE  ImgInv'
  <1> DEFINE r == builds[c]
             cd == [containerd EXCEPT ![staged.tag] = staged.image]
  <1>1. r.at = "import" /\ UNCHANGED <<clusterKind, clock, dockerd, staged, host>>
    BY DEF ImportImages, BuildAt
  <1>2. CASE MoveBuild(c, AfterImport(FALSE)) /\ UNCHANGED containerd
    <2>1. MoveBuild(c, "failed")
      BY <1>2 DEF AfterImport
    <2> QED BY <1>1, <1>2, <2>1, BuildFails
  <1>3. CASE CanImport /\ containerd' = cd /\ MoveBuild(c, AfterImport(TRUE))
    <2>1. MoveBuild(c, "remove") /\ "remove" \in BuildSteps
      BY <1>3 DEF AfterImport, BuildSteps
    <2>2. PICK q \in BuildRecs :
            /\ builds' = [builds EXCEPT ![c] = q]
            /\ q.at = "remove" /\ q.tag = r.tag /\ q.tmp = r.tmp /\ q.undisturbed = r.undisturbed
      BY <2>1, Moved
    <2>3. /\ r \in BuildRecs /\ r.tag \in Tags /\ containerd \in [Tags -> Images]
          /\ BuildTrue(c, r, dockerd, staged, containerd, clusterKind)
          /\ staged.is = "tar" /\ staged.tag \in Tags /\ staged.image \in Images
      BY <1>3, BuildIs, TarIs DEF CanImport
    <2>4. cd \in [Tags -> Images]
      BY <2>3
    <2>5. clusterKind = "k3s"
      BY <1>1, <2>3, BuildIs DEF BuildTrue
    <2>6. ASSUME q.undisturbed PROVE cd[q.tag] = Mine(c) /\ Harmless(c, q.tag, staged)
      <3>1. staged = Tar(r.tag, Mine(c))
        BY <1>1, <2>2, <2>3, <2>6 DEF BuildTrue
      <3>2. staged.tag = q.tag /\ staged.image = Mine(c)
        BY <2>2, <3>1, TarIs
      <3> QED BY <2>2, <2>3, <3>2 DEF Harmless
    <2>7. ASSUME NEW d \in ImgClis \ {c} PROVE BuildTrue(d, builds[d], dockerd, staged, cd, clusterKind)
      <3> DEFINE s == builds[d]
      <3>1. BuildTrue(d, s, dockerd, staged, containerd, clusterKind) /\ s.tag \in Tags
        BY BuildIs
      <3>2. ASSUME s.undisturbed, s.at \in {"remove", "available"} PROVE cd[s.tag] = Mine(d)
        <4>1. containerd[s.tag] = Mine(d) /\ Harmless(d, s.tag, staged)
          BY <2>5, <3>1, <3>2 DEF BuildTrue
        <4>2. CASE staged.tag # s.tag
          BY <2>3, <3>1, <4>1, <4>2
        <4>3. CASE staged.tag = s.tag
          <5>1. staged.image = Mine(d)
            BY <2>3, <4>1, <4>3 DEF Harmless
          <5> QED BY <2>3, <4>3, <5>1
        <4> QED BY <4>2, <4>3
      <3> HIDE DEF s, cd, Harmless
      <3> QED BY <3>1, <3>2 DEF BuildTrue, s
    <2> HIDE DEF cd, Harmless
    <2>8. BuildTrue(c, q, dockerd, staged, cd, clusterKind)
      BY <2>2, <2>5, <2>6 DEF BuildTrue
    <2>9. builds[c].at # "idle" /\ q.tag = builds[c].tag /\ (q.undisturbed => builds[c].undisturbed)
      BY <1>1, <2>2
    <2> QED BY <1>1, <1>3, <2>2, <2>4, <2>7, <2>8, <2>9, BuildIs, OneBuild
  <1> QED BY <1>2, <1>3 DEF ImportImages

LEMMA ImgEnds ==
    ASSUME ImgInv, NEW c \in ImgClis, EndCommand(c)
    PROVE  ImgInv'
  <1>1. builds' = [builds EXCEPT ![c] = IdleBuild] /\ UNCHANGED <<clusterKind, clock, dockerd, staged, containerd, host>>
    BY DEF EndCommand
  <1>2. IdleBuild.at = "idle" /\ BuildTrue(c, IdleBuild, dockerd, staged, containerd, clusterKind)
    BY DEF IdleBuild, BuildTrue
  <1> HIDE DEF IdleBuild
  <1> QED BY <1>1, <1>2, IdleIs, BuildIs, OneBuild

\* A command's image has the files its .dockerignore leaves in.
LEMMA MineIsRight ==
    ASSUME NEW c \in ImgClis, NEW f \in ImgContexts[c].files
    PROVE  LET pats == ImgContexts[c].patterns
               hit(i, p, d) == GlobMatch(pats[i], p, d)
           IN  /\ (\E i \in DOMAIN pats : /\ hit(i, f, FALSE) /\ ~pats[i].negated
                                          /\ \A j \in DOMAIN pats : j > i => ~hit(j, f, FALSE))
                     => f \notin Mine(c).files
               /\ (\A i \in DOMAIN pats, p \in ParentPaths(f) : ~hit(i, p, p # f)) => f \in Mine(c).files
  <1> DEFINE pats == ImgContexts[c].patterns
             tar == ContextTar(ImgContexts[c])
  <1>1. Mine(c).files = tar
    BY MineIs
  <1>2. DOMAIN pats = 1..Len(pats) /\ Len(pats) \in Nat /\ f \in Seq(STRING) /\ f # <<>>
    BY ImgAssumption
  <1>3. ASSUME NEW i \in DOMAIN pats, GlobMatch(pats[i], f, FALSE), ~pats[i].negated,
               \A j \in DOMAIN pats : j > i => ~GlobMatch(pats[j], f, FALSE)
        PROVE  f \notin tar
    <2>1. f \in ParentPaths(f)
      <3>1. Len(f) \in 1..Len(f) /\ f = SubSeq(f, 1, Len(f))
        <4>1. Len(f) \in Nat \ {0}
          BY <1>2
        <4>2. SubSeq(f, 1, Len(f)) = [n \in 1..Len(f) |-> f[n]]
          BY <1>2
        <4>3. f = [n \in 1..Len(f) |-> f[n]]
          BY <1>2
        <4> QED BY <4>1, <4>2, <4>3
      <3> QED BY <3>1 DEF ParentPaths
    <2>2. IsIgnored(f, FALSE, pats)
      <3>1. \A j \in (i + 1)..Len(pats) : j \in DOMAIN pats /\ j > i
        BY <1>2
      <3> QED BY <1>3, <3>1 DEF IsIgnored
    <2> QED BY <2>1, <2>2 DEF ContextTar
  <1>4. ASSUME \A i \in DOMAIN pats, p \in ParentPaths(f) : ~GlobMatch(pats[i], p, p # f) PROVE f \in tar
    <2>1. \A p \in ParentPaths(f) : ~IsIgnored(p, p # f, pats)
      BY <1>4 DEF IsIgnored
    <2> QED BY <2>1 DEF ContextTar
  <1> QED BY <1>1, <1>3, <1>4

\* ImageDelivery, build_and_push_image and its callers: for any commands,
\* directories and .dockerignore files, however builds and pushes interleave,
\* fail and are killed, an image that is announced as available by a command
\* that shared neither its second nor the import path is the announced one.
THEOREM AnnouncedIsDelivered == ImgSpec => []DeliverySound
  <1>1. ImgInit => ImgInv
    <2> SUFFICES ASSUME ImgInit PROVE ImgInv
      OBVIOUS
    <2>1. 0 \in Tags /\ NoImage \in Images /\ IdleBuild.at = "idle" /\ 0 \in 0..MaxPulls
      BY ImgAssumption DEF Tags, Images, IdleBuild
    <2>2. ImgTypeOK
      <3>1. builds \in [ImgClis -> BuildRecs] /\ clusterKind \in {"kind", "k3s"} /\ clock \in Tags
        BY <2>1, IdleIs DEF ImgInit
      <3>2. dockerd \in [Tags -> Images] /\ containerd \in [Tags -> Images] /\ staged \in Tars
        BY <2>1, TarIs DEF ImgInit
      <3>3. host \in HostRecs
        BY <2>1 DEF ImgInit, HostRecs
      <3> QED BY <3>1, <3>2, <3>3 DEF ImgTypeOK, BuildRecs, BuildSteps, HostRecs
    <2>3. \A c \in ImgClis : builds[c].at = "idle"
      BY <2>1 DEF ImgInit
    <2> QED BY <2>2, <2>3, BuildOver DEF ImgInv, Apart
  <1>2. ImgInv /\ [ImgNext]_imgVars => ImgInv'
    <2> SUFFICES ASSUME ImgInv, [ImgNext]_imgVars PROVE ImgInv'
      OBVIOUS
    <2>0. clock \in Tags /\ host \in HostRecs
      BY DEF ImgInv, ImgTypeOK, HostRecs
    <2>1. CASE TickSecond
      <3>1. clock' \in Tags
        BY <2>0, <2>1, ImgAssumption DEF TickSecond, Tags
      <3> QED BY <2>0, <2>1, <3>1, HostStep DEF TickSecond
    <2>2. CASE StartPull
      <3>0. host.pulls \in 0..MaxPulls /\ host.pulls < MaxPulls
        BY <2>0, <2>2 DEF StartPull, HostRecs
      <3>p. host.pulls + 1 \in 0..MaxPulls
        BY <3>0, ImgAssumption
      <3>w. PICK remote \in BOOLEAN :
              host' = [host EXCEPT !.remote = remote, !.pulls = host.pulls + 1,
                         !.at = IF ~remote /\ host.arch # "none" THEN "ready" ELSE "pulling"]
        BY <2>2 DEF StartPull
      <3> DEFINE x == IF ~remote /\ host.arch # "none" THEN "ready" ELSE "pulling"
                 k == host.pulls + 1
      <3>x. x \in {"ready", "pulling"} /\ k \in 0..MaxPulls
        BY <3>p
      <3>e. host' = [host EXCEPT !.remote = remote, !.pulls = k, !.at = x]
        BY <3>w
      <3> HIDE DEF x, k
      <3>1. host' \in HostRecs
        BY <2>0, <3>x, <3>e DEF HostRecs
      <3> QED BY <2>0, <2>2, <3>1, HostStep DEF StartPull
    <2>3. CASE PullImage
      <3>1. host' \in HostRecs
        BY <2>0, <2>3 DEF PullImage, HostRecs, Archs, HostArch
      <3> QED BY <2>0, <2>3, <3>1, HostStep DEF PullImage
    <2>4. CASE VerifyArch
      <3>1. host' \in HostRecs
        BY <2>0, <2>4 DEF VerifyArch, HostRecs
      <3> QED BY <2>0, <2>4, <3>1, HostStep DEF VerifyArch
    <2>5. ASSUME NEW c \in ImgClis, BuildFromDockerfile(c) PROVE ImgInv'
      BY <2>5, ImgBuildStarts
    <2>6. ASSUME NEW c \in ImgClis, BuildImage(c) PROVE ImgInv'
      BY <2>6, ImgBuilds
    <2>7. ASSUME NEW c \in ImgClis, KindLoadImage(c) PROVE ImgInv'
      BY <2>7, ImgLoads
    <2>8. ASSUME NEW c \in ImgClis, ExportToTempfile(c) PROVE ImgInv'
      BY <2>8, ImgExports
    <2>9. ASSUME NEW c \in ImgClis, UploadToContainer(c) PROVE ImgInv'
      BY <2>9, ImgUploads
    <2>10. ASSUME NEW c \in ImgClis, ImportImages(c) PROVE ImgInv'
      BY <2>10, ImgImports
    <2>11. ASSUME NEW c \in ImgClis, RemoveStaged(c) PROVE ImgInv'
      BY <2>11, ImgRemoves
    <2>12. ASSUME NEW c \in ImgClis, EndCommand(c) PROVE ImgInv'
      BY <2>12, ImgEnds
    <2>13. CASE UNCHANGED imgVars
      BY <2>0, <2>13, HostStep DEF imgVars
    <2> QED BY <2>1, <2>2, <2>3, <2>4, <2>5, <2>6, <2>7, <2>8, <2>9, <2>10, <2>11, <2>12, <2>13 DEF ImgNext
  <1>3. ImgInv => DeliverySound
    <2> SUFFICES ASSUME ImgInv, NEW c \in ImgClis, BuildAt(c, "available"), builds[c].undisturbed
                 PROVE  containerd[builds[c].tag] = Mine(c)
      <3>1. ASSUME NEW c \in ImgClis, containerd[builds[c].tag] = Mine(c), ImgInv
            PROVE  LET image == containerd[builds[c].tag]
                       pats == ImgContexts[c].patterns
                       hit(i, p, d) == GlobMatch(pats[i], p, d)
                   IN /\ image.is = "image"
                      /\ \A f \in ImgContexts[c].files :
                            /\ (\E i \in DOMAIN pats : /\ hit(i, f, FALSE) /\ ~pats[i].negated
                                                       /\ \A j \in DOMAIN pats : j > i => ~hit(j, f, FALSE))
                                  => f \notin image.files
                            /\ (\A i \in DOMAIN pats, p \in ParentPaths(f) : ~hit(i, p, p # f))
                                  => f \in image.files
        BY <3>1, MineIs, MineIsRight
      <3> HIDE DEF Mine
      <3> QED BY <3>1 DEF DeliverySound, AvailableIsMine, ImgInv
    <2> QED BY BuildIs DEF BuildTrue, BuildAt
  <1> QED BY <1>1, <1>2, <1>3, PTL DEF ImgSpec

-----------------------------------------------------------------------------
(* TuiLogView: the indices into a list that grows, shrinks and is redrawn.  *)

Views ==
    [lines : Seq(LogLine), filter : Filters, scroll : Nat, cursor : Nat, autoscroll : BOOLEAN,
     anchor : Nat \cup {NoIndex}, detail : Nat \cup {NoIndex}, height : Nat]

\* Before a frame is drawn the first row shown is within the list or just below
\* it, and below it the cursor is on the first row; the drawn cursor is on a line.
Anchored(v) == v.anchor # NoIndex => v.anchor <= FilteredLen(v)
Loose(v) ==
    /\ v.scroll <= FilteredLen(v) /\ (v.scroll = FilteredLen(v) => v.cursor = 0)
    /\ Anchored(v) /\ v.height > 0
Placed(v) ==
    /\ (v.scroll = FilteredLen(v) /\ v.cursor = 0) \/ v.scroll + v.cursor < FilteredLen(v)
    /\ Anchored(v) /\ v.height > 0

LogInv ==
    /\ LogTypeOK
    /\ stream.phase # "none" => stream.of \in LogSandboxes
    /\ IF pane = "logs" THEN Placed(view) ELSE view.anchor = NoIndex

LEMMA PrefixFinite == \A k \in Nat : IsFiniteSet(1..k)
  <1> TAKE k \in Nat
  <1>1. 1 \in Int /\ k \in Int
    OBVIOUS
  <1> QED BY <1>1, FS_Interval

LEMMA ListLength ==
    ASSUME NEW v \in Views
    PROVE  /\ FilteredLen(v) \in Nat
           /\ v.lines = <<>> => FilteredLen(v) = 0
           /\ \A u : u.lines = v.lines /\ u.filter = v.filter => FilteredLen(u) = FilteredLen(v)
  <1>1. v.lines \in Seq(LogLine) /\ DOMAIN v.lines = 1..Len(v.lines) /\ Len(v.lines) \in Nat
    BY DEF Views
  <1>2. IsFiniteSet(1..Len(v.lines))
    BY <1>1, PrefixFinite
  <1>3. IsFiniteSet(FilteredLines(v))
    BY <1>1, <1>2, FS_Subset DEF FilteredLines
  <1>4. FilteredLen(v) \in Nat
    BY <1>3, FS_CardinalityType DEF FilteredLen
  <1>5. v.lines = <<>> => FilteredLines(v) = {}
    BY DEF FilteredLines
  <1>6. v.lines = <<>> => FilteredLen(v) = 0
    BY <1>5, FS_EmptySet DEF FilteredLen
  <1> QED BY <1>4, <1>6 DEF FilteredLen, FilteredLines

LEMMA ListGrows ==
    ASSUME NEW v \in Views, NEW ls \in Seq(LogLine), NEW u \in Views, u.lines = v.lines \o ls, u.filter = v.filter
    PROVE  FilteredLen(v) <= FilteredLen(u)
  <1>1. u.lines \in Seq(LogLine) /\ v.lines \in Seq(LogLine) /\ DOMAIN u.lines = 1..Len(u.lines) /\ Len(u.lines) \in Nat
    BY DEF Views
  <1>2. IsFiniteSet(FilteredLines(u))
    <2>1. IsFiniteSet(1..Len(u.lines))
      BY <1>1, PrefixFinite
    <2> QED BY <1>1, <2>1, FS_Subset DEF FilteredLines
  <1>3. \A i \in DOMAIN v.lines : i \in DOMAIN u.lines /\ u.lines[i] = v.lines[i]
    <2> DEFINE s == v.lines
    <2>1. s \in Seq(LogLine) /\ u.lines = s \o ls
      BY <1>1
    <2> HIDE DEF s
    <2>2. \A i \in 1..Len(s) : i \in 1..(Len(s) + Len(ls)) /\ (s \o ls)[i] = s[i]
      BY <2>1
    <2>3. DOMAIN s = 1..Len(s) /\ DOMAIN (s \o ls) = 1..(Len(s) + Len(ls))
      BY <2>1
    <2> QED BY <2>1, <2>2, <2>3 DEF s
  <1>4. FilteredLines(v) \subseteq FilteredLines(u)
    BY <1>3 DEF FilteredLines
  <1> QED BY <1>2, <1>4, FS_Subset DEF FilteredLen

LEMMA DrawnIs ==
    ASSUME NEW v \in Views, NEW h \in Nat \ {0}, v.scroll <= FilteredLen(v), v.scroll = FilteredLen(v) => v.cursor = 0,
           Anchored(v)
    PROVE  /\ Drawn(v, h) \in Views /\ Placed(Drawn(v, h))
           /\ Drawn(v, h).anchor = v.anchor
  <1> DEFINE w == [v EXCEPT !.height = h]
             n == FilteredLen(v)
             c == Least(w.cursor, Visible(w) - 1)
             x == [w EXCEPT !.cursor = c]
  <1>1. w \in Views /\ w.lines = v.lines /\ w.filter = v.filter /\ w.scroll = v.scroll /\ w.cursor = v.cursor
        /\ w.anchor = v.anchor /\ w.height = h
    BY DEF Views
  <1>2. n \in Nat /\ FilteredLen(w) = n
    BY <1>1, ListLength
  <1>3. Drawn(v, h) = IF Visible(w) > 0 THEN x ELSE w
    BY DEF Drawn
  <1>4. v.scroll \in Nat /\ v.cursor \in Nat /\ v.scroll <= n /\ (v.scroll = n => v.cursor = 0) /\ (v.anchor # NoIndex => v.anchor <= n)
    BY DEF Views, Anchored
  <1> HIDE DEF w, n
  <1>5. Visible(w) \in Nat /\ (Visible(w) = 0 <=> v.scroll = n) /\ (v.scroll < n => v.scroll + Visible(w) <= n)
    BY <1>1, <1>2, <1>4 DEF Visible, Least, Minus
  <1>6. CASE Visible(w) = 0
    <2>1. Drawn(v, h) = w
      BY <1>3, <1>5, <1>6
    <2> QED BY <1>1, <1>2, <1>4, <1>5, <1>6, <2>1 DEF Placed, Anchored
  <1>7. CASE Visible(w) # 0
    <2>1. c \in Nat /\ c <= Visible(w) - 1
      BY <1>1, <1>4, <1>5, <1>7 DEF Least
    <2> HIDE DEF c
    <2>2. x \in Views /\ x.lines = w.lines /\ x.filter = w.filter /\ x.scroll = w.scroll /\ x.cursor = c
          /\ x.anchor = w.anchor /\ x.height = w.height
      BY <1>1, <2>1 DEF Views
    <2> HIDE DEF x
    <2>3. FilteredLen(x) = n
      BY <1>1, <1>2, <2>2, ListLength
    <2>4. x.scroll + x.cursor < n
      BY <1>1, <1>2, <1>4, <1>5, <1>7, <2>1, <2>2
    <2>5. Drawn(v, h) = x
      BY <1>3, <1>5, <1>7
    <2> QED BY <1>1, <1>4, <2>2, <2>3, <2>4, <2>5 DEF Placed, Anchored
  <1> QED BY <1>6, <1>7

LEMMA ShownIs ==
    ASSUME NEW v \in Views, NEW p \in {"dashboard", "policy", "draft", "logs"}, Shown(v, p),
           IF p = "logs" THEN Loose(v) ELSE v.anchor = NoIndex
    PROVE  /\ view' \in Views /\ pane' \in {"dashboard", "policy", "draft", "logs"}
           /\ IF pane' = "logs" THEN Placed(view') ELSE view'.anchor = NoIndex
  <1>1. CASE p = "logs"
    <2>1. v.height \in Nat \ {0}
      BY <1>1 DEF Loose, Views
    <2>2. pane' = "logs" /\ view' = Drawn(v, v.height)
      BY <1>1 DEF Shown
    <2>3. v.scroll <= FilteredLen(v) /\ (v.scroll = FilteredLen(v) => v.cursor = 0) /\ Anchored(v)
      BY <1>1 DEF Loose
    <2> QED BY <2>1, <2>2, <2>3, DrawnIs
  <1>2. CASE p # "logs"
    BY <1>2 DEF Shown
  <1> QED BY <1>1, <1>2

\* A change of the view that leaves the list as it is.
Relisted(u, v) ==
    u \in Views /\ u.lines = v.lines /\ u.filter = v.filter /\ u.height = v.height

LEMMA AutoscrollIs ==
    ASSUME NEW v \in Views
    PROVE  AutoscrollOffset(v) \in Nat /\ AutoscrollOffset(v) <= FilteredLen(v)
  <1>1. FilteredLen(v) \in Nat /\ v.height \in Nat
    BY ListLength DEF Views
  <1> QED BY <1>1, LogAssumption DEF AutoscrollOffset, Minus

LEMMA LooseIs ==
    ASSUME NEW v \in Views, Placed(v), NEW u, Relisted(u, v), u.scroll <= FilteredLen(v),
           u.scroll = FilteredLen(v) => u.cursor = 0, u.anchor \in {NoIndex, v.anchor} \/ u.anchor <= FilteredLen(v)
    PROVE  u \in Views /\ Loose(u)
  <1>1. FilteredLen(u) = FilteredLen(v) /\ u \in Views /\ u.height = v.height
    BY ListLength DEF Relisted
  <1> QED BY <1>1 DEF Loose, Placed, Anchored

LEMMA PlacedIs ==
    ASSUME NEW v \in Views, Placed(v)
    PROVE  /\ FilteredLen(v) \in Nat /\ v.scroll \in Nat /\ v.cursor \in Nat /\ v.height \in Nat /\ v.height > 0
           /\ v.scroll <= FilteredLen(v) /\ (v.scroll = FilteredLen(v) => v.cursor = 0)
           /\ v.scroll + v.cursor <= FilteredLen(v)
           /\ Visible(v) \in Nat /\ (Visible(v) = 0 <=> v.scroll = FilteredLen(v)) /\ v.scroll + Visible(v) <= FilteredLen(v)
           /\ v.anchor \in Nat \cup {NoIndex}
  <1>1. /\ FilteredLen(v) \in Nat /\ v.scroll \in Nat /\ v.cursor \in Nat /\ v.height \in Nat /\ v.height > 0
        /\ v.anchor \in Nat \cup {NoIndex}
    BY ListLength DEF Views, Placed
  <1>2. (v.scroll = FilteredLen(v) /\ v.cursor = 0) \/ v.scroll + v.cursor < FilteredLen(v)
    BY DEF Placed
  <1>3. v.scroll <= FilteredLen(v) /\ (v.scroll = FilteredLen(v) => v.cursor = 0) /\ v.scroll + v.cursor <= FilteredLen(v)
    BY <1>1, <1>2
  <1>4. Visible(v) \in Nat /\ (Visible(v) = 0 <=> v.scroll = FilteredLen(v)) /\ v.scroll + Visible(v) <= FilteredLen(v)
    <2> DEFINE n == FilteredLen(v)
               s == v.scroll
               h == v.height
    <2>1. n \in Nat /\ s \in Nat /\ h \in Nat /\ h > 0 /\ s <= n
      BY <1>1, <1>3
    <2>2. Visible(v) = Least(Minus(n, s), h)
      BY DEF Visible
    <2> HIDE DEF n, s, h
    <2>3. Minus(n, s) = n - s
      BY <2>1 DEF Minus
    <2>4. Visible(v) \in Nat /\ (Visible(v) = 0 <=> s = n) /\ s + Visible(v) <= n
      BY <2>1, <2>2, <2>3 DEF Least
    <2> QED BY <2>4 DEF n, s
  <1> QED BY <1>1, <1>3, <1>4

LEMMA ScrollDownLoose ==
    ASSUME NEW v \in Views, Placed(v)
    PROVE  ScrollDown(v) \in Views /\ Loose(ScrollDown(v))
  <1> DEFINE n == FilteredLen(v)
             m == Minus(n, Least(v.height, n))
             a == [v EXCEPT !.cursor = @ + 1]
             b == [v EXCEPT !.scroll = @ + 1]
  <1>1. /\ n \in Nat /\ v.scroll \in Nat /\ v.cursor \in Nat /\ v.height \in Nat /\ v.height > 0
        /\ v.scroll <= n /\ (v.scroll = n => v.cursor = 0)
        /\ Visible(v) \in Nat /\ (Visible(v) = 0 <=> v.scroll = n) /\ v.scroll + Visible(v) <= n
    BY PlacedIs
  <1>2. Relisted(a, v) /\ a.scroll = v.scroll /\ a.cursor = v.cursor + 1 /\ a.anchor = v.anchor
    BY <1>1 DEF Relisted, Views
  <1>3. Relisted(b, v) /\ b.scroll = v.scroll + 1 /\ b.cursor = v.cursor /\ b.anchor = v.anchor
    BY <1>1 DEF Relisted, Views
  <1>4. ScrollDown(v) = IF n = 0 THEN v ELSE IF v.cursor < Minus(Visible(v), 1) THEN a ELSE IF v.scroll < m THEN b ELSE v
    BY DEF ScrollDown
  <1>5. Loose(v)
    BY <1>1 DEF Placed, Loose
  <1>6. v.cursor < Minus(Visible(v), 1) => v.scroll # n
    BY <1>1 DEF Minus
  <1>7. n # 0 /\ v.scroll < m => v.scroll + 1 < n
    BY <1>1 DEF Minus, Least
  <1> HIDE DEF n, m, a, b
  <1>8. v.cursor < Minus(Visible(v), 1) => a \in Views /\ Loose(a)
    BY <1>1, <1>2, <1>6, LooseIs DEF n
  <1>9. n # 0 /\ v.scroll < m => b \in Views /\ Loose(b)
    <2> SUFFICES ASSUME n # 0, v.scroll < m PROVE b \in Views /\ Loose(b)
      OBVIOUS
    <2>1. b.scroll < n
      BY <1>3, <1>7
    <2>2. b.scroll <= n /\ b.scroll # n
      BY <1>1, <1>3, <2>1
    <2> QED BY <1>3, <2>2, LooseIs DEF n
  <1> QED BY <1>4, <1>5, <1>8, <1>9

LEMMA ScrollUpLoose ==
    ASSUME NEW v \in Views, Placed(v)
    PROVE  ScrollUp(v) \in Views /\ Loose(ScrollUp(v))
  <1> DEFINE n == FilteredLen(v)
             w == [v EXCEPT !.autoscroll = FALSE]
             a == [w EXCEPT !.cursor = @ - 1]
             b == [w EXCEPT !.scroll = Minus(@, 1)]
  <1>1. /\ n \in Nat /\ v.scroll \in Nat /\ v.cursor \in Nat /\ v.scroll <= n /\ (v.scroll = n => v.cursor = 0)
    BY PlacedIs
  <1>2. w \in Views /\ w.lines = v.lines /\ w.filter = v.filter /\ w.height = v.height /\ w.scroll = v.scroll
        /\ w.cursor = v.cursor /\ w.anchor = v.anchor
    BY DEF Views
  <1>3. ScrollUp(v) = IF v.cursor > 0 THEN a ELSE b
    BY DEF ScrollUp
  <1> HIDE DEF w
  <1>4. v.cursor > 0 => Relisted(a, v) /\ a.scroll = v.scroll /\ a.anchor = v.anchor
    BY <1>1, <1>2 DEF Relisted, Views
  <1>m. Minus(v.scroll, 1) \in Nat /\ Minus(v.scroll, 1) <= n /\ (Minus(v.scroll, 1) # n \/ n = 0)
    BY <1>1 DEF Minus
  <1>5. Relisted(b, v) /\ b.scroll = Minus(v.scroll, 1) /\ b.anchor = v.anchor /\ b.cursor = v.cursor
    BY <1>1, <1>2, <1>m DEF Relisted, Views
  <1> HIDE DEF n, a, b
  <1>6. v.cursor > 0 => a \in Views /\ Loose(a)
    BY <1>1, <1>4, LooseIs DEF n
  <1>7. ~(v.cursor > 0) => b.cursor = 0
    BY <1>1, <1>5
  <1>8. ~(v.cursor > 0) => b \in Views /\ Loose(b)
    BY <1>m, <1>5, <1>7, LooseIs DEF n
  <1> QED BY <1>3, <1>6, <1>8

LEMMA FollowLoose ==
    ASSUME NEW v \in Views, Placed(v)
    PROVE  Follow(v) \in Views /\ Loose(Follow(v))
  <1> DEFINE n == FilteredLen(v)
             o == AutoscrollOffset(v)
             w == [v EXCEPT !.anchor = NoIndex, !.autoscroll = TRUE, !.scroll = o]
             c == Least(Minus(Minus(FilteredLen(w), w.scroll), 1), Minus(w.height, 1))
             x == [w EXCEPT !.cursor = c]
  <1>1. n \in Nat /\ o \in Nat /\ o <= n /\ v.height \in Nat
    BY PlacedIs, AutoscrollIs
  <1>2. Follow(v) = x
    BY DEF Follow
  <1> HIDE DEF o
  <1>3. w \in Views /\ w.lines = v.lines /\ w.filter = v.filter /\ w.height = v.height /\ w.scroll = o /\ w.anchor = NoIndex
    BY <1>1 DEF Views
  <1>4. FilteredLen(w) = n
    BY <1>3, ListLength
  <1> HIDE DEF w, n
  <1>5. c \in Nat /\ (o = n => c = 0)
    BY <1>1, <1>3, <1>4 DEF Least, Minus
  <1> HIDE DEF c
  <1>6. Relisted(x, v) /\ x.scroll = o /\ x.cursor = c /\ x.anchor = NoIndex
    BY <1>3, <1>5 DEF Relisted, Views
  <1> HIDE DEF x
  <1> QED BY <1>1, <1>2, <1>5, <1>6, LooseIs DEF n

LEMMA KeysLoose ==
    ASSUME NEW v \in Views, Placed(v)
    PROVE  /\ ToTop(v) \in Views /\ Loose(ToTop(v))
           /\ NextFilter(v) \in Views /\ Loose(NextFilter(v))
           /\ ToggleVisual(v) \in Views /\ Loose(ToggleVisual(v))
           /\ OpenDetail(v) \in Views /\ Loose(OpenDetail(v))
           /\ Yank(v) \in Views /\ Loose(Yank(v))
  <1> DEFINE n == FilteredLen(v)
  <1>1. /\ n \in Nat /\ v.scroll \in Nat /\ v.cursor \in Nat /\ v.scroll <= n /\ (v.scroll = n => v.cursor = 0)
        /\ v.scroll + v.cursor <= n
    BY PlacedIs
  <1>2. Loose(v)
    BY <1>1 DEF Placed, Loose
  <1>3. ToTop(v) \in Views /\ Loose(ToTop(v))
    <2> DEFINE x == ToTop(v)
    <2>1. Relisted(x, v) /\ x.scroll = 0 /\ x.cursor = 0 /\ x.anchor = v.anchor
      BY DEF Relisted, Views, ToTop
    <2> HIDE DEF x
    <2> QED BY <1>1, <2>1, LooseIs DEF x
  <1>4. NextFilter(v) \in Views /\ Loose(NextFilter(v))
    <2> DEFINE next == [all |-> "gateway", gateway |-> "sandbox", sandbox |-> "all"]
               f == next[v.filter]
               x == [v EXCEPT !.filter = f, !.anchor = NoIndex, !.scroll = 0, !.cursor = 0]
    <2>1. f \in Filters
      BY DEF Views, Filters, Sources
    <2>2. NextFilter(v) = x
      BY DEF NextFilter
    <2> HIDE DEF f
    <2>3. x \in Views /\ x.anchor = NoIndex /\ x.scroll = 0 /\ x.cursor = 0 /\ x.height = v.height
      BY <2>1 DEF Views
    <2> HIDE DEF x
    <2>4. FilteredLen(x) \in Nat
      BY <2>3, ListLength
    <2> QED BY <1>2, <2>2, <2>3, <2>4 DEF Loose, Anchored
  <1>5. ToggleVisual(v) \in Views /\ Loose(ToggleVisual(v))
    <2> DEFINE x == [v EXCEPT !.anchor = NoIndex]
               y == [v EXCEPT !.anchor = CursorAbs(v), !.autoscroll = FALSE]
    <2>1. Relisted(x, v) /\ x.scroll = v.scroll /\ x.cursor = v.cursor /\ x.anchor = NoIndex
      BY DEF Relisted, Views
    <2>2. CursorAbs(v) \in Nat /\ CursorAbs(v) <= n
      BY <1>1 DEF CursorAbs
    <2>3. Relisted(y, v) /\ y.scroll = v.scroll /\ y.cursor = v.cursor /\ y.anchor = CursorAbs(v)
      BY <2>2 DEF Relisted, Views
    <2>4. ToggleVisual(v) = IF v.anchor # NoIndex THEN x ELSE y
      BY DEF ToggleVisual
    <2> HIDE DEF x, y
    <2>5. x \in Views /\ Loose(x)
      BY <1>1, <2>1, LooseIs
    <2>6. y \in Views /\ Loose(y)
      BY <1>1, <2>2, <2>3, LooseIs
    <2> QED BY <2>4, <2>5, <2>6
  <1>6. OpenDetail(v) \in Views /\ Loose(OpenDetail(v))
    <2> DEFINE x == [v EXCEPT !.detail = CursorAbs(v)]
    <2>1. CursorAbs(v) \in Nat
      BY <1>1 DEF CursorAbs
    <2>2. Relisted(x, v) /\ x.scroll = v.scroll /\ x.cursor = v.cursor /\ x.anchor = v.anchor
      BY <2>1 DEF Relisted, Views
    <2>3. OpenDetail(v) \in {x, v}
      BY DEF OpenDetail
    <2> HIDE DEF x
    <2>4. x \in Views /\ Loose(x)
      BY <1>1, <2>2, LooseIs
    <2> QED BY <1>2, <2>3, <2>4
  <1>7. Yank(v) \in Views /\ Loose(Yank(v))
    <2> DEFINE x == [v EXCEPT !.anchor = NoIndex]
    <2>1. Relisted(x, v) /\ x.scroll = v.scroll /\ x.cursor = v.cursor /\ x.anchor = NoIndex
      BY DEF Relisted, Views
    <2>2. Yank(v) \in {x, v}
      BY DEF Yank
    <2> HIDE DEF x
    <2>3. x \in Views /\ Loose(x)
      BY <1>1, <2>1, LooseIs
    <2> QED BY <1>2, <2>2, <2>3
  <1> QED BY <1>3, <1>4, <1>5, <1>6, <1>7

LEMMA WheelLoose ==
    ASSUME NEW v \in Views, Placed(v)
    PROVE  /\ Wheeled(WheelDown(v)) \in Views /\ Loose(Wheeled(WheelDown(v)))
           /\ Wheeled(WheelUp(v)) \in Views /\ Loose(Wheeled(WheelUp(v)))
  <1> DEFINE n == FilteredLen(v)
  <1>1. n \in Nat /\ v.scroll \in Nat /\ v.scroll <= n /\ v.height \in Nat /\ v.height > 0 /\ v.cursor \in Nat
    BY PlacedIs
  <1>2. ASSUME NEW u, Relisted(u, v), u.scroll <= n, u.anchor = v.anchor, u.cursor = v.cursor
        PROVE  Wheeled(u) \in Views /\ Loose(Wheeled(u))
    <2> DEFINE c == IF Visible(u) > 0 THEN Least(u.cursor, Visible(u) - 1) ELSE 0
               x == [u EXCEPT !.cursor = c]
    <2>1. u \in Views /\ u.lines = v.lines /\ u.filter = v.filter /\ u.height = v.height /\ u.scroll \in Nat
      BY <1>2 DEF Relisted, Views
    <2>2. FilteredLen(u) = n
      BY <2>1, ListLength
    <2> HIDE DEF n
    <2>3. Visible(u) \in Nat /\ (Visible(u) > 0 <=> u.scroll # n)
      <3> DEFINE s == u.scroll
                 h == u.height
      <3>1. s \in Nat /\ h \in Nat /\ h > 0 /\ s <= n /\ n \in Nat
        BY <1>1, <1>2, <2>1
      <3>2. Visible(u) = Least(Minus(n, s), h)
        BY <2>2 DEF Visible
      <3> HIDE DEF s, h
      <3>3. Minus(n, s) = n - s
        BY <3>1 DEF Minus
      <3>4. Visible(u) \in Nat /\ (Visible(u) > 0 <=> s # n)
        BY <3>1, <3>2, <3>3 DEF Least
      <3> QED BY <3>4 DEF s
    <2>4. c \in Nat /\ (u.scroll = n => c = 0)
      BY <1>1, <1>2, <2>3 DEF Least
    <2>5. Wheeled(u) = x
      BY DEF Wheeled
    <2> HIDE DEF c
    <2>6. Relisted(x, v) /\ x.scroll = u.scroll /\ x.cursor = c /\ x.anchor = v.anchor
      BY <1>2, <2>1, <2>4 DEF Relisted, Views
    <2> HIDE DEF x
    <2> QED BY <1>2, <2>4, <2>5, <2>6, LooseIs DEF n
  <1>3. Wheeled(WheelDown(v)) \in Views /\ Loose(Wheeled(WheelDown(v)))
    <2> DEFINE s == Least(v.scroll + 3, AutoscrollOffset(v))
    <2>1. s \in Nat /\ s <= n
      BY <1>1, AutoscrollIs DEF Least
    <2>2. WheelDown(v) = [v EXCEPT !.scroll = s]
      BY DEF WheelDown
    <2> HIDE DEF s
    <2>3. Relisted(WheelDown(v), v) /\ WheelDown(v).scroll = s /\ WheelDown(v).anchor = v.anchor /\ WheelDown(v).cursor = v.cursor
      BY <2>1, <2>2 DEF Relisted, Views
    <2> QED BY <1>2, <2>1, <2>3
  <1>4. Wheeled(WheelUp(v)) \in Views /\ Loose(Wheeled(WheelUp(v)))
    <2> DEFINE s == Minus(v.scroll, 3)
    <2>1. s \in Nat /\ s <= n
      BY <1>1 DEF Minus
    <2>2. WheelUp(v) = [v EXCEPT !.scroll = s, !.autoscroll = FALSE]
      BY DEF WheelUp
    <2> HIDE DEF s
    <2>3. Relisted(WheelUp(v), v) /\ WheelUp(v).scroll = s /\ WheelUp(v).anchor = v.anchor /\ WheelUp(v).cursor = v.cursor
      BY <2>1, <2>2 DEF Relisted, Views
    <2> QED BY <1>2, <2>1, <2>3
  <1> QED BY <1>3, <1>4

\* What every step of the log view keeps, apart from the stream and the channel.
WellShown(v, p) ==
    /\ v \in Views /\ p \in {"dashboard", "policy", "draft", "logs"}
    /\ IF p = "logs" THEN Placed(v) ELSE v.anchor = NoIndex

LEMMA LogInvIs ==
    LogInv <=> /\ WellShown(view, pane)
               /\ selected \in LogSandboxes
               /\ stream \in [of : LogSandboxes \cup {"none"}, phase : {"none", "history", "watch"}]
               /\ inbox \in Seq(Seq(LogLine))
               /\ stream.phase # "none" => stream.of \in LogSandboxes
  BY DEF LogInv, LogTypeOK, WellShown, Views

LEMMA ShownWell ==
    ASSUME NEW v \in Views, NEW p \in {"dashboard", "policy", "draft", "logs"}, Shown(v, p),
           IF p = "logs" THEN Loose(v) ELSE v.anchor = NoIndex
    PROVE  WellShown(view', pane')
  BY ShownIs DEF WellShown

LEMMA PlacedLoose ==
    ASSUME NEW v \in Views, Placed(v)
    PROVE  Loose(v)
  BY PlacedIs DEF Placed, Loose

LEMMA StreamEventTyped ==
    ASSUME NEW s \in LogSandboxes, NEW ls \in LinesOf(s)
    PROVE  ls \in Seq(LogLine)
  <1>1. PICK x \in Sources : ls = <<[of |-> s, source |-> x]>>
    BY DEF LinesOf
  <1>2. [of |-> s, source |-> x] \in LogLine
    BY DEF LogLine
  <1> QED BY <1>1, <1>2

LEMMA LinesShown ==
    ASSUME WellShown(view, pane), inbox \in Seq(Seq(LogLine)), LogLines
    PROVE  WellShown(view', pane')
  <1> DEFINE ls == Head(inbox)
             t == view.lines \o ls
             v == [view EXCEPT !.lines = t]
             o == AutoscrollOffset(v)
             w == [v EXCEPT !.scroll = o]
             c == Minus(Visible(w), 1)
             x == [w EXCEPT !.cursor = c]
  <1>1. view \in Views /\ pane \in {"dashboard", "policy", "draft", "logs"} /\ (IF pane = "logs" THEN Placed(view) ELSE view.anchor = NoIndex)
    BY DEF WellShown
  <1>2. Shown(IF v.autoscroll THEN x ELSE v, pane) /\ inbox # <<>>
    BY DEF LogLines
  <1>3. ls \in Seq(LogLine)
    BY <1>2
  <1>4. t \in Seq(LogLine)
    BY <1>1, <1>3 DEF Views
  <1> HIDE DEF t
  <1>5. v \in Views /\ v.lines = t /\ v.filter = view.filter /\ v.scroll = view.scroll /\ v.cursor = view.cursor
        /\ v.anchor = view.anchor /\ v.height = view.height
    BY <1>1, <1>4 DEF Views
  <1> HIDE DEF v
  <1>6. o \in Nat /\ o <= FilteredLen(v)
    BY <1>5, AutoscrollIs
  <1> HIDE DEF o
  <1>7. w \in Views /\ w.lines = v.lines /\ w.filter = v.filter /\ w.height = v.height /\ w.scroll = o /\ w.anchor = v.anchor
    BY <1>5, <1>6 DEF Views
  <1> HIDE DEF w
  <1>8. FilteredLen(w) = FilteredLen(v) /\ FilteredLen(v) \in Nat
    BY <1>5, <1>7, ListLength
  <1>9. w.height \in Nat
    BY <1>7 DEF Views
  <1>10. Visible(w) \in Nat /\ (o = FilteredLen(v) => Visible(w) = 0)
    BY <1>6, <1>7, <1>8, <1>9 DEF Visible, Minus, Least
  <1>11. c \in Nat /\ (o = FilteredLen(v) => c = 0)
    BY <1>10 DEF Minus
  <1> HIDE DEF c
  <1>12. x \in Views /\ x.lines = v.lines /\ x.filter = v.filter /\ x.height = v.height /\ x.scroll = o /\ x.anchor = v.anchor /\ x.cursor = c
    BY <1>7, <1>11 DEF Views
  <1> HIDE DEF x
  <1>13. FilteredLen(x) = FilteredLen(v)
    BY <1>5, <1>12, ListLength
  <1>14. FilteredLen(view) <= FilteredLen(v) /\ FilteredLen(view) \in Nat
    BY <1>1, <1>3, <1>5, ListGrows, ListLength DEF t
  <1> DEFINE n == FilteredLen(v)
             m == FilteredLen(view)
  <1>15. Placed(view) => Loose(v) /\ Loose(x)
    <2> SUFFICES ASSUME Placed(view) PROVE Loose(v) /\ Loose(x)
      OBVIOUS
    <2>1. view.scroll <= m /\ (view.scroll = m => view.cursor = 0) /\ view.scroll \in Nat
          /\ view.scroll + view.cursor <= m /\ view.cursor \in Nat /\ view.anchor \in Nat \cup {NoIndex}
      BY <1>1, PlacedIs
    <2>2. view.anchor # NoIndex => view.anchor <= m
      BY DEF Placed, Anchored
    <2>3. view.height > 0
      BY DEF Placed
    <2>4. view.scroll <= n /\ (view.scroll = n => view.cursor = 0)
      BY <1>8, <1>14, <2>1
    <2>5. view.anchor # NoIndex => view.anchor <= n
      <3>1. ASSUME NEW a \in Nat, a <= m PROVE a <= n
        BY <1>8, <1>14, <3>1
      <3> QED BY <2>1, <2>2, <3>1
    <2> HIDE DEF n, m
    <2>6. Loose(v)
      BY <1>5, <2>3, <2>4, <2>5 DEF Loose, Anchored, n
    <2>7. Loose(x)
      BY <1>5, <1>6, <1>11, <1>12, <1>13, <2>3, <2>5 DEF Loose, Anchored, n
    <2> QED BY <2>6, <2>7
  <1> DEFINE y == IF v.autoscroll THEN x ELSE v
  <1>16. y \in Views /\ (IF pane = "logs" THEN Loose(y) ELSE y.anchor = NoIndex)
    BY <1>1, <1>5, <1>12, <1>15
  <1>17. Shown(y, pane)
    BY <1>2
  <1> HIDE DEF y
  <1> QED BY <1>1, <1>16, <1>17, ShownWell

LEMMA OpenShown ==
    ASSUME WellShown(view, pane), OpenLogs
    PROVE  WellShown(view', pane')
  <1> DEFINE v == [view EXCEPT !.lines = <<>>, !.scroll = 0, !.cursor = 0, !.filter = "all",
                               !.autoscroll = TRUE, !.detail = NoIndex]
  <1>1. view \in Views /\ view.anchor = NoIndex
    BY DEF WellShown, OpenLogs
  <1>2. PICK h \in Heights : view' = Drawn(v, h)
    BY DEF OpenLogs
  <1>3. h \in Nat \ {0} /\ pane' = "logs"
    BY LogAssumption DEF OpenLogs
  <1>4. <<>> \in Seq(LogLine) /\ "all" \in Filters
    BY DEF Filters
  <1>5. v \in Views /\ v.lines = <<>> /\ v.scroll = 0 /\ v.cursor = 0 /\ v.anchor = NoIndex
    BY <1>1, <1>4 DEF Views
  <1> HIDE DEF v
  <1>6. FilteredLen(v) = 0
    BY <1>5, ListLength
  <1>7. Anchored(v)
    BY <1>5 DEF Anchored
  <1>8. Drawn(v, h) \in Views /\ Placed(Drawn(v, h))
    BY <1>3, <1>5, <1>6, <1>7, DrawnIs
  <1> QED BY <1>2, <1>3, <1>8 DEF WellShown

LEMMA UnanchoredWell ==
    ASSUME NEW v \in Views
    PROVE  /\ [v EXCEPT !.anchor = NoIndex] \in Views
           /\ [v EXCEPT !.anchor = NoIndex].anchor = NoIndex
           /\ Placed(v) => Loose([v EXCEPT !.anchor = NoIndex])
  <1> DEFINE x == [v EXCEPT !.anchor = NoIndex]
  <1>1. Relisted(x, v) /\ x.scroll = v.scroll /\ x.cursor = v.cursor /\ x.anchor = NoIndex
    BY DEF Relisted, Views
  <1> HIDE DEF x
  <1>2. Placed(v) => Loose(x)
    BY <1>1, PlacedIs, LooseIs
  <1>3. x \in Views
    BY <1>1 DEF Relisted
  <1> QED BY <1>1, <1>2, <1>3 DEF x

LEMMA PanesShown ==
    ASSUME WellShown(view, pane), LeaveLogs \/ SwitchPane \/ OtherPanes
    PROVE  WellShown(view', pane')
  <1>1. view \in Views /\ pane \in {"dashboard", "policy", "draft", "logs"} /\ (IF pane = "logs" THEN Placed(view) ELSE view.anchor = NoIndex)
    BY DEF WellShown
  <1> DEFINE x == [view EXCEPT !.anchor = NoIndex]
             r == [view EXCEPT !.lines = <<>>, !.scroll = 0, !.cursor = 0, !.autoscroll = TRUE,
                               !.detail = NoIndex, !.anchor = NoIndex]
  <1>2. x \in Views /\ x.anchor = NoIndex /\ (Placed(view) => Loose(x))
    BY <1>1, UnanchoredWell
  <1>3. r \in Views /\ r.anchor = NoIndex
    <2>1. <<>> \in Seq(LogLine)
      OBVIOUS
    <2> QED BY <1>1, <2>1 DEF Views
  <1>4. CASE LeaveLogs
    <2>1. pane = "logs" /\ (IF view.anchor # NoIndex THEN Shown(x, "logs") ELSE Shown(view, "policy"))
      BY <1>4 DEF LeaveLogs, InLogs
    <2> HIDE DEF x
    <2>2. Placed(view)
      BY <1>1, <2>1
    <2>3. CASE view.anchor # NoIndex
      BY <1>2, <2>1, <2>2, <2>3, ShownWell
    <2>4. CASE view.anchor = NoIndex
      BY <1>1, <2>1, <2>4, ShownWell
    <2> QED BY <2>3, <2>4
  <1>5. CASE SwitchPane
    <2>1. PICK p \in {"draft", "policy"} : Shown(x, p)
      BY <1>5 DEF SwitchPane
    <2> HIDE DEF x
    <2> QED BY <1>2, <2>1, ShownWell
  <1>6. CASE OtherPanes
    <2>1. \/ \E p \in {"dashboard", "policy", "draft"} : pane # "logs" /\ Shown(view, p)
          \/ Shown(r, "dashboard")
      BY <1>6 DEF OtherPanes
    <2> HIDE DEF r
    <2>2. CASE Shown(r, "dashboard")
      BY <1>3, <2>2, ShownWell
    <2>3. CASE \E p \in {"dashboard", "policy", "draft"} : pane # "logs" /\ Shown(view, p)
      <3>1. PICK p \in {"dashboard", "policy", "draft"} : pane # "logs" /\ Shown(view, p)
        BY <2>3
      <3> QED BY <1>1, <3>1, ShownWell
    <2> QED BY <2>1, <2>2, <2>3
  <1> QED BY <1>4, <1>5, <1>6

LEMMA KeysShown ==
    ASSUME WellShown(view, pane), LogKey \/ Wheel \/ CloseDetail \/ Resize
    PROVE  WellShown(view', pane')
  <1>1. view \in Views /\ pane = "logs" /\ Placed(view)
    BY DEF WellShown, LogKey, Wheel, CloseDetail, Resize, InLogs
  <1>2. CASE LogKey
    <2>1. PICK v \in {ScrollDown(view), ScrollUp(view), Follow(view), ToTop(view), NextFilter(view),
                      ToggleVisual(view), OpenDetail(view), Yank(view)} : Shown(v, "logs")
      BY <1>2 DEF LogKey
    <2>2. v \in Views /\ Loose(v)
      BY <1>1, <2>1, ScrollDownLoose, ScrollUpLoose, FollowLoose, KeysLoose
    <2> QED BY <2>1, <2>2, ShownWell
  <1>3. CASE Wheel
    <2>1. PICK v \in {WheelDown(view), WheelUp(view)} : Shown(Wheeled(v), "logs")
      BY <1>3 DEF Wheel
    <2>2. Wheeled(v) \in Views /\ Loose(Wheeled(v))
      BY <1>1, <2>1, WheelLoose
    <2> QED BY <2>1, <2>2, ShownWell
  <1>4. CASE CloseDetail
    <2> DEFINE x == [view EXCEPT !.detail = NoIndex]
    <2>1. Shown(x, "logs")
      BY <1>4 DEF CloseDetail
    <2>2. Relisted(x, view) /\ x.scroll = view.scroll /\ x.cursor = view.cursor /\ x.anchor = view.anchor
      BY <1>1 DEF Relisted, Views
    <2> HIDE DEF x
    <2>3. x \in Views /\ Loose(x)
      BY <1>1, <2>2, PlacedIs, LooseIs
    <2> QED BY <2>1, <2>3, ShownWell
  <1>5. CASE Resize
    <2>1. PICK h \in Heights : view' = Drawn(view, h)
      BY <1>5 DEF Resize
    <2>2. h \in Nat \ {0}
      BY LogAssumption
    <2>3. view.scroll <= FilteredLen(view) /\ (view.scroll = FilteredLen(view) => view.cursor = 0) /\ Anchored(view)
      BY <1>1, PlacedIs DEF Placed
    <2>4. Drawn(view, h) \in Views /\ Placed(Drawn(view, h))
      BY <1>1, <2>2, <2>3, DrawnIs
    <2>5. pane' = "logs"
      BY <1>1, <1>5 DEF Resize
    <2> QED BY <2>1, <2>4, <2>5 DEF WellShown
  <1> QED BY <1>2, <1>3, <1>4, <1>5

Streams == [of : LogSandboxes \cup {"none"}, phase : {"none", "history", "watch"}]

LEMMA StreamStays ==
    ASSUME LogInv, LogNext
    PROVE  /\ selected' \in LogSandboxes /\ stream' \in Streams /\ inbox' \in Seq(Seq(LogLine))
           /\ stream'.phase # "none" => stream'.of \in LogSandboxes
  <1>1. /\ selected \in LogSandboxes /\ stream \in Streams /\ inbox \in Seq(Seq(LogLine))
        /\ stream.phase # "none" => stream.of \in LogSandboxes
    BY DEF LogInv, LogTypeOK, Streams
  <1>2. NoStream \in Streams /\ NoStream.phase = "none"
    BY DEF NoStream, Streams
  <1>3. CASE StreamHistory \/ StreamLine
    <2>1. stream.of \in LogSandboxes
      BY <1>1, <1>3 DEF StreamHistory, StreamLine
    <2>2. selected' = selected /\ stream' \in {stream, [stream EXCEPT !.phase = "watch"], NoStream}
      BY <1>3 DEF StreamHistory, StreamLine
    <2>3. [stream EXCEPT !.phase = "watch"] \in Streams /\ [stream EXCEPT !.phase = "watch"].of = stream.of
      BY <1>1 DEF Streams
    <2>4. inbox' = inbox \/ \E ls \in LinesOf(stream.of) : inbox' = Append(inbox, ls)
      BY <1>3 DEF StreamHistory, StreamLine
    <2>5. \A ls \in LinesOf(stream.of) : Append(inbox, ls) \in Seq(Seq(LogLine))
      BY <1>1, <2>1, StreamEventTyped
    <2>6. inbox' \in Seq(Seq(LogLine))
      BY <1>1, <2>4, <2>5
    <2> QED BY <1>1, <1>2, <2>1, <2>2, <2>3, <2>6
  <1>4. CASE LogLines
    <2>1. inbox # <<>> /\ inbox' = Tail(inbox) /\ selected' = selected /\ stream' = stream
      BY <1>4 DEF LogLines
    <2> QED BY <1>1, <2>1
  <1>5. CASE OpenLogs
    <2>1. stream' = [of |-> selected, phase |-> "history"] /\ selected' = selected /\ inbox' = inbox
      BY <1>5 DEF OpenLogs, SpawnLogStream
    <2> QED BY <1>1, <2>1 DEF Streams
  <1>6. CASE LeaveLogs \/ SwitchPane \/ OtherPanes
    <2>1. stream' \in {stream, NoStream} /\ inbox' = inbox /\ selected' \in LogSandboxes
      BY <1>1, <1>6 DEF LeaveLogs, SwitchPane, OtherPanes, CancelLogStream
    <2> QED BY <1>1, <1>2, <2>1
  <1>7. CASE LogKey \/ Wheel \/ CloseDetail \/ Resize
    <2>1. stream' = stream /\ inbox' = inbox /\ selected' = selected
      BY <1>7 DEF LogKey, Wheel, CloseDetail, Resize, Stay
    <2> QED BY <1>1, <2>1
  <1> QED BY <1>3, <1>4, <1>5, <1>6, <1>7 DEF LogNext

LEMMA YankWithin == LogInv => LogViewSound
  <1> SUFFICES ASSUME LogInv PROVE LogViewSound
    OBVIOUS
  <1>1. LogTypeOK
    BY DEF LogInv
  <1>2. ASSUME InLogs, FilteredLen(view) > 0
        PROVE  LET n == FilteredLen(view)
                   start == Least(view.anchor, CursorAbs(view))
                   end == Least(Greatest(view.anchor, CursorAbs(view)), n - 1)
               IN  /\ view.anchor # NoIndex => start <= end + 1 /\ view.anchor <= n
                   /\ view.scroll <= Least(view.scroll + view.height, n)
    <2>1. view \in Views /\ Placed(view)
      BY <1>2 DEF LogInv, LogTypeOK, InLogs, Views
    <2> DEFINE n == FilteredLen(view)
               a == view.anchor
               s == view.scroll
               c == CursorAbs(view)
               h == view.height
    <2>2. n \in Nat /\ s \in Nat /\ c \in Nat /\ h \in Nat /\ s <= n /\ c <= n /\ a \in Nat \cup {NoIndex}
      BY <2>1, PlacedIs DEF CursorAbs
    <2>3. a # NoIndex => a <= n
      BY <2>1 DEF Placed, Anchored
    <2> HIDE DEF n, a, s, c, h
    <2>4. s <= Least(s + h, n)
      BY <2>2 DEF Least
    <2>5. a # NoIndex => Least(a, c) <= Least(Greatest(a, c), n - 1) + 1 /\ a <= n
      BY <2>2, <2>3 DEF Least, Greatest
    <2> QED BY <2>4, <2>5 DEF n, a, s, c, h
  <1> QED BY <1>1, <1>2 DEF LogViewSound, YankInBounds

\* Lines arrive, filters change the list, the terminal is resized and the buffer is
\* cleared between the key that stored an index and the key that uses it: whatever
\* their order, for any sandboxes, heights and amount of log, the selection and the
\* first row lie within the list that is shown when 'y' or 'Y' slices it.
THEOREM YankStaysInside == LogSpec => []LogViewSound
  <1>1. LogInit => LogInv
    <2> SUFFICES ASSUME LogInit PROVE LogInv
      OBVIOUS
    <2>1. view \in Views /\ view.anchor = NoIndex /\ pane = "dashboard"
      BY DEF LogInit, Views, Filters
    <2>2. NoStream \in Streams /\ NoStream.phase = "none" /\ inbox \in Seq(Seq(LogLine))
      BY DEF NoStream, Streams, LogInit
    <2> QED BY <2>1, <2>2, LogInvIs DEF LogInit, WellShown, Streams
  <1>2. LogInv /\ [LogNext]_logVars => LogInv'
    <2> SUFFICES ASSUME LogInv, [LogNext]_logVars PROVE LogInv'
      OBVIOUS
    <2>1. CASE LogNext
      <3>1. WellShown(view, pane) /\ inbox \in Seq(Seq(LogLine))
        BY LogInvIs
      <3>2. StreamHistory \/ StreamLine => WellShown(view', pane')
        BY <3>1 DEF StreamHistory, StreamLine
      <3>3. WellShown(view', pane')
        BY <2>1, <3>1, <3>2, LinesShown, OpenShown, PanesShown, KeysShown DEF LogNext
      <3>4. /\ selected' \in LogSandboxes /\ stream' \in Streams /\ inbox' \in Seq(Seq(LogLine))
            /\ stream'.phase # "none" => stream'.of \in LogSandboxes
        BY <2>1, StreamStays
      <3> QED BY <3>3, <3>4 DEF LogInv, LogTypeOK, WellShown, Views, Streams
    <2>2. CASE UNCHANGED logVars
      BY <2>2 DEF logVars, LogInv, LogTypeOK, Placed, Anchored, FilteredLen, FilteredLines
    <2> QED BY <2>1, <2>2
  <1> QED BY <1>1, <1>2, YankWithin, PTL DEF LogSpec

-----------------------------------------------------------------------------
(* SshConfig: the two ssh configurations, edited as lists of lines.  A     *)
(* Host line of the managed file is followed by the ProxyCommand of the    *)
(* sandbox's gateway, and there is one per sandbox; an edit takes lines    *)
(* out and puts a part in, and moves the others without passing them.      *)

\* The lines of the managed file.
BoxLines ==
    {Blank} \cup {ConfLine("host", b) : b \in SshBoxes} \cup {ConfLine("proxy", g) : g \in SshGateways}

HostAt(s, i, b) == i \in DOMAIN s /\ s[i] = ConfLine("host", b)

\* The managed file is true to the gateways w: what it has to be for ssh.
BoxTrue(s, w) ==
    /\ s \in Seq(BoxLines)
    /\ \A b \in SshBoxes, i \in DOMAIN s :
          HostAt(s, i, b) => i + 1 \in DOMAIN s /\ s[i + 1] = ConfLine("proxy", w[b])
    /\ \A b \in SshBoxes : \A i, j \in DOMAIN s : HostAt(s, i, b) /\ HostAt(s, j, b) => i = j
    /\ \A b \in SshBoxes : w[b] # "-" => \E i \in DOMAIN s : HostAt(s, i, b)

\* A command that runs is for a sandbox and a gateway.
CommandOK ==
    /\ command \in [on : BOOLEAN, box : SshBoxes \cup {"-"}, gw : SshGateways \cup {"-"}]
    /\ command.on => command.box \in SshBoxes /\ command.gw \in SshGateways

\* The inductive invariant.
SshInv ==
    /\ mainConf \in Seq(UserLines)
    /\ DOMAIN wanted = SshBoxes
    /\ BoxTrue(boxConf, wanted)
    /\ CommandOK
    /\ sshEdits \in 0..MaxUserEdits /\ installs \in 0..MaxInstalls
    /\ command.on => IncludeInForce
    /\ Own(mainConf) = ownLines

\* Lines are told apart by their kind and by what they name.
LEMMA LineFacts ==
    /\ \A k, a : ConfLine(k, a).kind = k /\ ConfLine(k, a).arg = a
    /\ \A k, a, m, b : ConfLine(k, a) = ConfLine(m, b) => k = m /\ a = b
    /\ Blank # IncludeLine /\ Blank.kind = "blank" /\ IncludeLine.kind = "include"
  BY DEF ConfLine, Blank, IncludeLine

\* What the blank lines around a new part add.
JoinedAs(w, p, mid, q, x, y) ==
    /\ Len(w) = Len(p) + x + Len(mid) + y + Len(q)
    /\ \A i \in 1..Len(p) : w[i] = p[i]
    /\ x = 1 => w[Len(p) + 1] = Blank
    /\ \A i \in 1..Len(mid) : w[Len(p) + x + i] = mid[i]
    /\ y = 1 => w[Len(p) + x + Len(mid) + 1] = Blank
    /\ \A i \in 1..Len(q) : w[Len(p) + x + Len(mid) + y + i] = q[i]

\* At most a blank line is added behind, or before.
LEMMA SpacedIs ==
    ASSUME NEW V, NEW p \in Seq(V), Blank \in V
    PROVE  /\ Spaced(p) \in Seq(V)
           /\ \E x \in 0..1 : /\ Len(Spaced(p)) = Len(p) + x
                              /\ \A i \in 1..Len(p) : Spaced(p)[i] = p[i]
                              /\ x = 1 => Spaced(p)[Len(p) + 1] = Blank
  <1> DEFINE c == Blank
             a == Append(p, c)
  <1>1. Len(p) \in Nat
    OBVIOUS
  <1>2. a \in Seq(V) /\ Len(a) = Len(p) + 1 /\ (\A i \in 1..Len(p) : a[i] = p[i]) /\ a[Len(p) + 1] = c
    <2>1. c \in V
      OBVIOUS
    <2> HIDE DEF c
    <2> QED BY <2>1, AppendProperties
  <1>3. Spaced(p) = a \/ Spaced(p) = p
    BY DEF Spaced
  <1> HIDE DEF a, c
  <1>4. CASE Spaced(p) = a
    <2>1. 1 \in 0..1
      OBVIOUS
    <2> QED BY <1>2, <1>4, <2>1 DEF c
  <1>5. CASE Spaced(p) = p
    <2>1. 0 \in 0..1 /\ Len(p) = Len(p) + 0 /\ 0 # 1
      BY <1>1
    <2> QED BY <1>5, <2>1
  <1> QED BY <1>3, <1>4, <1>5

LEMMA SpacedRestIs ==
    ASSUME NEW V, NEW q \in Seq(V), Blank \in V
    PROVE  /\ SpacedRest(q) \in Seq(V)
           /\ \E y \in 0..1 : /\ Len(SpacedRest(q)) = y + Len(q)
                              /\ y = 1 => SpacedRest(q)[1] = Blank
                              /\ \A i \in 1..Len(q) : SpacedRest(q)[y + i] = q[i]
  <1> DEFINE c == <<Blank>>
             a == c \o q
  <1>1. Len(q) \in Nat /\ c \in Seq(V) /\ Len(c) = 1 /\ c[1] = Blank
    OBVIOUS
  <1>3. SpacedRest(q) = a \/ SpacedRest(q) = q
    BY DEF SpacedRest
  <1> HIDE DEF c
  <1>2. /\ a \in Seq(V) /\ Len(a) = Len(c) + Len(q)
        /\ \A i \in 1..(Len(c) + Len(q)) : a[i] = IF i <= Len(c) THEN c[i] ELSE q[i - Len(c)]
    BY <1>1, ConcatProperties
  <1> HIDE DEF a
  <1>4. CASE SpacedRest(q) = a
    <2>1. 1 \in 0..1 /\ Len(a) = 1 + Len(q)
      BY <1>1, <1>2
    <2>2. a[1] = Blank
      BY <1>1, <1>2
    <2>3. \A i \in 1..Len(q) : 1 + i \in 1..(1 + Len(q)) /\ ~(1 + i <= 1) /\ (1 + i) - 1 = i
      BY <1>1
    <2>4. \A i \in 1..Len(q) : a[1 + i] = q[i]
      BY <1>1, <1>2, <2>3
    <2> QED BY <1>2, <1>4, <2>1, <2>2, <2>4
  <1>5. CASE SpacedRest(q) = q
    <2>1. 0 \in 0..1 /\ Len(q) = 0 + Len(q) /\ 0 # 1 /\ \A i \in 1..Len(q) : 0 + i = i
      BY <1>1
    <2> QED BY <1>5, <2>1
  <1> QED BY <1>3, <1>4, <1>5

\* Where the lines of a new part and of its surroundings stand.
LEMMA Joined ==
    ASSUME NEW V, NEW p \in Seq(V), NEW mid \in Seq(V), NEW q \in Seq(V), Blank \in V
    PROVE  /\ Spaced(p) \o mid \o SpacedRest(q) \in Seq(V)
           /\ \E x, y \in 0..1 : JoinedAs(Spaced(p) \o mid \o SpacedRest(q), p, mid, q, x, y)
  <1> DEFINE u == Spaced(p)
             v == SpacedRest(q)
             a == u \o mid
             w == a \o v
             lp == Len(p)
             lm == Len(mid)
             lq == Len(q)
  <1>1. u \in Seq(V) /\ v \in Seq(V)
    BY SpacedIs, SpacedRestIs
  <1>2. PICK x \in 0..1 : Len(u) = lp + x /\ (\A i \in 1..lp : u[i] = p[i]) /\ (x = 1 => u[lp + 1] = Blank)
    BY SpacedIs
  <1>3. PICK y \in 0..1 : Len(v) = y + lq /\ (y = 1 => v[1] = Blank) /\ (\A i \in 1..lq : v[y + i] = q[i])
    BY SpacedRestIs
  <1>4. lp \in Nat /\ lm \in Nat /\ lq \in Nat /\ x \in Nat /\ y \in Nat
    BY <1>2, <1>3
  <1> HIDE DEF u, v
  <1>5. /\ a \in Seq(V) /\ Len(a) = Len(u) + Len(mid)
        /\ \A i \in 1..(Len(u) + Len(mid)) : a[i] = IF i <= Len(u) THEN u[i] ELSE mid[i - Len(u)]
    BY <1>1, ConcatProperties
  <1> HIDE DEF a
  <1>17. a \in Seq(V) /\ v \in Seq(V)
    BY <1>1, <1>5
  <1>6. /\ w \in Seq(V) /\ Len(w) = Len(a) + Len(v)
        /\ \A i \in 1..(Len(a) + Len(v)) : w[i] = IF i <= Len(a) THEN a[i] ELSE v[i - Len(a)]
    BY ONLY <1>17, ConcatProperties
  <1> HIDE DEF w
  <1>7. Len(u) = lp + x /\ Len(a) = lp + x + lm /\ Len(v) = y + lq
    BY <1>2, <1>3, <1>5
  <1> HIDE DEF lp, lm, lq
  <1>8. Len(w) = lp + x + lm + y + lq
    BY <1>4, <1>6, <1>7
  <1>9. \A i \in 1..(lp + x) : w[i] = u[i]
    <2> TAKE i \in 1..(lp + x)
    <2>1. i \in 1..((lp + x) + lm) /\ i <= lp + x /\ i \in 1..((lp + x + lm) + (y + lq)) /\ i <= lp + x + lm
      BY <1>4
    <2> QED BY <1>5, <1>6, <1>7, <2>1 DEF lm
  <1>10. \A i \in 1..lm : w[lp + x + i] = mid[i]
    <2> TAKE i \in 1..lm
    <2> DEFINE z == lp + x + i
    <2>1. z \in 1..((lp + x) + lm) /\ ~(z <= lp + x) /\ z - (lp + x) = i /\ z \in 1..((lp + x + lm) + (y + lq)) /\ z <= lp + x + lm
      BY <1>4
    <2> HIDE DEF z
    <2>2. a[z] = mid[i]
      BY <1>5, <1>7, <2>1 DEF lm
    <2>3. w[z] = a[z]
      BY <1>6, <1>7, <2>1
    <2> QED BY <2>2, <2>3 DEF z
  <1>11. \A i \in 1..(y + lq) : w[lp + x + lm + i] = v[i]
    <2> TAKE i \in 1..(y + lq)
    <2> DEFINE z == lp + x + lm + i
    <2>1. ~(z <= lp + x + lm) /\ z - (lp + x + lm) = i /\ z \in 1..((lp + x + lm) + (y + lq))
      BY <1>4
    <2> HIDE DEF z
    <2>2. w[z] = v[i]
      BY <1>6, <1>7, <2>1
    <2> QED BY <2>2 DEF z
  <1>12. \A i \in 1..lp : w[i] = p[i]
    <2>1. \A i \in 1..lp : i \in 1..(lp + x)
      BY <1>4
    <2> QED BY <1>2, <1>9, <2>1
  <1>13. x = 1 => w[lp + 1] = Blank
    <2>1. x = 1 => lp + 1 \in 1..(lp + x)
      BY <1>4
    <2> QED BY <1>2, <1>9, <2>1
  <1>14. y = 1 => w[lp + x + lm + 1] = Blank
    <2>1. y = 1 => 1 \in 1..(y + lq)
      BY <1>4
    <2> QED BY <1>3, <1>11, <2>1
  <1>15. \A i \in 1..lq : w[lp + x + lm + y + i] = q[i]
    <2> TAKE i \in 1..lq
    <2>1. y + i \in 1..(y + lq) /\ lp + x + lm + (y + i) = lp + x + lm + y + i
      BY <1>4
    <2> QED BY <1>3, <1>11, <2>1
  <1>16. JoinedAs(w, p, mid, q, x, y)
    BY <1>8, <1>10, <1>12, <1>13, <1>14, <1>15 DEF JoinedAs, lp, lm, lq
  <1> QED BY <1>6, <1>16 DEF w, a, u, v

\* What stands before a position, and from one on.
LEMMA PartsOf ==
    ASSUME NEW V, NEW s \in Seq(V), NEW a \in 1..(Len(s) + 1), NEW e \in 1..(Len(s) + 1)
    PROVE  /\ SubSeq(s, 1, a - 1) \in Seq(V) /\ Len(SubSeq(s, 1, a - 1)) = a - 1
           /\ \A i \in 1..(a - 1) : SubSeq(s, 1, a - 1)[i] = s[i]
           /\ Rest(s, e) \in Seq(V) /\ Len(Rest(s, e)) = Len(s) + 1 - e
           /\ \A i \in 1..(Len(s) + 1 - e) : Rest(s, e)[i] = s[e + i - 1]
  <1> DEFINE n == Len(s)
             b == a - 1
  <1>1. n \in Nat /\ \A i \in 1..n : s[i] \in V
    OBVIOUS
  <1>2. a \in 1..(n + 1) /\ e \in 1..(n + 1)
    OBVIOUS
  <1> HIDE DEF n
  <1>3. b \in Int /\ (IF 1 <= b THEN b - 1 + 1 ELSE 0) = a - 1 /\ b - 1 + 1 = b /\ 1 \in Int /\ \A i \in 1..b : s[i] \in V /\ 1 + i - 1 = i
    BY <1>1, <1>2
  <1> HIDE DEF b
  <1>4. SubSeq(s, 1, b) \in Seq(V) /\ Len(SubSeq(s, 1, b)) = b /\ \A i \in 1..b : SubSeq(s, 1, b)[i] = s[i]
    <2>1. \A i \in 1..b : s[i] \in V
      BY <1>3
    <2>2. /\ SubSeq(s, 1, b) \in Seq(V)
          /\ Len(SubSeq(s, 1, b)) = IF 1 <= b THEN b - 1 + 1 ELSE 0
          /\ \A i \in 1..(b - 1 + 1) : SubSeq(s, 1, b)[i] = s[1 + i - 1]
      BY <1>3, <2>1, SubSeqProperties
    <2> QED BY <1>3, <2>2 DEF b
  <1>5. e \in Int /\ n \in Int /\ (IF e <= n THEN n - e + 1 ELSE 0) = n + 1 - e /\ n - e + 1 = n + 1 - e /\ \A i \in e..n : s[i] \in V
    BY <1>1, <1>2
  <1>6. /\ SubSeq(s, e, n) \in Seq(V)
        /\ Len(SubSeq(s, e, n)) = IF e <= n THEN n - e + 1 ELSE 0
        /\ \A i \in 1..(n - e + 1) : SubSeq(s, e, n)[i] = s[e + i - 1]
    <2>1. \A i \in e..n : s[i] \in V
      BY <1>5
    <2> QED BY <1>5, <2>1, SubSeqProperties
  <1>7. Rest(s, e) = SubSeq(s, e, n)
    BY DEF Rest, n
  <1>8. Rest(s, e) \in Seq(V) /\ Len(Rest(s, e)) = n + 1 - e /\ \A i \in 1..(n + 1 - e) : Rest(s, e)[i] = s[e + i - 1]
    BY <1>5, <1>6, <1>7
  <1> QED BY <1>4, <1>8 DEF b, n

\* Where the user's lines stand.
OwnAt(s) == {i \in DOMAIN s : s[i] \notin {Blank, IncludeLine}}

\* The user's lines are the same in front of the new line and, moved, behind it.
LEMMA OwnMoved ==
    ASSUME NEW s \in Seq(UserLines), NEW w \in Seq(UserLines), NEW a \in 1..(Len(s) + 1),
           NEW k \in Nat, Len(w) = Len(s) + k,
           \A i \in 1..(a - 1) : w[i] = s[i],
           \A i \in a..(a + k - 1) : w[i] \in {Blank, IncludeLine},
           \A i \in a..Len(s) : w[i + k] = s[i]
    PROVE  Own(w) = Own(s)
  <1> DEFINE S == OwnAt(s)
             T == OwnAt(w)
             n == Len(s)
             h == [i \in S |-> IF i < a THEN i ELSE i + k]
  <1>1. n \in Nat /\ DOMAIN s = 1..n /\ DOMAIN w = 1..(n + k)
    OBVIOUS
  <1>2. a \in 1..(n + 1) /\ (\A i \in a..n : w[i + k] = s[i])
    OBVIOUS
  <1> HIDE DEF n
  <1>3. S \in SUBSET (1..n) /\ T \in SUBSET (1..(n + k))
    BY <1>1 DEF OwnAt
  <1>4. S \in SUBSET Nat /\ T \in SUBSET Nat /\ IsFiniteSet(S)
    <2>1. IsFiniteSet(1..n)
      BY <1>1, FS_Interval
    <2>2. IsFiniteSet(S)
      BY <1>3, <2>1, FS_Subset
    <2> QED BY <1>3, <2>2
  <1>5. \A i \in S : h[i] \in 1..(n + k) /\ w[h[i]] = s[i]
    <2> HIDE DEF S
    <2> SUFFICES ASSUME NEW i \in S PROVE h[i] \in 1..(n + k) /\ w[h[i]] = s[i]
      OBVIOUS
    <2>1. i \in 1..n /\ i \in Nat
      BY <1>3
    <2>2. CASE i < a
      <3>1. h[i] = i /\ i \in 1..(a - 1) /\ i \in 1..(n + k)
        BY <1>1, <1>2, <2>1, <2>2
      <3> QED BY <3>1
    <2>3. CASE ~(i < a)
      <3>1. h[i] = i + k /\ i \in a..n /\ i + k \in 1..(n + k)
        BY <1>1, <1>2, <2>1, <2>3
      <3> QED BY <1>2, <3>1
    <2> QED BY <2>2, <2>3
  <1>6. h \in [S -> T]
    <2>1. \A i \in S : h[i] \in T
      BY <1>1, <1>5 DEF OwnAt
    <2> QED BY <2>1
  <1>7. \A i, j \in S : i < j => h[i] < h[j]
    <2> SUFFICES ASSUME NEW i \in S, NEW j \in S, i < j PROVE h[i] < h[j]
      OBVIOUS
    <2>1. h[i] = (IF i < a THEN i ELSE i + k) /\ h[j] = (IF j < a THEN j ELSE j + k)
      OBVIOUS
    <2>2. i \in Nat /\ j \in Nat /\ a \in Nat
      BY <1>3
    <2> HIDE DEF h, S
    <2> QED BY <2>1, <2>2
  <1>8. \A x \in T : \E i \in S : h[i] = x
    <2> SUFFICES ASSUME NEW x \in T PROVE \E i \in S : h[i] = x
      OBVIOUS
    <2>1. x \in 1..(n + k) /\ w[x] \notin {Blank, IncludeLine}
      BY <1>1 DEF OwnAt
    <2>2. x \notin a..(a + k - 1)
      BY <2>1
    <2>3. CASE x < a
      <3>1. x \in 1..(a - 1) /\ x \in 1..n
        BY <1>1, <1>2, <2>1, <2>3
      <3>2. x \in S
        BY <1>1, <2>1, <3>1 DEF OwnAt
      <3> QED BY <2>3, <3>2
    <2>4. CASE ~(x < a)
      <3> DEFINE i == x - k
      <3>1. i \in a..n /\ i + k = x /\ i \in 1..n /\ ~(i < a)
        BY <1>1, <1>2, <2>1, <2>2, <2>4
      <3> HIDE DEF i
      <3>2. w[x] = s[i]
        BY <1>2, <3>1
      <3>3. i \in S
        BY <1>1, <2>1, <3>1, <3>2 DEF OwnAt
      <3> QED BY <3>1, <3>3
    <2> QED BY <2>3, <2>4
  <1>9. \A i \in S : s[i] = w[h[i]]
    BY <1>5
  <1> HIDE DEF S, T, h
  <1>10. PickAt(s, S) = PickAt(w, T)
    BY <1>4, <1>6, <1>7, <1>8, <1>9, SamePicked
  <1> QED BY <1>10 DEF Own, OwnAt, S, T

\* Dropping the lines that include our file drops none of the user's.
LEMMA OwnKept ==
    ASSUME NEW s \in Seq(UserLines)
    PROVE  LET r == PickAt(s, {i \in DOMAIN s : s[i] # IncludeLine})
           IN  r \in Seq(UserLines) /\ Own(r) = Own(s)
  <1> DEFINE S == {i \in DOMAIN s : s[i] # IncludeLine}
             T == OwnAt(s)
             r == PickAt(s, S)
             U == OwnAt(r)
             k == Cardinality(S)
  <1>1. Len(s) \in Nat /\ DOMAIN s = 1..Len(s)
    OBVIOUS
  <1>2. S \in SUBSET DOMAIN s /\ S \in SUBSET Nat /\ T \in SUBSET S
    BY <1>1 DEF OwnAt
  <1>3. IsFiniteSet(S)
    <2>1. IsFiniteSet(1..Len(s))
      BY <1>1, FS_Interval
    <2> HIDE DEF S
    <2> QED BY <1>1, <1>2, <2>1, FS_Subset
  <1>4. \A i : i \in T <=> i \in S /\ s[i] # Blank
    BY DEF OwnAt
  <1>5. \A i \in S : s[i] # IncludeLine
    OBVIOUS
  <1> HIDE DEF S, T
  <1>6. r \in Seq(UserLines)
    BY <1>2, PickedIs
  <1>7. DOMAIN r = 1..k /\ \A n \in 1..k : r[n] = s[NthOf(S, n)] /\ NthOf(S, n) \in S
    BY <1>2, <1>3, NthRank DEF PickAt
  <1> HIDE DEF r, k
  <1>8. U \in SUBSET (1..k) /\ \A n \in 1..k : n \in U <=> NthOf(S, n) \in T
    BY <1>4, <1>5, <1>7 DEF OwnAt
  <1> HIDE DEF U
  <1>9. PickAt(s, T) = PickAt(PickAt(s, S), U)
    BY <1>2, <1>3, <1>8, PickedTwice DEF k
  <1>10. Own(r) = Own(s)
    BY <1>9 DEF r, Own, OwnAt, T, U
  <1> QED BY <1>6, <1>10 DEF r, S

\* IncludeInForce, of any file.
IncludeForced(w) ==
    \E i \in DOMAIN w : w[i] = IncludeLine /\ \A j \in 1..i : ~(w[j].kind \in {"host", "match"})

\* The edit of the user's file.
LEMMA IncludeAdded ==
    ASSUME NEW s \in Seq(UserLines)
    PROVE  /\ WithInclude(s) \in Seq(UserLines)
           /\ Own(WithInclude(s)) = Own(s)
           /\ IncludeForced(WithInclude(s))
  <1> DEFINE L == PickAt(s, {i \in DOMAIN s : s[i] # IncludeLine})
             n == Len(L)
             G == {i \in DOMAIN L : EndsGlobalPart(L[i])}
             at == FirstAt(L, G)
             p == SubSeq(L, 1, at - 1)
             q == Rest(L, at)
             mid == <<IncludeLine>>
             w == Spaced(p) \o mid \o SpacedRest(q)
  <1>1. L \in Seq(UserLines) /\ Own(L) = Own(s)
    BY OwnKept
  <1>w. WithInclude(s) = Append(Spaced(p), IncludeLine) \o SpacedRest(q)
    BY DEF WithInclude
  <1> HIDE DEF L
  <1>2. n \in Nat /\ DOMAIN L = 1..n
    BY <1>1
  <1>3. G \in SUBSET (1..n) /\ G \in SUBSET Nat
    BY <1>2
  <1>4. at \in 1..(n + 1) /\ \A i \in 1..(at - 1) : ~EndsGlobalPart(L[i])
    <2>1. /\ G = {} => FirstAt(L, G) = Len(L) + 1
          /\ G # {} => FirstAt(L, G) \in G /\ \A j \in G : FirstAt(L, G) <= j
      <3> HIDE DEF G
      <3> QED BY <1>3, FirstAtIs
    <2>2. at \in 1..(n + 1)
      <3> HIDE DEF G
      <3>1. n + 1 \in 1..(n + 1) /\ \A i \in 1..n : i \in 1..(n + 1)
        BY <1>2
      <3> QED BY <1>3, <2>1, <3>1
    <2>3. ASSUME NEW i \in 1..(at - 1) PROVE i \notin G /\ i \in 1..n
      <3> HIDE DEF G
      <3>1. at = FirstAt(L, G) /\ at = at
        OBVIOUS
      <3> HIDE DEF at
      <3>2. at \in Nat /\ i \in Nat /\ i < at /\ ~(at <= i) /\ i \in 1..n
        BY <1>2, <2>2
      <3> QED BY <2>1, <3>1, <3>2
    <2> QED BY <1>2, <2>2, <2>3
  <1> HIDE DEF at, G
  <1>5. Blank \in UserLines /\ IncludeLine \in UserLines
    BY DEF UserLines
  <1>6. p \in Seq(UserLines) /\ Len(p) = at - 1 /\ (\A i \in 1..(at - 1) : p[i] = L[i])
    BY <1>1, <1>4, PartsOf
  <1>7. q \in Seq(UserLines) /\ Len(q) = n + 1 - at /\ \A i \in 1..(n + 1 - at) : q[i] = L[at + i - 1]
    BY <1>1, <1>4, PartsOf
  <1> HIDE DEF p, q
  <1>8. mid \in Seq(UserLines) /\ Len(mid) = 1 /\ mid[1] = IncludeLine
    BY <1>5
  <1>9. WithInclude(s) = w
    <2>1. Spaced(p) \in Seq(UserLines)
      BY <1>5, <1>6, SpacedIs
    <2> DEFINE c == IncludeLine
    <2>2. c \in UserLines /\ mid = <<c>>
      BY <1>5
    <2> HIDE DEF c
    <2>3. Append(Spaced(p), c) = Spaced(p) \o <<c>>
      BY <2>1, <2>2, AppendIsConcat
    <2> QED BY <1>w, <2>2, <2>3 DEF c
  <1> HIDE DEF mid
  <1>10. w \in Seq(UserLines) /\ \E x, y \in 0..1 : JoinedAs(w, p, mid, q, x, y)
    BY <1>5, <1>6, <1>7, <1>8, Joined
  <1> HIDE DEF w
  <1>11. PICK x \in 0..1, y \in 0..1 : JoinedAs(w, p, mid, q, x, y)
    BY <1>10
  <1> DEFINE k == x + 1 + y
  <1>12. k \in Nat /\ x \in Nat /\ y \in Nat
    OBVIOUS
  <1> HIDE DEF n
  <1>13. Len(w) = n + k
    <2>1. Len(w) = (at - 1) + x + 1 + y + (n + 1 - at)
      BY <1>6, <1>7, <1>8, <1>11 DEF JoinedAs
    <2> QED BY <1>2, <1>4, <1>12, <2>1
  <1>14. \A i \in 1..(at - 1) : w[i] = L[i]
    BY <1>6, <1>11 DEF JoinedAs
  <1>15. (x = 1 => w[at] = Blank) /\ w[at + x] = IncludeLine /\ (y = 1 => w[at + x + 1] = Blank)
    <2>1. /\ x = 1 => w[(at - 1) + 1] = Blank
          /\ \A i \in 1..1 : w[(at - 1) + x + i] = mid[i]
          /\ y = 1 => w[(at - 1) + x + 1 + 1] = Blank
      BY <1>6, <1>8, <1>11 DEF JoinedAs
    <2>2. (at - 1) + 1 = at /\ (at - 1) + x + 1 = at + x /\ (at - 1) + x + 1 + 1 = at + x + 1 /\ 1 \in 1..1
      BY <1>4, <1>12
    <2>3. w[(at - 1) + x + 1] = mid[1]
      BY <2>1, <2>2
    <2> QED BY <1>8, <2>1, <2>2, <2>3
  <1>16. \A i \in at..(at + k - 1) : w[i] \in {Blank, IncludeLine}
    <2> TAKE i \in at..(at + k - 1)
    <2>1. (x = 1 /\ i = at) \/ i = at + x \/ (y = 1 /\ i = at + x + 1)
      BY <1>4
    <2> HIDE DEF k
    <2> QED BY <1>15, <2>1
  <1>17. \A i \in at..n : w[i + k] = L[i]
    <2> TAKE i \in at..n
    <2> DEFINE z == i + 1 - at
    <2>1. z \in 1..(n + 1 - at) /\ at + z - 1 = i /\ (at - 1) + x + 1 + y + z = i + k
      BY <1>2, <1>4, <1>12
    <2> HIDE DEF z, k
    <2>2. \A j \in 1..(n + 1 - at) : w[(at - 1) + x + 1 + y + j] = q[j]
      BY <1>6, <1>7, <1>8, <1>11 DEF JoinedAs
    <2> QED BY <1>7, <2>1, <2>2
  <1>18. IncludeForced(w)
    <2> DEFINE f == at + x
    <2>1. f \in 1..(n + k) /\ f \in Nat
      BY <1>2, <1>4, <1>12
    <2>2. DOMAIN w = 1..(n + k)
      BY <1>10, <1>13
    <2>3. ASSUME NEW j \in 1..f PROVE ~(w[j].kind \in {"host", "match"})
      <3>1. j \in 1..(at - 1) \/ j \in at..(at + k - 1)
        BY <1>2, <1>4, <1>12
      <3>2. CASE j \in 1..(at - 1)
        BY <1>4, <1>14, <3>2 DEF EndsGlobalPart
      <3>3. CASE j \in at..(at + k - 1)
        BY <1>16, <3>3, LineFacts
      <3> QED BY <3>1, <3>2, <3>3
    <2>4. w[f] = IncludeLine
      BY <1>15
    <2> HIDE DEF f, k
    <2> QED BY <2>1, <2>2, <2>3, <2>4 DEF IncludeForced
  <1> HIDE DEF k
  <1>19. Own(w) = Own(L)
    BY <1>1, <1>2, <1>4, <1>10, <1>12, <1>13, <1>14, <1>16, <1>17, OwnMoved DEF n
  <1> QED BY <1>1, <1>9, <1>10, <1>18, <1>19

\* Replacing what stands from a to before e, a block of the sandbox or nothing,
\* by its new block.
LEMMA BlockReplaced ==
    ASSUME NEW s, NEW want, BoxTrue(s, want), DOMAIN want = SshBoxes,
           NEW bx \in SshBoxes, NEW gw \in SshGateways,
           NEW a \in 1..(Len(s) + 1), NEW e \in a..(Len(s) + 1),
           a <= Len(s) => s[a].kind = "host",
           \A i \in 1..Len(s) : s[i] = ConfLine("host", bx) => i \in a..(e - 1),
           \A i \in a..(e - 1) : s[i].kind = "host" => s[i] = ConfLine("host", bx)
    PROVE  BoxTrue(Spaced(SubSeq(s, 1, a - 1)) \o RenderSshConfig(gw, bx) \o SpacedRest(Rest(s, e)),
                   [want EXCEPT ![bx] = gw])
  <1> DEFINE n == Len(s)
             p == SubSeq(s, 1, a - 1)
             q == Rest(s, e)
             mid == RenderSshConfig(gw, bx)
             w == Spaced(p) \o mid \o SpacedRest(q)
             nw == [want EXCEPT ![bx] = gw]
  <1>1. s \in Seq(BoxLines) /\ n \in Nat /\ DOMAIN s = 1..n
    BY DEF BoxTrue
  <1>2. Blank \in BoxLines /\ ConfLine("host", bx) \in BoxLines /\ ConfLine("proxy", gw) \in BoxLines
    BY DEF BoxLines
  <1>3. a \in 1..(n + 1) /\ e \in 1..(n + 1) /\ e \in a..(n + 1)
    BY <1>1
  <1>4. p \in Seq(BoxLines) /\ Len(p) = a - 1 /\ (\A i \in 1..(a - 1) : p[i] = s[i])
    BY <1>1, <1>3, PartsOf
  <1>5. q \in Seq(BoxLines) /\ Len(q) = n + 1 - e /\ \A i \in 1..(n + 1 - e) : q[i] = s[e + i - 1]
    BY <1>1, <1>3, PartsOf
  <1>6. mid \in Seq(BoxLines) /\ Len(mid) = 2 /\ mid[1] = ConfLine("host", bx) /\ mid[2] = ConfLine("proxy", gw)
    BY <1>2 DEF RenderSshConfig
  <1> HIDE DEF p, q, mid
  <1>7. w \in Seq(BoxLines) /\ \E x, y \in 0..1 : JoinedAs(w, p, mid, q, x, y)
    BY <1>2, <1>4, <1>5, <1>6, Joined
  <1> HIDE DEF w
  <1>8. PICK x \in 0..1, y \in 0..1 : JoinedAs(w, p, mid, q, x, y)
    BY <1>7
  <1> DEFINE f == a + x
             z == f + 2 + y - e
  <1>9. x \in Nat /\ y \in Nat /\ f \in Nat /\ z \in Int /\ a <= f /\ f <= a + 1
    BY <1>3
  <1> HIDE DEF n
  <1>10. Len(w) = n + z
    <2>1. Len(w) = (a - 1) + x + 2 + y + (n + 1 - e)
      BY <1>4, <1>5, <1>6, <1>8 DEF JoinedAs
    <2> QED BY <1>1, <1>3, <1>9, <2>1
  <1>11. \A i \in 1..(a - 1) : w[i] = s[i]
    BY <1>4, <1>8 DEF JoinedAs
  <1>12. /\ x = 1 => w[a] = Blank
         /\ w[f] = ConfLine("host", bx) /\ w[f + 1] = ConfLine("proxy", gw)
         /\ y = 1 => w[f + 2] = Blank
    <2>1. /\ x = 1 => w[(a - 1) + 1] = Blank
          /\ \A i \in 1..2 : w[(a - 1) + x + i] = mid[i]
          /\ y = 1 => w[(a - 1) + x + 2 + 1] = Blank
      BY <1>4, <1>6, <1>8 DEF JoinedAs
    <2>2. /\ (a - 1) + 1 = a /\ (a - 1) + x + 1 = f /\ (a - 1) + x + 2 = f + 1
          /\ (a - 1) + x + 2 + 1 = f + 2 /\ 1 \in 1..2 /\ 2 \in 1..2
      BY <1>3, <1>9
    <2>3. w[(a - 1) + x + 1] = mid[1] /\ w[(a - 1) + x + 2] = mid[2]
      BY <2>1, <2>2
    <2> HIDE DEF f
    <2> QED BY <1>6, <2>1, <2>2, <2>3
  <1>13. \A i \in e..n : w[i + z] = s[i]
    <2> TAKE i \in e..n
    <2> DEFINE t == i + 1 - e
    <2>3. i \in Int /\ e <= i /\ i <= n /\ t \in Int /\ t = i + 1 - e /\ z = a + x + 2 + y - e
      BY <1>1, <1>3, <1>9
    <2>4. t \in 1..(n + 1 - e) /\ e + t - 1 = i
      <3> HIDE DEF t, z, f
      <3> QED BY <1>1, <1>3, <2>3
    <2>5. (a - 1) + x + 2 + y + t = i + z
      <3> HIDE DEF t, z, f
      <3> QED BY <1>3, <1>9, <2>3
    <2>1. t \in 1..(n + 1 - e) /\ e + t - 1 = i /\ (a - 1) + x + 2 + y + t = i + z
      BY <2>4, <2>5
    <2> HIDE DEF t, z, f
    <2>2. \A j \in 1..(n + 1 - e) : w[(a - 1) + x + 2 + y + j] = q[j]
      BY <1>4, <1>5, <1>6, <1>8 DEF JoinedAs
    <2> QED BY <1>5, <2>1, <2>2
  <1>14. DOMAIN w = 1..(n + z)
    BY <1>7, <1>10
  <1>15. ASSUME NEW i \in DOMAIN w
         PROVE  \/ i \in 1..(a - 1)
                \/ w[i] = Blank
                \/ i = f
                \/ i = f + 1
                \/ i - z \in e..n /\ f + 2 <= i
    <2>1. \/ i \in 1..(a - 1) \/ (x = 1 /\ i = a) \/ i = f \/ i = f + 1 \/ (y = 1 /\ i = f + 2)
          \/ i - z \in e..n /\ f + 2 <= i
      BY <1>1, <1>3, <1>9, <1>14
    <2> HIDE DEF f, z
    <2> QED BY <1>12, <2>1
  \* Where a Host line of the new file comes from.
  <1>16. ASSUME NEW b \in SshBoxes, NEW i \in DOMAIN w, HostAt(w, i, b)
         PROVE  \/ i \in 1..(a - 1) /\ HostAt(s, i, b) /\ b # bx
                \/ i = f /\ b = bx
                \/ i - z \in e..n /\ f + 2 <= i /\ HostAt(s, i - z, b) /\ b # bx
    <2>1. w[i] = ConfLine("host", b) /\ w[i] # Blank /\ w[i] # ConfLine("proxy", gw)
      BY <1>16, LineFacts DEF HostAt
    <2>2. CASE i \in 1..(a - 1)
      <3>1. i \in 1..n /\ i \notin a..(e - 1)
        BY <1>1, <1>3, <2>2
      <3>2. s[i] = ConfLine("host", b)
        BY <1>11, <2>1, <2>2
      <3> QED BY <1>1, <2>2, <3>1, <3>2 DEF HostAt, n
    <2>3. CASE i = f
      BY <1>12, <2>1, <2>3, LineFacts
    <2>4. CASE i = f + 1
      BY <1>12, <2>1, <2>4
    <2>5. CASE i - z \in e..n /\ f + 2 <= i
      <3> DEFINE j == i - z
      <3>1. j \in e..n /\ j + z = i /\ j \in 1..n /\ j \notin a..(e - 1)
        BY <1>1, <1>3, <1>9, <1>14, <2>5
      <3> HIDE DEF j, z, f
      <3>2. s[j] = ConfLine("host", b)
        BY <1>13, <2>1, <3>1
      <3> QED BY <1>1, <2>5, <3>1, <3>2 DEF HostAt, n, j
    <2> HIDE DEF f, z
    <2> QED BY <1>15, <2>1, <2>2, <2>3, <2>4, <2>5
  <1>17. ASSUME NEW b \in SshBoxes PROVE nw[b] = IF b = bx THEN gw ELSE want[b]
    OBVIOUS
  <1>18. ASSUME NEW b \in SshBoxes, NEW i \in DOMAIN w, HostAt(w, i, b)
         PROVE  i + 1 \in DOMAIN w /\ w[i + 1] = ConfLine("proxy", nw[b])
    <2>1. CASE i \in 1..(a - 1) /\ HostAt(s, i, b) /\ b # bx
      <3>1. i + 1 \in 1..n /\ s[i + 1] = ConfLine("proxy", want[b])
        BY <1>1, <2>1 DEF BoxTrue, HostAt
      <3>2. s[i + 1].kind = "proxy"
        BY <3>1, LineFacts
      <3>3. i + 1 # a
        BY <1>1, <3>1, <3>2 DEF n
      <3>4. i + 1 \in 1..(a - 1) /\ i + 1 \in 1..(n + z)
        BY <1>1, <1>3, <1>9, <2>1, <3>1, <3>3
      <3> QED BY <1>11, <1>14, <1>17, <2>1, <3>1, <3>4
    <2>2. CASE i = f /\ b = bx
      <3>2. z + e = f + 2 + y /\ e <= n + 1 /\ e \in Int
        BY <1>3, <1>9
      <3>1. f + 1 \in 1..(n + z)
        <4> HIDE DEF f, z
        <4> QED BY <1>1, <1>9, <3>2
      <3> QED BY <1>12, <1>14, <1>17, <2>2, <3>1
    <2>3. CASE i - z \in e..n /\ f + 2 <= i /\ HostAt(s, i - z, b) /\ b # bx
      <3> DEFINE j == i - z
      <3>1. j + 1 \in 1..n /\ s[j + 1] = ConfLine("proxy", want[b])
        BY <1>1, <2>3 DEF BoxTrue, HostAt
      <3>2. j \in e..n /\ j + 1 \in e..n /\ (j + 1) + z = i + 1 /\ i + 1 \in 1..(n + z)
        BY <1>1, <1>3, <1>9, <1>14, <2>3, <3>1
      <3> HIDE DEF j
      <3>3. w[i + 1] = s[j + 1]
        BY <1>13, <3>2
      <3> QED BY <1>14, <1>17, <2>3, <3>1, <3>2, <3>3
    <2> HIDE DEF f, z, nw
    <2> QED BY <1>16, <1>18, <2>1, <2>2, <2>3
  <1>19. ASSUME NEW b \in SshBoxes, NEW i \in DOMAIN w, NEW j \in DOMAIN w, HostAt(w, i, b), HostAt(w, j, b)
         PROVE  i = j
    <2>1. \A k, m \in DOMAIN s : HostAt(s, k, b) /\ HostAt(s, m, b) => k = m
      BY DEF BoxTrue
    <2>2. \A k : HostAt(s, k, b) => k \in DOMAIN s
      BY DEF HostAt
    <2>3. CASE b = bx
      <3> HIDE DEF f, z
      <3> QED BY <1>16, <1>19, <2>3
    <2>4. CASE b # bx
      <3> DEFINE u == IF i \in 1..(a - 1) THEN i ELSE i - z
                 v == IF j \in 1..(a - 1) THEN j ELSE j - z
      <3>0. i \in Int /\ j \in Int /\ z \in Int
        BY <1>9, <1>14
      <3>1. /\ i \in 1..(a - 1) \/ (i - z \in e..n /\ f + 2 <= i)
            /\ HostAt(s, u, b)
        <4> HIDE DEF z
        <4>1. f + 2 <= i => i \notin 1..(a - 1)
          BY <1>3, <1>9, <3>0
        <4> HIDE DEF f
        <4> QED BY <1>16, <1>19, <2>4, <4>1
      <3>2. /\ j \in 1..(a - 1) \/ (j - z \in e..n /\ f + 2 <= j)
            /\ HostAt(s, v, b)
        <4> HIDE DEF z
        <4>1. f + 2 <= j => j \notin 1..(a - 1)
          BY <1>3, <1>9, <3>0
        <4> HIDE DEF f
        <4> QED BY <1>16, <1>19, <2>4, <4>1
      <3>3. u = v
        <4> HIDE DEF u, v
        <4> QED BY <2>1, <2>2, <3>1, <3>2
      <3> HIDE DEF z
      <3> QED BY <1>1, <1>3, <1>9, <3>0, <3>1, <3>2, <3>3
    <2> QED BY <2>3, <2>4
  <1>20. ASSUME NEW b \in SshBoxes, nw[b] # "-" PROVE \E i \in DOMAIN w : HostAt(w, i, b)
    <2>1. CASE b = bx
      <3>1. f \in DOMAIN w
        BY <1>1, <1>3, <1>9, <1>14
      <3> HIDE DEF f
      <3> QED BY <1>12, <2>1, <3>1 DEF HostAt
    <2>2. CASE b # bx
      <3>1. want[b] # "-"
        BY <1>17, <1>20, <2>2
      <3>2. PICK i \in DOMAIN s : HostAt(s, i, b)
        BY <3>1 DEF BoxTrue
      <3>3. i \in 1..n /\ s[i] = ConfLine("host", b) /\ s[i] # ConfLine("host", bx) /\ s[i].kind = "host"
        BY <1>1, <2>2, <3>2, LineFacts DEF HostAt
      <3>4. i \notin a..(e - 1)
        BY <3>3
      <3>5. CASE i \in 1..(a - 1)
        <4>1. i \in DOMAIN w
          BY <1>1, <1>3, <1>9, <1>14, <3>5
        <4> QED BY <1>11, <3>3, <3>5, <4>1 DEF HostAt
      <3>6. CASE i \in e..n
        <4>2. z + e = f + 2 + y /\ z \in Int /\ f \in Nat
          BY <1>3, <1>9
        <4> HIDE DEF z, f
        <4>3. i + z \in 1..(n + z)
          BY <1>1, <1>3, <1>9, <3>6, <4>2
        <4>1. i + z \in DOMAIN w
          BY <1>14, <4>3
        <4> QED BY <1>13, <3>3, <3>6, <4>1 DEF HostAt
      <3> QED BY <1>1, <1>3, <3>3, <3>4, <3>5, <3>6
    <2> QED BY <2>1, <2>2
  <1> HIDE DEF f, z, nw
  <1>21. BoxTrue(w, nw)
    BY <1>7, <1>18, <1>19, <1>20 DEF BoxTrue
  <1> QED BY <1>21 DEF w, nw, p, q, mid

\* The edit of the managed file.
LEMMA BlockUpserted ==
    ASSUME NEW s, NEW want, BoxTrue(s, want), DOMAIN want = SshBoxes,
           NEW bx \in SshBoxes, NEW gw \in SshGateways
    PROVE  BoxTrue(UpsertHostBlock(s, bx, RenderSshConfig(gw, bx)), [want EXCEPT ![bx] = gw])
  <1> DEFINE n == Len(s)
             M == HostLineMatches(s, bx)
             a == FirstAt(s, M)
             E == {i \in DOMAIN s : i > a /\ s[i].kind = "host"}
             e == FirstAt(s, E)
             mid == RenderSshConfig(gw, bx)
  <1>1. s \in Seq(BoxLines) /\ n \in Nat /\ DOMAIN s = 1..n
    BY DEF BoxTrue
  <1>2. M \in SUBSET Nat /\ \A i : i \in M <=> i \in 1..n /\ s[i] = ConfLine("host", bx)
    BY <1>1 DEF HostLineMatches
  <1>u. UpsertHostBlock(s, bx, mid)
          = IF a <= n THEN Spaced(SubSeq(s, 1, a - 1)) \o mid \o SpacedRest(Rest(s, e)) ELSE Spaced(s) \o mid
    BY DEF UpsertHostBlock
  <1> HIDE DEF M
  <1>3. /\ M = {} => a = n + 1
        /\ M # {} => a \in M /\ \A j \in M : a <= j
    BY <1>2, FirstAtIs
  <1> HIDE DEF a
  <1>4. E \in SUBSET Nat /\ \A i : i \in E <=> i \in 1..n /\ i > a /\ s[i].kind = "host"
    BY <1>1
  <1> HIDE DEF E
  <1>5. /\ E = {} => e = n + 1
        /\ E # {} => e \in E /\ \A j \in E : e <= j
    BY <1>4, FirstAtIs
  <1> HIDE DEF e
  <1>6. CASE M # {}
    <2>1. a \in 1..n /\ s[a] = ConfLine("host", bx) /\ s[a].kind = "host"
      BY <1>2, <1>3, <1>6, LineFacts
    <2>2. e \in a..(n + 1) /\ e > a
      <3>1. CASE E = {}
        BY <1>1, <1>5, <2>1, <3>1
      <3>2. CASE E # {}
        BY <1>1, <1>4, <1>5, <2>1, <3>2
      <3> QED BY <3>1, <3>2
    <2>3. ASSUME NEW i \in 1..n, s[i] = ConfLine("host", bx) PROVE i \in a..(e - 1)
      <3>1. i \in DOMAIN s /\ a \in DOMAIN s /\ HostAt(s, i, bx) /\ HostAt(s, a, bx)
        BY <1>1, <2>1, <2>3 DEF HostAt
      <3>2. i = a
        BY <3>1 DEF BoxTrue
      <3> QED BY <2>1, <2>2, <3>2
    <2>4. ASSUME NEW i \in a..(e - 1), s[i].kind = "host" PROVE s[i] = ConfLine("host", bx)
      <3>1. i \in 1..n /\ i \in Nat /\ e \in Nat /\ ~(e <= i)
        BY <1>1, <2>1, <2>2
      <3>2. i \notin E
        BY <1>5, <3>1
      <3>3. ~(i > a)
        BY <1>4, <2>4, <3>1, <3>2
      <3>4. i = a
        BY <2>1, <3>1, <3>3
      <3> QED BY <2>1, <3>4
    <2>5. a \in 1..(Len(s) + 1) /\ e \in a..(Len(s) + 1) /\ (a <= Len(s) => s[a].kind = "host")
      BY <1>1, <2>1, <2>2
    <2>6. /\ \A i \in 1..Len(s) : s[i] = ConfLine("host", bx) => i \in a..(e - 1)
          /\ \A i \in a..(e - 1) : s[i].kind = "host" => s[i] = ConfLine("host", bx)
      BY <2>3, <2>4
    <2>7. BoxTrue(Spaced(SubSeq(s, 1, a - 1)) \o RenderSshConfig(gw, bx) \o SpacedRest(Rest(s, e)),
                  [want EXCEPT ![bx] = gw])
      BY <2>5, <2>6, BlockReplaced
    <2>8. a <= n
      BY <1>1, <2>1
    <2> QED BY <1>u, <2>7, <2>8
  <1>7. CASE M = {}
    <2> DEFINE c == n + 1
    <2>1. a = c /\ ~(a <= n)
      BY <1>1, <1>3, <1>7
    <2>2. c \in 1..(Len(s) + 1) /\ c \in c..(Len(s) + 1) /\ ~(c <= Len(s)) /\ c..(c - 1) = {}
      BY <1>1
    <2>3. \A i \in 1..Len(s) : s[i] # ConfLine("host", bx)
      BY <1>2, <1>7
    <2>4. SubSeq(s, 1, c - 1) = s /\ Rest(s, c) = <<>>
      <3>1. /\ SubSeq(s, 1, c - 1) \in Seq(BoxLines) /\ Len(SubSeq(s, 1, c - 1)) = c - 1
            /\ \A i \in 1..(c - 1) : SubSeq(s, 1, c - 1)[i] = s[i]
            /\ Rest(s, c) \in Seq(BoxLines) /\ Len(Rest(s, c)) = Len(s) + 1 - c
        <4> HIDE DEF c
        <4> QED BY <1>1, <2>2, PartsOf
      <3> DEFINE p == SubSeq(s, 1, c - 1)
                 r == Rest(s, c)
      <3>2. c - 1 = n /\ n + 1 - c = 0
        BY <1>1
      <3> HIDE DEF p, r, c
      <3>3. p \in Seq(BoxLines) /\ Len(p) = Len(s) /\ (\A i \in 1..Len(p) : p[i] = s[i])
        BY <3>1, <3>2 DEF p
      <3>4. p = s
        BY <1>1, <3>3, SeqEqual
      <3>5. r \in Seq(BoxLines) /\ Len(r) = 0
        BY <3>1, <3>2 DEF r
      <3>6. r = <<>>
        BY <3>5, EmptySeq
      <3> QED BY <3>4, <3>6 DEF p, r
    <2> HIDE DEF c
    <2>5. BoxTrue(Spaced(SubSeq(s, 1, c - 1)) \o RenderSshConfig(gw, bx) \o SpacedRest(Rest(s, c)),
                  [want EXCEPT ![bx] = gw])
      BY <2>2, <2>3, BlockReplaced
    <2>6. SpacedRest(<<>>) = <<>>
      BY DEF SpacedRest
    <2>7. Spaced(s) \o mid \in Seq(BoxLines)
      <3>1. Blank \in BoxLines /\ mid \in Seq(BoxLines)
        BY DEF BoxLines, RenderSshConfig
      <3>2. Spaced(s) \in Seq(BoxLines)
        BY <1>1, <3>1, SpacedIs
      <3> HIDE DEF mid
      <3> QED BY <3>1, <3>2, ConcatProperties
    <2> DEFINE t == Spaced(s) \o mid
    <2>8. t \o <<>> = t
      <3>1. t \in Seq(BoxLines)
        BY <2>7
      <3> HIDE DEF t
      <3> QED BY <3>1, ConcatEmptySeq
    <2>9. BoxTrue(t \o <<>>, [want EXCEPT ![bx] = gw])
      BY <2>4, <2>5, <2>6
    <2>10. UpsertHostBlock(s, bx, mid) = t
      BY <1>u, <2>1
    <2> HIDE DEF t
    <2> QED BY <2>8, <2>9, <2>10
  <1> QED BY <1>6, <1>7

\* SshInv holds at the start.
LEMMA SshInitInv == ASSUME SshInit PROVE SshInv
  <1>1. mainConf \in Seq(UserLines) /\ boxConf \in Seq(BoxLines) /\ DOMAIN boxConf = {}
    BY DEF SshInit
  <1>2. BoxTrue(boxConf, wanted) /\ DOMAIN wanted = SshBoxes
    BY <1>1 DEF SshInit, BoxTrue
  <1>3. CommandOK /\ ~command.on
    BY DEF SshInit, CommandOK, NoSshCommand
  <1>4. sshEdits \in 0..MaxUserEdits /\ installs \in 0..MaxInstalls
    BY SshAssumption DEF SshInit
  <1>5. Own(mainConf) = ownLines
    <2>1. {i \in DOMAIN mainConf : mainConf[i] \notin {Blank, IncludeLine}} = {}
      BY DEF SshInit
    <2>2. ownLines = <<>>
      BY DEF SshInit
    <2> QED BY <2>1, <2>2, PickNone DEF Own
  <1> QED BY <1>1, <1>2, <1>3, <1>4, <1>5 DEF SshInv

\* Every step keeps SshInv.
LEMMA SshNextInv == ASSUME SshInv, [SshNext]_sshVars PROVE SshInv'
  <1> USE DEF SshInv
  <1>1. ASSUME NEW b \in SshBoxes, NEW g \in SshGateways, EnsureOpenshellInclude(b, g) PROVE SshInv'
    <2>1. mainConf' = WithInclude(mainConf)
      BY <1>1 DEF EnsureOpenshellInclude
    <2>2. mainConf' \in Seq(UserLines) /\ Own(mainConf') = Own(mainConf) /\ IncludeForced(mainConf')
      BY <2>1, IncludeAdded
    <2>3. IncludeInForce'
      BY <2>2 DEF IncludeInForce, IncludeForced
    <2>4. CommandOK'
      BY <1>1 DEF EnsureOpenshellInclude, CommandOK
    <2>5. Own(mainConf)' = ownLines'
      BY <1>1, <2>2 DEF EnsureOpenshellInclude, Own
    <2>6. (installs \in 0..MaxInstalls)' /\ (sshEdits \in 0..MaxUserEdits)'
      BY <1>1, SshAssumption DEF EnsureOpenshellInclude
    <2>7. BoxTrue(boxConf, wanted)' /\ (DOMAIN wanted = SshBoxes)'
      <3>1. boxConf' = boxConf /\ wanted' = wanted
        BY <1>1 DEF EnsureOpenshellInclude
      <3> QED BY <3>1 DEF BoxTrue
    <2> QED BY <2>2, <2>3, <2>4, <2>5, <2>6, <2>7
  <1>2. ASSUME WriteManagedConfig PROVE SshInv'
    <2>1. command.box \in SshBoxes /\ command.gw \in SshGateways
      BY <1>2 DEF WriteManagedConfig, CommandOK
    <2>2. boxConf' = UpsertHostBlock(boxConf, command.box, RenderSshConfig(command.gw, command.box))
          /\ wanted' = [wanted EXCEPT ![command.box] = command.gw]
      BY <1>2 DEF WriteManagedConfig
    <2>3. BoxTrue(boxConf', wanted') /\ DOMAIN wanted' = SshBoxes
      BY <2>1, <2>2, BlockUpserted
    <2>4. CommandOK' /\ ~command'.on
      BY <1>2 DEF WriteManagedConfig, CommandOK, NoSshCommand
    <2>5. mainConf' = mainConf /\ ownLines' = ownLines /\ sshEdits' = sshEdits /\ installs' = installs
      BY <1>2 DEF WriteManagedConfig
    <2>6. BoxTrue(boxConf, wanted)'
      BY <2>3 DEF BoxTrue
    <2>7. Own(mainConf)' = ownLines'
      BY <2>5 DEF Own
    <2> QED BY <2>3, <2>4, <2>5, <2>6, <2>7
  <1>3. ASSUME WriteFails PROVE SshInv'
    <2>1. CommandOK' /\ ~command'.on
      BY <1>3 DEF WriteFails, CommandOK, NoSshCommand
    <2>2. UNCHANGED <<mainConf, boxConf, ownLines, wanted, sshEdits, installs>>
      BY <1>3 DEF WriteFails
    <2>3. BoxTrue(boxConf, wanted)' /\ Own(mainConf)' = ownLines'
      BY <2>2 DEF BoxTrue, Own
    <2> QED BY <2>1, <2>2, <2>3
  <1>4. ASSUME NEW ln \in UserLines, NEW at \in 1..(MaxUserEdits + 3 * MaxInstalls), UserEdits(ln, at) PROVE SshInv'
    <2> DEFINE p == SubSeq(mainConf, 1, at - 1)
               q == Rest(mainConf, at)
               c == <<ln>>
               r == p \o c
    <2>1. at \in 1..(Len(mainConf) + 1)
      BY <1>4, SshAssumption DEF UserEdits
    <2>2. p \in Seq(UserLines) /\ q \in Seq(UserLines) /\ c \in Seq(UserLines)
      BY <2>1, PartsOf
    <2>3. mainConf' = r \o q
      BY <1>4 DEF UserEdits
    <2> HIDE DEF p, q, c
    <2>4. r \in Seq(UserLines)
      BY <2>2, ConcatProperties
    <2> HIDE DEF r
    <2>5. mainConf' \in Seq(UserLines)
      BY <2>2, <2>3, <2>4, ConcatProperties
    <2>6. ~command.on /\ command' = command /\ boxConf' = boxConf /\ wanted' = wanted /\ installs' = installs
      BY <1>4 DEF UserEdits
    <2>7. CommandOK' /\ ~command'.on
      BY <2>6 DEF CommandOK
    <2>8. (sshEdits \in 0..MaxUserEdits)'
      BY <1>4, SshAssumption DEF UserEdits
    <2>9. Own(mainConf)' = ownLines'
      BY <1>4 DEF UserEdits, Own
    <2>10. BoxTrue(boxConf, wanted)'
      BY <2>6 DEF BoxTrue
    <2> QED BY <2>5, <2>6, <2>7, <2>8, <2>9, <2>10
  <1>5. ASSUME UNCHANGED sshVars PROVE SshInv'
    <2>1. UNCHANGED <<mainConf, boxConf, ownLines, wanted, command, sshEdits, installs>>
      BY <1>5 DEF sshVars
    <2>2. BoxTrue(boxConf, wanted)' /\ Own(mainConf)' = ownLines' /\ CommandOK'
      BY <2>1 DEF BoxTrue, Own, CommandOK
    <2>3. IncludeInForce' <=> IncludeInForce
      BY <2>1 DEF IncludeInForce
    <2> QED BY <2>1, <2>2, <2>3
  <1> QED BY <1>1, <1>2, <1>3, <1>4, <1>5 DEF SshNext

\* SshInv gives the property: what ssh reads from the files.
LEMMA SshInvSound == ASSUME SshInv PROVE EditorConfigSound
  <1> USE DEF SshInv
  <1>1. boxConf \in Seq(BoxLines) /\ DOMAIN boxConf = 1..Len(boxConf) /\ Len(boxConf) \in Nat
    BY DEF BoxTrue
  <1>2. SshTypeOK
    <2>1. \A l \in BoxLines : l.kind \in {"host", "proxy", "blank"}
      BY LineFacts DEF BoxLines
    <2>2. \A i \in DOMAIN boxConf : boxConf[i].kind \in {"host", "proxy", "blank"}
      BY <1>1, <2>1
    <2>3. \A i \in DOMAIN mainConf : mainConf[i] \in UserLines
      OBVIOUS
    <2> QED BY <2>2, <2>3 DEF SshTypeOK, CommandOK
  <1>3. HostsReachable
    <2> SUFFICES ASSUME NEW b \in SshBoxes
                 PROVE  /\ ProxyOf(b) = wanted[b]
                        /\ \A i, j \in HostLineMatches(boxConf, b) : i = j
      BY DEF HostsReachable
    <2> DEFINE M == HostLineMatches(boxConf, b)
               a == FirstAt(boxConf, M)
    <2>1. M \in SUBSET Nat /\ \A i : i \in M <=> i \in DOMAIN boxConf /\ HostAt(boxConf, i, b)
      BY <1>1 DEF HostLineMatches, HostAt
    <2>2. ProxyOf(b) = IF a >= Len(boxConf) THEN "-" ELSE boxConf[a + 1].arg
      BY DEF ProxyOf
    <2> HIDE DEF M
    <2>3. /\ M = {} => a = Len(boxConf) + 1
          /\ M # {} => a \in M /\ \A j \in M : a <= j
      BY <2>1, FirstAtIs
    <2> HIDE DEF a
    <2>4. CASE M = {}
      <3>1. a >= Len(boxConf)
        BY <1>1, <2>3, <2>4
      <3>2. wanted[b] = "-"
        BY <2>1, <2>4 DEF BoxTrue
      <3> QED BY <2>2, <2>4, <3>1, <3>2 DEF M
    <2>5. CASE M # {}
      <3>1. a \in DOMAIN boxConf /\ HostAt(boxConf, a, b)
        BY <2>1, <2>3, <2>5
      <3>2. a + 1 \in DOMAIN boxConf /\ boxConf[a + 1] = ConfLine("proxy", wanted[b])
        BY <3>1 DEF BoxTrue
      <3>3. ~(a >= Len(boxConf)) /\ boxConf[a + 1].arg = wanted[b]
        BY <1>1, <3>1, <3>2, LineFacts
      <3>4. \A i, j \in M : i = j
        BY <2>1 DEF BoxTrue
      <3> QED BY <2>2, <3>3, <3>4 DEF M
    <2> QED BY <2>4, <2>5
  <1> QED BY <1>2, <1>3 DEF EditorConfigSound

\* For any sandboxes, gateways, commands, failed writes and edits of the user:
\* ssh reaches every sandbox through the gateway of its last command
\* (upsert_host_block), the Include is in force when a command goes on to the
\* managed file, and the user's own lines stay, in their order
\* (ensure_openshell_include).
THEOREM EditorReachesEverySandbox == SshSpec => []EditorConfigSound
  <1>1. SshInit => SshInv
    BY SshInitInv
  <1>2. SshInv /\ [SshNext]_sshVars => SshInv'
    BY SshNextInv
  <1>3. SshInv => EditorConfigSound
    BY SshInvSound
  <1> QED BY <1>1, <1>2, <1>3, PTL DEF SshSpec

-----------------------------------------------------------------------------
(* TuiApp: the modals, the requests and the shared ticker.  At most one of *)
(* the two create forms is open, a form is being created exactly while it  *)
(* has a request under way or an answer buffered, and the ticker runs for  *)
(* it and for nothing else.                                                *)

Navs == [screen : {"splash", "dashboard", "sandbox"},
         focus : {"gateways", "providers", "sandboxes", "policy", "draft", "logs"},
         command : BOOLEAN, settingsTab : BOOLEAN, sandboxTab : BOOLEAN,
         confirmProvider : BOOLEAN, confirmSandbox : BOOLEAN, approveAll : BOOLEAN,
         draftDetail : BOOLEAN]
ModalStates == {"none", "open", "form", "creating", "type", "method", "key"} \cup SettingKinds
CreateForms == {"create", "provider"}

\* The process, the gateways and their sandboxes.
WorldOK ==
    /\ running \in BOOLEAN /\ suspended \in {"no", "shell", "exec"}
    /\ gatewayName \in Gateways /\ exists \in [Gateways -> Seq(TuiSandboxes)]
\* What is on display.
DataOK ==
    /\ sel \in Nat /\ list \in Seq(TuiSandboxes)
    /\ drafts \in TuiSandboxes \cup {"none"}
ModalOK == modal \in [Modals -> ModalStates]
TaskOK == tasks \in [TaskKinds -> Nat] /\ busy \in Int /\ busy <= MaxTasks

\* A form that is being created has one answer, to come or buffered, and the ticker;
\* another has neither.
FormOK(f) ==
    /\ modal[f] = "creating" => /\ tasks[f] + (IF result[f] = "none" THEN 0 ELSE 1) = 1
                                /\ running => ticker = 1
    /\ modal[f] # "creating" => tasks[f] = 0 /\ result[f] = "none"

FormCore ==
    /\ result \in [CreateForms -> {"none", "ok", "err"}] /\ ticker \in Nat
    /\ \A f \in CreateForms : FormOK(f)
    /\ modal["create"] = "none" \/ modal["provider"] = "none"
    /\ (\A f \in CreateForms : modal[f] # "creating") => ticker = 0

\* The inductive invariant.
FormInv == WorldOK /\ nav \in Navs /\ DataOK /\ ModalOK /\ TaskOK /\ FormCore

\* The modals handle_key asks, one by one.
LEMMA ModalFacts ==
    /\ Modals = {"confirmSet", "confirmDelete", "sbConfirmSet", "sbConfirmDelete", "sbEdit",
                 "edit", "create", "provider", "detail", "update"}
    /\ DOMAIN ModalOrder = 1..10
    /\ \A i \in DOMAIN ModalOrder : ModalOrder[i] \in Modals /\ ModalOrder[i] # "none"
  <1>1. DOMAIN ModalOrder = 1..10
    BY DEF ModalOrder
  <1>2. /\ ModalOrder[1] = "confirmSet" /\ ModalOrder[2] = "confirmDelete" /\ ModalOrder[3] = "sbConfirmSet"
        /\ ModalOrder[4] = "sbConfirmDelete" /\ ModalOrder[5] = "sbEdit" /\ ModalOrder[6] = "edit"
        /\ ModalOrder[7] = "create" /\ ModalOrder[8] = "provider" /\ ModalOrder[9] = "detail"
        /\ ModalOrder[10] = "update"
    BY DEF ModalOrder
  <1>3. \A i \in 1..10 : i = 1 \/ i = 2 \/ i = 3 \/ i = 4 \/ i = 5 \/ i = 6 \/ i = 7 \/ i = 8 \/ i = 9 \/ i = 10
    OBVIOUS
  <1>4. 1 \in 1..10 /\ 2 \in 1..10 /\ 3 \in 1..10 /\ 4 \in 1..10 /\ 5 \in 1..10 /\ 6 \in 1..10
        /\ 7 \in 1..10 /\ 8 \in 1..10 /\ 9 \in 1..10 /\ 10 \in 1..10
    OBVIOUS
  <1>5. Modals = {"confirmSet", "confirmDelete", "sbConfirmSet", "sbConfirmDelete", "sbEdit",
                  "edit", "create", "provider", "detail", "update"}
    BY <1>1, <1>2, <1>3, <1>4 DEF Modals
  <1>6. \A i \in 1..10 : ModalOrder[i] # "none"
    BY <1>2, <1>3
  <1> QED BY <1>1, <1>5, <1>6 DEF Modals

\* A pane has the keys only when no modal is open.
LEMMA NoModal ==
    ASSUME TopModal = "none"
    PROVE  \A m \in Modals : modal[m] = "none"
  <1> DEFINE S == {i \in DOMAIN ModalOrder : modal[ModalOrder[i]] # "none"}
  <1>1. S \in SUBSET Nat /\ S \in SUBSET DOMAIN ModalOrder
    BY ModalFacts
  <1>2. TopModal = IF S = {} THEN "none" ELSE ModalOrder[FirstAt(ModalOrder, S)]
    BY DEF TopModal
  <1>3. \A m \in Modals : \E i \in DOMAIN ModalOrder : m = ModalOrder[i]
    BY DEF Modals
  <1>4. S = {} => \A m \in Modals : modal[m] = "none"
    BY <1>3
  <1> HIDE DEF S
  <1>5. S = {}
    BY <1>1, <1>2, FirstAtIs, ModalFacts
  <1> QED BY <1>4, <1>5

\* What the forms depend on.
LEMMA CoreKept ==
    ASSUME FormCore, modal'["create"] = modal["create"], modal'["provider"] = modal["provider"],
           result' = result, ticker' = ticker, running' = running,
           tasks'["create"] = tasks["create"], tasks'["provider"] = tasks["provider"]
    PROVE  FormCore'
  BY DEF FormCore, FormOK, CreateForms

\* A request more, and a request less, of one kind.
LEMMA SpawnedIs ==
    ASSUME TaskOK, NEW k \in TaskKinds, Spawn(k)
    PROVE  /\ TaskOK' /\ tasks'[k] = tasks[k] + 1
           /\ \A c \in TaskKinds \ {k} : tasks'[c] = tasks[c]
  BY TuiAssumption DEF TaskOK, Spawn

LEMMA FinishedIs ==
    ASSUME TaskOK, NEW k \in TaskKinds, tasks[k] > 0, Finish(k)
    PROVE  /\ TaskOK' /\ tasks'[k] = tasks[k] - 1
           /\ \A c \in TaskKinds \ {k} : tasks'[c] = tasks[c]
  <1>1. tasks' = [tasks EXCEPT ![k] = @ - 1] /\ busy' = busy - 1
    BY DEF Finish
  <1>2. tasks[k] - 1 \in Nat
    BY DEF TaskOK
  <1>3. busy' \in Int /\ busy' <= MaxTasks
    BY <1>1, TuiAssumption DEF TaskOK
  <1> QED BY <1>1, <1>2, <1>3 DEF TaskOK

\* Requests of other kinds and modals other than the forms do not reach the core.
LEMMA CoreBeside ==
    ASSUME FormCore, TaskOK, UNCHANGED <<result, ticker, running>>,
           modal'["create"] = modal["create"], modal'["provider"] = modal["provider"],
           NEW k \in TaskKinds \ CreateForms,
           Spawn(k) \/ (tasks[k] > 0 /\ Finish(k)) \/ UNCHANGED requests
    PROVE  FormCore' /\ TaskOK'
  <1>1. "create" \in TaskKinds \ {k} /\ "provider" \in TaskKinds \ {k}
    BY DEF CreateForms, TaskKinds
  <1>2. CASE Spawn(k)
    BY <1>1, <1>2, SpawnedIs, CoreKept
  <1>3. CASE tasks[k] > 0 /\ Finish(k)
    BY <1>1, <1>3, FinishedIs, CoreKept
  <1>4. CASE UNCHANGED requests
    <2>1. tasks' = tasks /\ busy' = busy
      BY <1>4 DEF requests
    <2> QED BY <2>1, CoreKept DEF TaskOK
  <1> QED BY <1>2, <1>3, <1>4

\* Closing modals, and opening one.
LEMMA ClosedIs ==
    ASSUME ModalOK, NEW ms, Close(ms)
    PROVE  ModalOK' /\ \A m \in Modals : modal'[m] = IF m \in ms THEN "none" ELSE modal[m]
  BY DEF ModalOK, Close, ModalStates

LEMMA OpenedIs ==
    ASSUME ModalOK, NEW m \in Modals, NEW v \in ModalStates, Open(m, v)
    PROVE  ModalOK' /\ modal'[m] = v /\ \A c \in Modals \ {m} : modal'[c] = modal[c]
  BY DEF ModalOK, Open

\* Refreshing keeps the types of what is shown.
LEMMA RefreshedOK ==
    ASSUME WorldOK, DataOK, RefreshSandboxes(gatewayName)
    PROVE  sel' \in Nat /\ list' \in Seq(TuiSandboxes)
  <1>1. exists[gatewayName] \in Seq(TuiSandboxes)
    BY DEF WorldOK
  <1>2. Clamped(sel, Len(exists[gatewayName])) \in Nat
    BY <1>1 DEF DataOK, Clamped
  <1> QED BY <1>1, <1>2 DEF RefreshSandboxes, DataOK

\* Refreshed chunks are of a sandbox.
LEMMA DraftsOK ==
    ASSUME DataOK, sel' \in Nat, list' \in Seq(TuiSandboxes), RefreshDrafts
    PROVE  DataOK'
  <1>1. sel' < Len(list') => list'[sel' + 1] \in TuiSandboxes
    <2> DEFINE q == list'
               n == sel'
    <2>1. q \in Seq(TuiSandboxes) /\ n \in Nat
      OBVIOUS
    <2> HIDE DEF q, n
    <2>2. n < Len(q) => q[n + 1] \in TuiSandboxes
      BY <2>1
    <2> QED BY <2>2 DEF q, n
  <1>2. drafts' \in TuiSandboxes \cup {"none"}
    BY <1>1 DEF RefreshDrafts, DataOK
  <1> QED BY <1>2 DEF DataOK

\* A list without a sandbox is a list.
LEMMA WithoutOK ==
    ASSUME NEW bs \in Seq(TuiSandboxes), NEW t
    PROVE  Without(bs, t) \in Seq(TuiSandboxes)
  <1> DEFINE S == {i \in DOMAIN bs : bs[i] # t}
  <1>1. S \in SUBSET DOMAIN bs
    OBVIOUS
  <1> HIDE DEF S
  <1>2. PickAt(bs, S) \in Seq(TuiSandboxes)
    BY <1>1, PickedIs
  <1> QED BY <1>2 DEF Without, S

\* A step that leaves the forms, the modals and the requests alone.
LEMMA QuietStep ==
    ASSUME FormInv, UNCHANGED <<running, modal, result, ticker, tasks, busy>>,
           suspended' \in {"no", "shell", "exec"}, gatewayName' \in Gateways,
           exists' \in [Gateways -> Seq(TuiSandboxes)], nav' \in Navs, DataOK'
    PROVE  FormInv'
  <1>1. FormCore'
    BY CoreKept DEF FormInv
  <1> QED BY <1>1 DEF FormInv, WorldOK, ModalOK, TaskOK

\* A step beside the forms: of another modal, with a request of another kind.
LEMMA BesideStep ==
    ASSUME FormInv, UNCHANGED <<running, suspended, gatewayName, exists, result, ticker>>,
           nav' \in Navs, DataOK', ModalOK',
           modal'["create"] = modal["create"], modal'["provider"] = modal["provider"],
           NEW k \in TaskKinds \ CreateForms,
           Spawn(k) \/ (tasks[k] > 0 /\ Finish(k)) \/ UNCHANGED requests
    PROVE  FormInv'
  <1>1. FormCore' /\ TaskOK'
    BY CoreBeside DEF FormInv
  <1> QED BY <1>1 DEF FormInv, WorldOK

\* Navigation does not reach the forms.
LEMMA NavigationKeeps ==
    ASSUME FormInv,
           Tick \/ DismissSplash \/ CommandLine \/ MoveFocus \/ MoveSelection \/ OpenSandbox \/ LeaveSandbox
    PROVE  FormInv'
  <1>0. /\ nav \in Navs /\ WorldOK /\ DataOK
        /\ suspended \in {"no", "shell", "exec"} /\ gatewayName \in Gateways
        /\ exists \in [Gateways -> Seq(TuiSandboxes)]
    BY DEF FormInv, WorldOK
  <1>1. CASE Tick
    <2>1. UNCHANGED <<running, modal, result, ticker, tasks, busy, suspended, gatewayName, exists>>
      BY <1>1 DEF Tick, world, forms, requests
    <2>2. nav' \in Navs
      BY <1>0, <1>1 DEF Tick, Navs
    <2>3. sel' \in Nat /\ list' \in Seq(TuiSandboxes)
      BY <1>0, <1>1, RefreshedOK DEF Tick
    <2>4. RefreshDrafts \/ drafts' = drafts
      BY <1>1 DEF Tick
    <2>5. DataOK'
      BY <1>0, <2>3, <2>4, DraftsOK DEF DataOK
    <2> QED BY <1>0, <2>1, <2>2, <2>5, QuietStep
  <1>2. CASE DismissSplash
    <2>1. UNCHANGED <<running, modal, result, ticker, tasks, busy, suspended, gatewayName, exists, list, sel, drafts>>
      BY <1>2 DEF DismissSplash, world, forms, requests, shownData
    <2>2. nav' \in Navs
      BY <1>0, <1>2 DEF DismissSplash, Navs
    <2>3. DataOK'
      BY <1>0, <2>1 DEF DataOK
    <2> QED BY <1>0, <2>1, <2>2, <2>3, QuietStep
  <1>3. CASE CommandLine
    <2>1. UNCHANGED <<running, modal, result, ticker, tasks, busy, suspended, gatewayName, exists, list, sel, drafts>>
      BY <1>3 DEF CommandLine, world, forms, requests, shownData
    <2>2. nav' \in Navs
      BY <1>0, <1>3 DEF CommandLine, Navs
    <2>3. DataOK'
      BY <1>0, <2>1 DEF DataOK
    <2> QED BY <1>0, <2>1, <2>2, <2>3, QuietStep
  <1>4. CASE MoveFocus
    <2>1. UNCHANGED <<running, modal, result, ticker, tasks, busy, suspended, gatewayName, exists, list, sel, drafts>>
      BY <1>4 DEF MoveFocus, world, forms, requests, shownData
    <2>2. nav' \in Navs
      BY <1>0, <1>4 DEF MoveFocus, Navs
    <2>3. DataOK'
      BY <1>0, <2>1 DEF DataOK
    <2> QED BY <1>0, <2>1, <2>2, <2>3, QuietStep
  <1>5. CASE MoveSelection
    <2>1. UNCHANGED <<running, modal, result, ticker, tasks, busy, suspended, gatewayName, exists, list, nav, drafts>>
      BY <1>5 DEF MoveSelection, world, forms, requests
    <2>2. sel' \in Nat
      <3>1. sel \in Nat /\ Len(list) \in Nat
        BY <1>0 DEF DataOK
      <3>2. Clamped(sel + 1, Len(list)) \in Nat /\ (IF sel = 0 THEN 0 ELSE sel - 1) \in Nat
        BY <3>1 DEF Clamped
      <3> QED BY <1>5, <3>1, <3>2 DEF MoveSelection
    <2>3. DataOK'
      BY <1>0, <2>1, <2>2 DEF DataOK
    <2> QED BY <1>0, <2>1, <2>3, QuietStep
  <1>6. CASE OpenSandbox
    <2>1. UNCHANGED <<running, modal, result, ticker, tasks, busy, suspended, gatewayName, exists, list, sel, drafts>>
      BY <1>6 DEF OpenSandbox, world, forms, requests
    <2>2. nav' \in Navs
      BY <1>0, <1>6 DEF OpenSandbox, Navs
    <2>3. DataOK'
      BY <1>0, <2>1 DEF DataOK
    <2> QED BY <1>0, <2>1, <2>2, <2>3, QuietStep
  <1>7. CASE LeaveSandbox
    <2>1. UNCHANGED <<running, modal, result, ticker, tasks, busy, suspended, gatewayName, exists, list, sel, drafts>>
      BY <1>7 DEF LeaveSandbox, world, forms, requests, shownData
    <2>2. nav' \in Navs
      BY <1>0, <1>7 DEF LeaveSandbox, Navs
    <2>3. DataOK'
      BY <1>0, <2>1 DEF DataOK
    <2> QED BY <1>0, <2>1, <2>2, <2>3, QuietStep
  <1> QED BY <1>1, <1>2, <1>3, <1>4, <1>5, <1>6, <1>7

\* No form is being submitted while a pane has the keys.
LEMMA NoForm ==
    ASSUME FormInv, TopModal = "none"
    PROVE  modal["create"] = "none" /\ modal["provider"] = "none" /\ ticker = 0
  <1>1. modal["create"] = "none" /\ modal["provider"] = "none"
    BY NoModal, ModalFacts
  <1> QED BY <1>1 DEF FormInv, FormCore, CreateForms

\* The end, another gateway, the shell, and what others do.
LEMMA WorldKeeps ==
    ASSUME FormInv, Quit \/ SwitchGateway \/ DeleteKey \/ ShellConnect \/ ChildExits \/ ServerChanges
    PROVE  FormInv'
  <1>0. /\ nav \in Navs /\ WorldOK /\ DataOK /\ ModalOK /\ TaskOK
        /\ suspended \in {"no", "shell", "exec"} /\ gatewayName \in Gateways
        /\ exists \in [Gateways -> Seq(TuiSandboxes)]
    BY DEF FormInv, WorldOK
  <1>1. CASE Quit
    <2>1. UNCHANGED <<modal, result, tasks, busy, nav, suspended, gatewayName, exists, list, sel, drafts>>
          /\ running' = FALSE /\ ticker' = 0
      BY <1>1 DEF Quit, shownData, requests
    <2>2. FormCore'
      BY <2>1 DEF FormInv, FormCore, FormOK
    <2> QED BY <1>0, <2>1, <2>2 DEF FormInv, WorldOK, DataOK, ModalOK, TaskOK
  <1>2. CASE SwitchGateway
    <2>1. TopModal = "none"
      BY <1>2 DEF SwitchGateway, PaneKey, KeyFor
    <2>2. ticker = 0
      BY <2>1, NoForm
    <2>3. UNCHANGED <<running, modal, result, tasks, busy, suspended, exists, drafts>>
      BY <1>2 DEF SwitchGateway, requests
    <2>4. ticker' = ticker
      BY <1>2, <2>2 DEF SwitchGateway
    <2>5. nav' \in Navs
      <3>1. \/ nav' = [nav EXCEPT !.focus = "providers", !.confirmSandbox = FALSE, !.confirmProvider = FALSE]
            \/ nav' = [nav EXCEPT !.focus = "providers"]
        BY <1>2 DEF SwitchGateway
      <3> QED BY <1>0, <3>1 DEF Navs
    <2>6. gatewayName' \in Gateways /\ sel' \in Nat /\ list' \in Seq(TuiSandboxes)
      <3>1. CASE \E g \in Gateways : gatewayName' = g /\ sel' = 0 /\ (list' = exists[g] \/ list' = <<>>)
        <4>1. PICK g \in Gateways : gatewayName' = g /\ sel' = 0 /\ (list' = exists[g] \/ list' = <<>>)
          BY <3>1
        <4>2. exists[g] \in Seq(TuiSandboxes) /\ <<>> \in Seq(TuiSandboxes) /\ 0 \in Nat
          BY <1>0
        <4> QED BY <4>1, <4>2
      <3>2. CASE UNCHANGED <<gatewayName, list, sel>>
        BY <1>0, <3>2 DEF DataOK
      <3> QED BY <1>2, <3>1, <3>2 DEF SwitchGateway
    <2>7. DataOK'
      BY <1>0, <2>3, <2>6 DEF DataOK
    <2> QED BY <1>0, <2>3, <2>4, <2>5, <2>6, <2>7, QuietStep
  <1>3. CASE DeleteKey
    <2>1. UNCHANGED <<running, modal, result, ticker, tasks, busy, suspended, gatewayName, drafts>>
      BY <1>3 DEF DeleteKey, forms, requests
    <2>2. nav' \in Navs
      <3>1. \/ nav' = [nav EXCEPT !.confirmSandbox = TRUE]
            \/ nav' = [nav EXCEPT !.confirmSandbox = FALSE]
            \/ nav' = [nav EXCEPT !.confirmSandbox = FALSE, !.screen = "dashboard", !.focus = "sandboxes"]
        BY <1>3 DEF DeleteKey
      <3> QED BY <1>0, <3>1 DEF Navs
    <2> DEFINE left == Without(exists[gatewayName], Selected)
    <2>3. left \in Seq(TuiSandboxes)
      BY <1>0, WithoutOK
    <2>4. /\ \/ exists' = [exists EXCEPT ![gatewayName] = left]
             \/ exists' = exists
          /\ \/ list' = left /\ sel' = Clamped(sel, Len(left))
             \/ UNCHANGED <<list, sel>>
      BY <1>3 DEF DeleteKey
    <2> HIDE DEF left
    <2>5. exists' \in [Gateways -> Seq(TuiSandboxes)]
      BY <1>0, <2>3, <2>4
    <2>6. Clamped(sel, Len(left)) \in Nat
      BY <1>0, <2>3 DEF Clamped, DataOK
    <2>7. DataOK'
      BY <1>0, <2>1, <2>3, <2>4, <2>6 DEF DataOK
    <2> QED BY <1>0, <2>1, <2>2, <2>5, <2>7, QuietStep
  <1>4. CASE ShellConnect
    <2>1. UNCHANGED <<running, modal, result, ticker, tasks, busy, gatewayName, exists, nav, drafts>>
      BY <1>4 DEF ShellConnect, forms, requests
    <2>2. suspended' \in {"no", "shell", "exec"} /\ (RefreshSandboxes(gatewayName) \/ UNCHANGED <<list, sel>>)
      BY <1>0, <1>4 DEF ShellConnect
    <2>3. sel' \in Nat /\ list' \in Seq(TuiSandboxes)
      BY <1>0, <2>2, RefreshedOK DEF DataOK
    <2>4. DataOK'
      BY <1>0, <2>1, <2>3 DEF DataOK
    <2> QED BY <1>0, <2>1, <2>2, <2>4, QuietStep
  <1>5. CASE ChildExits
    <2>1. UNCHANGED <<running, modal, result, ticker, tasks, busy, gatewayName, exists, nav, drafts>>
      BY <1>5 DEF ChildExits, forms, requests
    <2>2. suspended' \in {"no", "shell", "exec"} /\ (RefreshSandboxes(gatewayName) \/ UNCHANGED <<list, sel>>)
      BY <1>0, <1>5 DEF ChildExits
    <2>3. sel' \in Nat /\ list' \in Seq(TuiSandboxes)
      BY <1>0, <2>2, RefreshedOK DEF DataOK
    <2>4. DataOK'
      BY <1>0, <2>1, <2>3 DEF DataOK
    <2> QED BY <1>0, <2>1, <2>2, <2>4, QuietStep
  <1>6. CASE ServerChanges
    <2>1. UNCHANGED <<running, suspended, gatewayName, nav, modal, result, ticker, tasks, busy, list, sel, drafts>>
      BY <1>6 DEF ServerChanges, forms, requests, shownData
    <2>2. PICK g \in Gateways, t \in TuiSandboxes :
             exists' = [exists EXCEPT ![g] = IF \E i \in DOMAIN @ : @[i] = t THEN Without(@, t) ELSE Append(@, t)]
      BY <1>6 DEF ServerChanges
    <2>3. exists[g] \in Seq(TuiSandboxes)
      BY <1>0
    <2> DEFINE q == IF \E i \in DOMAIN exists[g] : exists[g][i] = t THEN Without(exists[g], t) ELSE Append(exists[g], t)
    <2>4. q \in Seq(TuiSandboxes)
      BY <2>3, WithoutOK, AppendProperties
    <2>5. exists' = [exists EXCEPT ![g] = q]
      BY <2>2
    <2> HIDE DEF q
    <2>6. exists' \in [Gateways -> Seq(TuiSandboxes)]
      BY <1>0, <2>4, <2>5
    <2>7. DataOK'
      BY <1>0, <2>1 DEF DataOK
    <2> QED BY <1>0, <2>1, <2>6, <2>7, QuietStep
  <1> QED BY <1>1, <1>2, <1>3, <1>4, <1>5, <1>6

\* The keys of the settings: two overlays with their confirmations.
LEMMA SettingsKeep ==
    ASSUME FormInv,
           GlobalSettingsKey \/ SandboxSettingsKey \/ SettingEditKey \/ SandboxSettingEditKey
             \/ SettingConfirmKey \/ SandboxSettingConfirmKey
    PROVE  FormInv'
  <1>0. nav \in Navs /\ DataOK /\ ModalOK /\ TaskOK
    BY DEF FormInv
  <1>1. \A k \in {"edit", "confirmSet", "confirmDelete", "sbEdit", "sbConfirmSet", "sbConfirmDelete"} :
            k \in Modals /\ k # "create" /\ k # "provider"
    BY ModalFacts
  <1>2. {"confirmSet", "confirmDelete", "sbConfirmSet", "sbConfirmDelete"} \in SUBSET (TaskKinds \ CreateForms)
    BY DEF TaskKinds, CreateForms
  <1>3. /\ \A sc \in {"global", "sandbox"} :
              /\ Scopes[sc].edit \in {"edit", "sbEdit"} /\ Scopes[sc].set \in {"confirmSet", "sbConfirmSet"}
              /\ Scopes[sc].del \in {"confirmDelete", "sbConfirmDelete"}
    BY DEF Scopes
  <1>4. "create" \in Modals /\ "provider" \in Modals
    BY ModalFacts
  \* What every such step leaves alone.
  <1>5. ASSUME UNCHANGED <<running, suspended, gatewayName, exists, result, ticker, nav, list, sel, drafts>>,
               ModalOK', modal'["create"] = modal["create"], modal'["provider"] = modal["provider"],
               NEW k \in {"confirmSet", "confirmDelete", "sbConfirmSet", "sbConfirmDelete"},
               Spawn(k) \/ UNCHANGED requests
        PROVE  FormInv'
    <2>1. DataOK'
      BY <1>0, <1>5 DEF DataOK
    <2>2. k \in TaskKinds \ CreateForms
      BY <1>2
    <2> QED BY <1>0, <1>5, <2>1, <2>2, BesideStep
  <1>6. ASSUME NEW sc \in {"global", "sandbox"}, EditSetting(sc) PROVE FormInv'
    <2>1. UNCHANGED <<running, suspended, gatewayName, exists, result, ticker, nav, list, sel, drafts>> /\ UNCHANGED requests
      BY <1>6 DEF EditSetting, world, forms, shownData
    <2>2. PICK k \in SettingKinds : modal' = [modal EXCEPT ![Scopes[sc].edit] = k,
                                                           ![Scopes[sc].set] = IF k = "bool" THEN k ELSE @]
      BY <1>6 DEF EditSetting
    <2> DEFINE a == Scopes[sc].edit
               b == Scopes[sc].set
    <2>3. a \in Modals /\ b \in Modals /\ a # b /\ a \notin CreateForms /\ b \notin CreateForms
      BY <1>1, <1>3 DEF CreateForms
    <2>4. modal' = [modal EXCEPT ![a] = k, ![b] = IF k = "bool" THEN k ELSE @]
      BY <2>2
    <2> HIDE DEF a, b
    <2>5. k \in ModalStates
      BY DEF ModalStates
    <2>6. ModalOK' /\ modal'["create"] = modal["create"] /\ modal'["provider"] = modal["provider"]
      BY <1>0, <1>4, <2>3, <2>4, <2>5 DEF ModalOK, CreateForms
    <2> QED BY <1>5, <2>1, <2>6
  <1>7. ASSUME NEW sc \in {"global", "sandbox"}, AskDelete(sc) PROVE FormInv'
    <2>1. UNCHANGED <<running, suspended, gatewayName, exists, result, ticker, nav, list, sel, drafts>> /\ UNCHANGED requests
      BY <1>7 DEF AskDelete, world, forms, shownData
    <2>2. PICK k \in SettingKinds : Open(Scopes[sc].del, k)
      BY <1>7 DEF AskDelete
    <2>3. k \in ModalStates /\ Scopes[sc].del \in Modals /\ "create" \in Modals \ {Scopes[sc].del}
          /\ "provider" \in Modals \ {Scopes[sc].del}
      BY <1>1, <1>3, <1>4 DEF ModalStates
    <2>4. ModalOK' /\ modal'["create"] = modal["create"] /\ modal'["provider"] = modal["provider"]
      BY <1>0, <2>2, <2>3, OpenedIs
    <2> QED BY <1>5, <2>1, <2>4
  <1>8. ASSUME NEW ms \in SUBSET {"edit", "confirmSet", "confirmDelete", "sbEdit", "sbConfirmSet", "sbConfirmDelete"}, Close(ms)
        PROVE  ModalOK' /\ modal'["create"] = modal["create"] /\ modal'["provider"] = modal["provider"]
    <2>1. "create" \notin ms /\ "provider" \notin ms
      BY <1>1
    <2> QED BY <1>0, <1>4, <1>8, <2>1, ClosedIs
  <1>9. ASSUME NEW sc \in {"global", "sandbox"}, EditKey(sc) PROVE FormInv'
    <2>1. UNCHANGED <<running, suspended, gatewayName, exists, result, ticker, nav, list, sel, drafts>> /\ UNCHANGED requests
      BY <1>9 DEF EditKey, world, forms, shownData
    <2>2. CASE Close({Scopes[sc].edit})
      <3>1. {Scopes[sc].edit} \in SUBSET {"edit", "confirmSet", "confirmDelete", "sbEdit", "sbConfirmSet", "sbConfirmDelete"}
        BY <1>3
      <3> QED BY <1>5, <1>8, <2>1, <2>2, <3>1
    <2>3. CASE Open(Scopes[sc].set, modal[Scopes[sc].edit])
      <3>1. modal[Scopes[sc].edit] \in ModalStates /\ Scopes[sc].set \in Modals
            /\ "create" \in Modals \ {Scopes[sc].set} /\ "provider" \in Modals \ {Scopes[sc].set}
        BY <1>0, <1>1, <1>3, <1>4 DEF ModalOK
      <3>2. ModalOK' /\ modal'["create"] = modal["create"] /\ modal'["provider"] = modal["provider"]
        BY <1>0, <2>3, <3>1, OpenedIs
      <3> QED BY <1>5, <2>1, <3>2
    <2> QED BY <1>9, <2>2, <2>3 DEF EditKey
  <1>10. ASSUME SettingConfirmKey PROVE FormInv'
    <2>1. UNCHANGED <<running, suspended, gatewayName, exists, result, ticker, nav, list, sel, drafts>>
      BY <1>10 DEF SettingConfirmKey, ConfirmSet, ConfirmDelete, world, forms, shownData
    <2>2. \E ms \in SUBSET {"edit", "confirmSet", "confirmDelete", "sbEdit", "sbConfirmSet", "sbConfirmDelete"} : Close(ms)
      BY <1>10 DEF SettingConfirmKey, ConfirmSet, ConfirmDelete, Scopes
    <2>3. Spawn("confirmSet") \/ Spawn("confirmDelete") \/ UNCHANGED requests
      BY <1>10 DEF SettingConfirmKey, ConfirmSet, ConfirmDelete, SendGlobalSetting, SendGlobalDelete
    <2> QED BY <1>5, <1>8, <2>1, <2>2, <2>3
  <1>11. ASSUME SandboxSettingConfirmKey PROVE FormInv'
    <2>1. UNCHANGED <<running, suspended, gatewayName, exists, result, ticker, nav, list, sel, drafts>>
      BY <1>11 DEF SandboxSettingConfirmKey, ConfirmSet, ConfirmDelete, world, forms, shownData
    <2>2. \E ms \in SUBSET {"edit", "confirmSet", "confirmDelete", "sbEdit", "sbConfirmSet", "sbConfirmDelete"} : Close(ms)
      BY <1>11 DEF SandboxSettingConfirmKey, ConfirmSet, ConfirmDelete, Scopes
    <2>3. Spawn("sbConfirmSet") \/ Spawn("sbConfirmDelete") \/ UNCHANGED requests
      BY <1>11 DEF SandboxSettingConfirmKey, ConfirmSet, ConfirmDelete, SendSandboxSetting, SendSandboxDelete
    <2> QED BY <1>5, <1>8, <2>1, <2>2, <2>3
  <1> QED BY <1>6, <1>7, <1>9, <1>10, <1>11
          DEF GlobalSettingsKey, SandboxSettingsKey, SettingEditKey, SandboxSettingEditKey

\* Opening a form, and the keys of a form until it is submitted.
LEMMA FormStep ==
    ASSUME FormInv, NEW f \in CreateForms, NEW o \in CreateForms \ {f}, NEW v \in ModalStates \ {"creating"},
           modal[o] = "none", modal[f] # "creating", Open(f, v),
           UNCHANGED <<running, suspended, gatewayName, exists, result, ticker, nav, list, sel, drafts, tasks, busy>>
    PROVE  FormInv'
  <1>1. f \in Modals /\ o \in Modals \ {f} /\ CreateForms = {f, o}
    BY ModalFacts DEF CreateForms
  <1>2. ModalOK' /\ modal'[f] = v /\ modal'[o] = "none"
    BY <1>1, OpenedIs DEF FormInv
  <1>3. ticker = 0 /\ tasks[f] = 0 /\ result[f] = "none" /\ tasks[o] = 0 /\ result[o] = "none"
    BY <1>1 DEF FormInv, FormCore, FormOK
  <1>4. FormOK(f)' /\ FormOK(o)'
    BY <1>2, <1>3 DEF FormOK
  <1>5. result' \in [CreateForms -> {"none", "ok", "err"}] /\ ticker' \in Nat
    BY DEF FormInv, FormCore
  <1>6. FormCore'
    <2>1. (modal["create"] = "none" \/ modal["provider"] = "none")'
      BY <1>1, <1>2 DEF CreateForms
    <2>2. \A x \in CreateForms : FormOK(x)'
      BY <1>1, <1>4
    <2> QED BY <1>3, <1>5, <2>1, <2>2 DEF FormCore
  <1> QED BY <1>2, <1>6 DEF FormInv, WorldOK, DataOK, TaskOK

\* Submitting a form: its request and its ticker start together.
LEMMA SubmitStep ==
    ASSUME FormInv, NEW f \in CreateForms, NEW o \in CreateForms \ {f},
           modal[o] = "none", modal[f] # "creating", Open(f, "creating"), Spawn(f), StartTicker,
           UNCHANGED <<running, suspended, gatewayName, exists, result, nav, list, sel, drafts>>
    PROVE  FormInv'
  <1>1. f \in Modals /\ o \in Modals \ {f} /\ CreateForms = {f, o} /\ f \in TaskKinds /\ o \in TaskKinds \ {f}
        /\ "creating" \in ModalStates
    BY ModalFacts DEF CreateForms, TaskKinds, ModalStates
  <1>2. ModalOK' /\ modal'[f] = "creating" /\ modal'[o] = "none"
    BY <1>1, OpenedIs DEF FormInv
  <1>3. ticker = 0 /\ tasks[f] = 0 /\ result[f] = "none" /\ tasks[o] = 0 /\ result[o] = "none"
    BY <1>1 DEF FormInv, FormCore, FormOK
  <1>4. TaskOK' /\ tasks'[f] = 1 /\ tasks'[o] = 0
    BY <1>1, <1>3, SpawnedIs DEF FormInv
  <1>5. ticker' = 1
    BY <1>3 DEF StartTicker
  <1>6. FormOK(f)' /\ FormOK(o)'
    BY <1>2, <1>3, <1>4, <1>5 DEF FormOK
  <1>7. FormCore'
    <2>1. (modal["create"] = "none" \/ modal["provider"] = "none")'
      BY <1>1, <1>2 DEF CreateForms
    <2>2. \A x \in CreateForms : FormOK(x)'
      BY <1>1, <1>6
    <2>3. result' \in [CreateForms -> {"none", "ok", "err"}]
      BY DEF FormInv, FormCore
    <2> QED BY <1>1, <1>2, <1>5, <2>1, <2>2, <2>3 DEF FormCore
  <1> QED BY <1>2, <1>4, <1>7 DEF FormInv, WorldOK, DataOK

\* Opening, filling and submitting the two forms.
LEMMA FormKeysKeep ==
    ASSUME FormInv, OpenCreate \/ CreateKey \/ OpenProviderForm \/ ProviderFormKey
    PROVE  FormInv'
  <1>0. /\ "create" \in CreateForms /\ "provider" \in CreateForms \ {"create"} /\ "provider" \in CreateForms
        /\ "create" \in CreateForms \ {"provider"}
        /\ {"form", "type", "method", "key", "none"} \in SUBSET (ModalStates \ {"creating"})
    BY DEF CreateForms, ModalStates
  <1>1. modal["create"] = "none" \/ modal["provider"] = "none"
    BY DEF FormInv, FormCore
  <1>2. CASE OpenCreate
    <2>1. UNCHANGED <<running, suspended, gatewayName, exists, result, ticker, nav, list, sel, drafts, tasks, busy>>
          /\ Open("create", "form") /\ TopModal = "none"
      BY <1>2 DEF OpenCreate, world, forms, shownData, requests, PaneKey, KeyFor
    <2>2. modal["create"] # "creating" /\ modal["provider"] = "none"
      BY <2>1, NoForm
    <2> QED BY <1>0, <2>1, <2>2, FormStep
  <1>3. CASE OpenProviderForm
    <2>1. UNCHANGED <<running, suspended, gatewayName, exists, result, ticker, nav, list, sel, drafts, tasks, busy>>
          /\ Open("provider", "type") /\ TopModal = "none"
      BY <1>3 DEF OpenProviderForm, world, forms, shownData, requests, PaneKey, KeyFor
    <2>2. modal["provider"] # "creating" /\ modal["create"] = "none"
      BY <2>1, NoForm
    <2> QED BY <1>0, <2>1, <2>2, FormStep
  <1>4. CASE CreateKey
    <2>1. UNCHANGED <<running, suspended, gatewayName, exists, result, nav, list, sel, drafts>>
          /\ modal["create"] = "form" /\ modal["create"] # "creating" /\ modal["provider"] = "none"
      BY <1>1, <1>4 DEF CreateKey, world, shownData
    <2>2. CASE Close({"create"}) /\ UNCHANGED <<ticker, requests>>
      <3>1. modal' = [modal EXCEPT !["create"] = "none"]
        <4>1. ModalOK
          BY DEF FormInv
        <4>2. \A m \in Modals : m \in {"create"} <=> m = "create"
          OBVIOUS
        <4> QED BY <2>2, <4>1, <4>2, ModalFacts DEF ModalOK, Close
      <3>2. Open("create", "none") /\ UNCHANGED <<ticker, tasks, busy>>
        BY <2>2, <3>1 DEF Open, requests
      <3> QED BY <1>0, <2>1, <3>2, FormStep
    <2>3. CASE Open("create", "creating") /\ Spawn("create") /\ StartTicker
      BY <1>0, <2>1, <2>3, SubmitStep
    <2> QED BY <1>4, <2>2, <2>3 DEF CreateKey
  <1>5. CASE ProviderFormKey
    <2>1. UNCHANGED <<running, suspended, gatewayName, exists, result, nav, list, sel, drafts>>
          /\ modal["provider"] \in {"type", "method", "key"} /\ modal["provider"] # "creating" /\ modal["create"] = "none"
      BY <1>1, <1>5 DEF ProviderFormKey, world, shownData
    <2>2. CASE \E v \in {"form", "type", "method", "key", "none"} : Open("provider", v) /\ UNCHANGED <<ticker, requests>>
      <3>1. UNCHANGED <<ticker, tasks, busy>>
        BY <2>2 DEF requests
      <3>2. PICK v \in {"form", "type", "method", "key", "none"} : Open("provider", v)
        BY <2>2
      <3>3. v \in ModalStates \ {"creating"}
        BY <1>0
      <3> QED BY <1>0, <2>1, <3>1, <3>2, <3>3, FormStep
    <2>3. CASE SubmitProvider
      BY <1>0, <2>1, <2>3, SubmitStep DEF SubmitProvider
    <2> QED BY <1>5, <2>2, <2>3 DEF ProviderFormKey
  <1> QED BY <1>2, <1>3, <1>4, <1>5

\* Providers, their popups and the network rules.
LEMMA PaneKeysKeep ==
    ASSUME FormInv, ProviderKey \/ DetailKey \/ UpdateKey \/ DraftKey
    PROVE  FormInv'
  <1>0. /\ nav \in Navs /\ DataOK /\ ModalOK
        /\ {"detail", "deleteProvider", "update", "approve", "reject", "approveAll"} \in SUBSET (TaskKinds \ CreateForms)
        /\ "create" \in Modals /\ "provider" \in Modals /\ "detail" \in Modals /\ "update" \in Modals
        /\ "open" \in ModalStates
    BY ModalFacts DEF FormInv, TaskKinds, CreateForms, ModalStates
  \* What every such step leaves alone.
  <1>1. ASSUME UNCHANGED <<running, suspended, gatewayName, exists, result, ticker, list, sel, drafts>>, nav' \in Navs,
               ModalOK', modal'["create"] = modal["create"], modal'["provider"] = modal["provider"],
               NEW k \in {"detail", "deleteProvider", "update", "approve", "reject", "approveAll"},
               Spawn(k) \/ UNCHANGED requests
        PROVE  FormInv'
    <2>1. DataOK'
      BY <1>0, <1>1 DEF DataOK
    <2>2. k \in TaskKinds \ CreateForms
      BY <1>0
    <2> QED BY <1>0, <1>1, <2>1, <2>2, BesideStep
  <1>2. ASSUME UNCHANGED modal PROVE ModalOK' /\ modal'["create"] = modal["create"] /\ modal'["provider"] = modal["provider"]
    BY <1>0, <1>2 DEF ModalOK
  <1>3. CASE ProviderKey
    <2>1. UNCHANGED <<running, suspended, gatewayName, exists, result, ticker, list, sel, drafts>>
      BY <1>3 DEF ProviderKey, world, forms, shownData
    <2>2. nav' \in Navs
      <3>1. nav' = nav \/ nav' = [nav EXCEPT !.confirmProvider = TRUE] \/ nav' = [nav EXCEPT !.confirmProvider = FALSE]
        BY <1>3 DEF ProviderKey
      <3> QED BY <1>0, <3>1 DEF Navs
    <2>3. ModalOK' /\ modal'["create"] = modal["create"] /\ modal'["provider"] = modal["provider"]
      <3>1. UNCHANGED modal \/ Open("update", "open")
        BY <1>3 DEF ProviderKey
      <3>2. "create" \in Modals \ {"update"} /\ "provider" \in Modals \ {"update"}
        BY <1>0
      <3> QED BY <1>0, <1>2, <3>1, <3>2, OpenedIs
    <2>4. Spawn("detail") \/ Spawn("deleteProvider") \/ UNCHANGED requests
      BY <1>3 DEF ProviderKey
    <2> QED BY <1>1, <2>1, <2>2, <2>3, <2>4
  <1>4. CASE DetailKey
    <2>1. UNCHANGED <<running, suspended, gatewayName, exists, result, ticker, list, sel, drafts, nav>>
          /\ Close({"detail"}) /\ UNCHANGED requests
      BY <1>4 DEF DetailKey, world, forms, shownData
    <2>2. ModalOK' /\ modal'["create"] = modal["create"] /\ modal'["provider"] = modal["provider"]
      <3>1. "create" \notin {"detail"} /\ "provider" \notin {"detail"}
        OBVIOUS
      <3> QED BY <1>0, <2>1, <3>1, ClosedIs
    <2> QED BY <1>0, <1>1, <2>1, <2>2
  <1>5. CASE UpdateKey
    <2>1. UNCHANGED <<running, suspended, gatewayName, exists, result, ticker, list, sel, drafts, nav>>
          /\ (Close({"update"}) \/ UNCHANGED modal) /\ (Spawn("update") \/ UNCHANGED requests)
      BY <1>5 DEF UpdateKey, world, forms, shownData
    <2>2. ModalOK' /\ modal'["create"] = modal["create"] /\ modal'["provider"] = modal["provider"]
      <3>1. "create" \notin {"update"} /\ "provider" \notin {"update"}
        OBVIOUS
      <3> QED BY <1>0, <1>2, <2>1, <3>1, ClosedIs
    <2> QED BY <1>0, <1>1, <2>1, <2>2
  <1>6. CASE DraftKey
    <2>1. UNCHANGED <<running, suspended, gatewayName, exists, result, ticker, list, sel, drafts, modal>>
      BY <1>6 DEF DraftKey, world, forms, shownData
    <2>2. nav' \in Navs
      <3>1. \/ nav' = [nav EXCEPT !.approveAll = FALSE] \/ nav' = [nav EXCEPT !.draftDetail = ~@]
            \/ nav' = [nav EXCEPT !.draftDetail = FALSE] \/ nav' = [nav EXCEPT !.approveAll = TRUE]
        BY <1>6 DEF DraftKey
      <3> QED BY <1>0, <3>1 DEF Navs
    <2>3. Spawn("approve") \/ Spawn("reject") \/ Spawn("approveAll") \/ UNCHANGED requests
      BY <1>6 DEF DraftKey, ApproveAll, ApproveChunk, RejectChunk
    <2> QED BY <1>1, <1>2, <2>1, <2>2, <2>3
  <1> QED BY <1>3, <1>4, <1>5, <1>6

\* The answer to a create form is buffered: one request less, one result more.
LEMMA BufferKeeps ==
    ASSUME FormInv, NEW f \in CreateForms, tasks[f] > 0, NEW r \in {"ok", "err"}, Buffer(f, r)
    PROVE  FormInv'
  <1>1. PICK o \in CreateForms : o # f /\ CreateForms = {f, o}
    BY DEF CreateForms
  <1>2. f \in Modals /\ o \in Modals /\ f \in TaskKinds /\ o \in TaskKinds \ {f}
    BY <1>1, ModalFacts DEF CreateForms, TaskKinds
  <1>3. /\ UNCHANGED <<running, suspended, gatewayName, exists, nav, modal, ticker, list, sel, drafts>>
        /\ result' = [result EXCEPT ![f] = IF modal[f] # "none" THEN r ELSE @] /\ Finish(f)
    BY DEF Buffer, world, shownData
  <1>4. FormCore /\ TaskOK /\ FormOK(f) /\ FormOK(o)
    BY <1>1 DEF FormInv, FormCore
  <1>5. TaskOK' /\ tasks'[f] = tasks[f] - 1 /\ tasks'[o] = tasks[o]
    BY <1>2, <1>3, <1>4, FinishedIs
  <1>6. tasks[f] \in Nat /\ result \in [CreateForms -> {"none", "ok", "err"}]
    BY <1>2, <1>4 DEF TaskOK, FormCore
  <1>7. modal[f] = "creating" /\ modal[f] # "none" /\ result[f] = "none" /\ tasks[f] = 1 /\ (running => ticker = 1)
    <2>1. modal[f] = "creating"
      BY <1>4, <1>6 DEF FormOK
    <2>2. tasks[f] + (IF result[f] = "none" THEN 0 ELSE 1) = 1 /\ (running => ticker = 1)
      BY <1>4, <2>1 DEF FormOK
    <2>3. CASE result[f] = "none"
      BY <1>6, <2>1, <2>2, <2>3
    <2>4. CASE result[f] # "none"
      BY <1>6, <2>2, <2>4
    <2> QED BY <2>3, <2>4
  <1>8. result'[f] = r /\ result'[o] = result[o] /\ result' \in [CreateForms -> {"none", "ok", "err"}] /\ r # "none"
    BY <1>1, <1>3, <1>6, <1>7
  <1>9. tasks'[f] = 0
    BY <1>5, <1>7
  <1>10. FormOK(f)'
    BY <1>3, <1>7, <1>8, <1>9 DEF FormOK
  <1>11. FormOK(o)'
    BY <1>3, <1>4, <1>5, <1>8 DEF FormOK
  <1>12. FormCore'
    <2>1. \A x \in CreateForms : FormOK(x)'
      BY <1>1, <1>10, <1>11
    <2>2. modal' = modal /\ ticker' = ticker
      BY <1>3
    <2>3. (modal["create"] = "none" \/ modal["provider"] = "none") /\ ticker \in Nat
      BY <1>4 DEF FormCore
    <2>4. ~(\A x \in CreateForms : modal[x] # "creating")
      BY <1>7
    <2> QED BY <1>8, <2>1, <2>2, <2>3, <2>4 DEF FormCore
  <1> QED BY <1>3, <1>5, <1>12 DEF FormInv, WorldOK, DataOK, ModalOK

\* The Redraw that shows the answer closes the form or brings it back, and ends the ticker.
LEMMA RedrawKeeps ==
    ASSUME FormInv, NEW f \in CreateForms, Redraw(f)
    PROVE  FormInv'
  <1>1. PICK o \in CreateForms : o # f /\ CreateForms = {f, o}
    BY DEF CreateForms
  <1>2. f \in Modals /\ o \in Modals \ {f} /\ f \in {"create", "provider"}
    BY <1>1, ModalFacts DEF CreateForms
  <1> DEFINE v == IF result[f] = "ok" THEN "none" ELSE IF f = "create" THEN "form" ELSE "key"
  <1>3. /\ UNCHANGED <<running, gatewayName, exists, nav, drafts, tasks, busy>>
        /\ Looping /\ ticker > 0 /\ modal[f] # "none" /\ result[f] # "none" /\ Open(f, v)
        /\ result' = [result EXCEPT ![f] = "none"] /\ ticker' = ticker - 1
        /\ suspended' \in {"no", "exec"}
    BY DEF Redraw, requests
  <1>4. v \in ModalStates /\ v # "creating"
    BY DEF ModalStates
  <1> HIDE DEF v
  <1>5. WorldOK /\ DataOK /\ ModalOK /\ TaskOK /\ FormCore /\ FormOK(f) /\ FormOK(o)
    BY <1>1 DEF FormInv, FormCore
  <1>6. ModalOK' /\ modal'[f] = v /\ modal'[o] = modal[o]
    BY <1>2, <1>3, <1>4, <1>5, OpenedIs
  <1>7. modal[o] = "none" /\ modal[f] = "creating" /\ tasks[f] = 0 /\ ticker = 1
    <2>1. modal[f] = "creating"
      BY <1>3, <1>5 DEF FormOK
    <2>2. modal[o] = "none"
      BY <1>1, <1>2, <1>3, <1>5 DEF FormCore, CreateForms
    <2>3. tasks[f] + 1 = 1 /\ ticker = 1
      BY <1>3, <1>5, <2>1 DEF FormOK, Looping
    <2>4. tasks[f] \in Nat
      BY <1>2, <1>5 DEF TaskOK, TaskKinds
    <2> QED BY <2>1, <2>2, <2>3, <2>4
  <1>8. tasks[o] = 0 /\ result[o] = "none"
    BY <1>5, <1>7 DEF FormOK
  <1>9. result' \in [CreateForms -> {"none", "ok", "err"}] /\ result'[f] = "none" /\ result'[o] = "none" /\ ticker' = 0
    BY <1>1, <1>3, <1>5, <1>7, <1>8 DEF FormCore
  <1>10. FormOK(f)' /\ FormOK(o)'
    BY <1>3, <1>4, <1>6, <1>7, <1>8, <1>9 DEF FormOK
  <1>11. FormCore'
    <2>1. \A x \in CreateForms : FormOK(x)'
      BY <1>1, <1>10
    <2>2. (modal["create"] = "none" \/ modal["provider"] = "none")'
      BY <1>1, <1>2, <1>6, <1>7 DEF CreateForms
    <2> QED BY <1>9, <2>1, <2>2 DEF FormCore
  <1>12. sel' \in Nat /\ list' \in Seq(TuiSandboxes)
    <2>1. RefreshSandboxes(gatewayName) \/ UNCHANGED <<list, sel>>
      BY DEF Redraw
    <2> QED BY <1>5, <2>1, RefreshedOK DEF DataOK
  <1>13. DataOK'
    BY <1>3, <1>5, <1>12 DEF DataOK
  <1> QED BY <1>3, <1>5, <1>6, <1>11, <1>13 DEF FormInv, WorldOK, TaskOK

\* An answer of any request.
LEMMA AnswersKeep ==
    ASSUME FormInv, NEW kind \in TaskKinds, tasks[kind] > 0, TuiAnswer(kind)
    PROVE  FormInv'
  <1>0. nav \in Navs /\ DataOK /\ ModalOK /\ "create" \in Modals /\ "provider" \in Modals
        /\ "detail" \in Modals /\ "open" \in ModalStates
    BY ModalFacts DEF FormInv, ModalStates
  <1>1. CASE SandboxCreated(kind) \/ ProviderCreated(kind)
    <2>1. kind \in CreateForms
      BY <1>1 DEF SandboxCreated, ProviderCreated, Answers, CreateForms
    <2>2. PICK r \in {"ok", "err"} : Buffer(kind, r)
      BY <1>1 DEF SandboxCreated, ProviderCreated
    <2> QED BY <2>1, <2>2, BufferKeeps
  \* What the other answers leave alone.
  <1>2. ASSUME UNCHANGED <<running, suspended, gatewayName, exists, result, ticker, nav>>, DataOK',
               ModalOK', modal'["create"] = modal["create"], modal'["provider"] = modal["provider"],
               kind \notin CreateForms, Finish(kind)
        PROVE  FormInv'
    <2>1. kind \in TaskKinds \ CreateForms /\ nav' \in Navs
      BY <1>0, <1>2
    <2> QED BY <1>2, <2>1, BesideStep
  <1>3. ASSUME UNCHANGED modal PROVE ModalOK' /\ modal'["create"] = modal["create"] /\ modal'["provider"] = modal["provider"]
    BY <1>0, <1>3 DEF ModalOK
  <1>4. ASSUME UNCHANGED <<list, sel, drafts>> PROVE DataOK'
    BY <1>0, <1>4 DEF DataOK
  <1>5. CASE DetailFetched(kind)
    <2>1. UNCHANGED <<running, suspended, gatewayName, exists, result, ticker, nav, list, sel, drafts>> /\ Finish(kind)
      BY <1>5 DEF DetailFetched, world, forms, shownData
    <2>2. kind \notin CreateForms
      BY <1>5 DEF DetailFetched, Answers, CreateForms
    <2>3. ModalOK' /\ modal'["create"] = modal["create"] /\ modal'["provider"] = modal["provider"]
      <3>1. UNCHANGED modal \/ Open("detail", "open")
        BY <1>5 DEF DetailFetched
      <3>2. "create" \in Modals \ {"detail"} /\ "provider" \in Modals \ {"detail"}
        BY <1>0
      <3> QED BY <1>0, <1>3, <3>1, <3>2, OpenedIs
    <2> QED BY <1>2, <1>4, <2>1, <2>2, <2>3
  <1>6. CASE ProviderUpdated(kind)
    <2>1. UNCHANGED <<running, suspended, gatewayName, exists, result, ticker, nav, list, sel, drafts>> /\ Finish(kind)
      BY <1>6 DEF ProviderUpdated, world, forms
    <2>2. kind \notin CreateForms
      BY <1>6 DEF ProviderUpdated, Answers, CreateForms
    <2>3. ModalOK' /\ modal'["create"] = modal["create"] /\ modal'["provider"] = modal["provider"]
      <3>1. UNCHANGED modal \/ Close({"update"})
        BY <1>6 DEF ProviderUpdated
      <3>2. "create" \notin {"update"} /\ "provider" \notin {"update"}
        OBVIOUS
      <3> QED BY <1>0, <1>3, <3>1, <3>2, ClosedIs
    <2> QED BY <1>2, <1>4, <2>1, <2>2, <2>3
  <1>7. CASE ProviderDeleted(kind)
    <2>1. UNCHANGED <<running, suspended, gatewayName, exists, result, ticker, nav, list, sel, drafts, modal>> /\ Finish(kind)
      BY <1>7 DEF ProviderDeleted, world, forms
    <2>2. kind \notin CreateForms
      BY <1>7 DEF ProviderDeleted, Answers, CreateForms
    <2> QED BY <1>2, <1>3, <1>4, <2>1, <2>2
  <1>8. CASE SettingAnswered(kind)
    <2>1. UNCHANGED <<running, suspended, gatewayName, exists, result, ticker, nav, list, sel, drafts>> /\ Finish(kind)
      BY <1>8 DEF SettingAnswered, world, forms
    <2>2. PICK sc \in DOMAIN Scopes : kind \in {Scopes[sc].set, Scopes[sc].del}
                                      /\ (IF kind = Scopes[sc].set THEN Close({Scopes[sc].edit}) ELSE UNCHANGED modal)
      BY <1>8 DEF SettingAnswered, Answers
    <2>3. /\ Scopes[sc].edit \in {"edit", "sbEdit"} /\ Scopes[sc].set \in {"confirmSet", "sbConfirmSet"}
          /\ Scopes[sc].del \in {"confirmDelete", "sbConfirmDelete"}
      BY DEF Scopes
    <2>4. kind \notin CreateForms
      BY <2>2, <2>3 DEF CreateForms
    <2>5. ModalOK' /\ modal'["create"] = modal["create"] /\ modal'["provider"] = modal["provider"]
      <3>1. UNCHANGED modal \/ Close({Scopes[sc].edit})
        BY <2>2
      <3>2. "create" \notin {Scopes[sc].edit} /\ "provider" \notin {Scopes[sc].edit}
        BY <2>3
      <3> QED BY <1>0, <1>3, <3>1, <3>2, ClosedIs
    <2> QED BY <1>2, <1>4, <2>1, <2>4, <2>5
  <1>9. CASE DraftAnswered(kind)
    <2>1. UNCHANGED <<running, suspended, gatewayName, exists, result, ticker, nav, list, sel, modal>> /\ Finish(kind) /\ RefreshDrafts
      BY <1>9 DEF DraftAnswered, world, forms
    <2>2. kind \notin CreateForms
      BY <1>9 DEF DraftAnswered, Answers, CreateForms
    <2>3. sel' \in Nat /\ list' \in Seq(TuiSandboxes)
      BY <1>0, <2>1 DEF DataOK
    <2>4. DataOK'
      BY <1>0, <2>1, <2>3, DraftsOK
    <2> QED BY <1>2, <1>3, <2>1, <2>2, <2>4
  <1> QED BY <1>1, <1>5, <1>6, <1>7, <1>8, <1>9 DEF TuiAnswer

\* FormInv holds at the start.
LEMMA TuiInitInv == ASSUME TuiInit PROVE FormInv
  <1>1. WorldOK /\ DataOK
    BY DEF TuiInit, WorldOK, DataOK
  <1>2. nav \in Navs
    BY DEF TuiInit, Navs
  <1>3. ModalOK /\ \A f \in CreateForms : f \in Modals /\ f \in TaskKinds
    BY ModalFacts DEF TuiInit, ModalOK, ModalStates, CreateForms, TaskKinds
  <1>4. TaskOK
    BY TuiAssumption DEF TuiInit, TaskOK
  <1>5. ticker = 0 /\ result = [f \in CreateForms |-> "none"]
    BY DEF TuiInit, CreateForms
  <1>6. \A f \in CreateForms : modal[f] = "none" /\ tasks[f] = 0 /\ result[f] = "none"
    BY <1>3, <1>5 DEF TuiInit
  <1>7. FormCore
    BY <1>5, <1>6 DEF FormCore, FormOK, CreateForms
  <1> QED BY <1>1, <1>2, <1>3, <1>4, <1>7 DEF FormInv

\* Every step keeps FormInv.
LEMMA TuiNextInv == ASSUME FormInv, [TuiNext]_tuiVars PROVE FormInv'
  <1>1. CASE UNCHANGED tuiVars
    <2>1. /\ UNCHANGED <<running, modal, result, ticker, tasks, busy>>
          /\ UNCHANGED <<suspended, gatewayName, exists, nav, list, sel, drafts>>
      BY <1>1 DEF tuiVars
    <2>2. DataOK'
      BY <2>1 DEF FormInv, DataOK
    <2> QED BY <2>1, <2>2, QuietStep DEF FormInv, WorldOK
  <1>2. CASE Tick \/ DismissSplash \/ CommandLine \/ MoveFocus \/ MoveSelection \/ OpenSandbox \/ LeaveSandbox
    BY <1>2, NavigationKeeps
  <1>3. CASE Quit \/ SwitchGateway \/ DeleteKey \/ ShellConnect \/ ChildExits \/ ServerChanges
    BY <1>3, WorldKeeps
  <1>4. CASE GlobalSettingsKey \/ SandboxSettingsKey \/ SettingEditKey \/ SandboxSettingEditKey
               \/ SettingConfirmKey \/ SandboxSettingConfirmKey
    BY <1>4, SettingsKeep
  <1>5. CASE OpenCreate \/ CreateKey \/ OpenProviderForm \/ ProviderFormKey
    BY <1>5, FormKeysKeep
  <1>6. CASE ProviderKey \/ DetailKey \/ UpdateKey \/ DraftKey
    BY <1>6, PaneKeysKeep
  <1>7. CASE \E kind \in TaskKinds : tasks[kind] > 0 /\ TuiAnswer(kind)
    BY <1>7, AnswersKeep
  <1>8. CASE \E f \in {"create", "provider"} : Redraw(f)
    BY <1>8, RedrawKeeps DEF CreateForms
  <1> QED BY <1>1, <1>2, <1>3, <1>4, <1>5, <1>6, <1>7, <1>8 DEF TuiNext

\* FormInv gives the property.
LEMMA FormInvSound == ASSUME FormInv PROVE FormsSound
  <1>1. TuiTypeOK
    BY DEF FormInv, WorldOK, DataOK, ModalOK, TaskOK, FormCore, TuiTypeOK, Navs, ModalStates, CreateForms
  <1>2. CreatingWillEnd
    BY DEF FormInv, FormCore, FormOK, CreatingWillEnd, CreateForms
  <1> QED BY <1>1, <1>2 DEF FormsSound

\* For any gateways, sandboxes and requests: while a create form shows Creating
\* it has one answer, to come or buffered, and the ticker whose Redraw shows it
\* (start_anim_ticker, CreateResult, Redraw), and the state of the screen is
\* well formed, after any keys, answers, refreshes and gateway switches.
THEOREM CreatingFormsEnd == TuiSpec => []FormsSound
  <1>1. TuiInit => FormInv
    BY TuiInitInv
  <1>2. FormInv /\ [TuiNext]_tuiVars => FormInv'
    BY TuiNextInv
  <1>3. FormInv => FormsSound
    BY FormInvSound
  <1> QED BY <1>1, <1>2, <1>3, PTL DEF TuiSpec

-----------------------------------------------------------------------------
(* PolicyConfig: the ways of a policy document.  A document is a record    *)
(* whose texts come from the sets below; the conversions are described by  *)
(* what they keep, and two endpoints are Alike when no request of an       *)
(* engine tells them apart.                                                *)

\* The texts and records of a policy document.
Globs == {""} \cup {q.glob : q \in FileQueries}
GlobLists == {<<>>} \cup {q.any : q \in FileQueries}
AllMatchers == [form : {"none", "string", "any", "object", "proto", "empty"}, glob : Globs, any : GlobLists]
RuleRecs == [method : {"GET"}, path : {"", "**"}, query : AllMatchers]
RulesRecs == [given : BOOLEAN, list : Seq(RuleRecs)]
EpRecs ==
    [host : FileHosts \cup {"h"}, port : Nat, ports : Seq(Nat), protocol : FileProtocols \cup {""},
     tls : {"", "skip"}, enforcement : {"", "enforce"}, access : FileAccess \cup {""},
     rules : RulesRecs, allowed_ips : {<<>>, <<"10.0.0.1">>}]
UserNames == {"", "sandbox", "root"}
ProcessRecs == [given : BOOLEAN, user : UserNames, group : UserNames]
PolicyRecs ==
    [kind : {"policy"}, process : ProcessRecs, read_only : Seq(Paths), read_write : Seq(Paths), endpoint : EpRecs]

Values == {"none", "v", "w"}

\* Two lists of rules ask the same.
RulesAlike(l, k) ==
    /\ DOMAIN l = DOMAIN k
    /\ \A i \in DOMAIN l : /\ l[i].method = k[i].method /\ l[i].path = k[i].path
                           /\ \A v \in Values : QueryMatches(l[i].query, v) <=> QueryMatches(k[i].query, v)

\* Two endpoints an engine cannot tell apart.
Alike(d, e) ==
    /\ d.host = e.host /\ d.protocol = e.protocol /\ d.tls = e.tls
    /\ d.enforcement = e.enforcement /\ d.allowed_ips = e.allowed_ips
    /\ \A x \in {80, 443} : Has(d.ports, x) <=> Has(e.ports, x)
    /\ RulesAlike(d.rules.list, e.rules.list)

\* Engines with alike endpoints answer every request alike.
LEMMA AlikeAnswers ==
    ASSUME NEW a, NEW b, Alike(a.endpoint, b.endpoint), NEW r \in Requests
    PROVE  Answer(a, r) = Answer(b, r)
  <1> DEFINE d == a.endpoint
             e == b.endpoint
             cd == QueryEndpointConfig(d, r)
             ce == QueryEndpointConfig(e, r)
  <1>0. Alike(d, e)
    OBVIOUS
  <1>1. r.port \in {80, 443} /\ r.value \in Values
    BY DEF Requests, Values
  <1> HIDE DEF d, e
  <1>2. EndpointMatches(d, r) <=> EndpointMatches(e, r)
    <2>1. Has(d.ports, r.port) <=> Has(e.ports, r.port)
      BY <1>0, <1>1 DEF Alike
    <2>2. d.host = e.host /\ d.allowed_ips = e.allowed_ips
      BY <1>0 DEF Alike
    <2> QED BY <2>1, <2>2 DEF EndpointMatches
  <1>3. HasExtendedConfig(d) <=> HasExtendedConfig(e)
    BY <1>0 DEF Alike, HasExtendedConfig
  <1>4. AllowRequest(d, r) <=> AllowRequest(e, r)
    <2> DEFINE l == d.rules.list
               k == e.rules.list
    <2>1. RulesAlike(l, k)
      BY <1>0 DEF Alike
    <2>2. (AllowRequest(d, r) <=> \E i \in DOMAIN l : RuleMatches(l[i], r))
          /\ (AllowRequest(e, r) <=> \E i \in DOMAIN k : RuleMatches(k[i], r))
      BY DEF AllowRequest
    <2> HIDE DEF l, k
    <2>3. DOMAIN l = DOMAIN k /\ \A i \in DOMAIN l : RuleMatches(l[i], r) <=> RuleMatches(k[i], r)
      BY <1>1, <2>1 DEF RulesAlike, RuleMatches
    <2> QED BY <2>2, <2>3
  <1>5. cd.protocol = ce.protocol /\ cd.enforcement = ce.enforcement /\ cd.tls = ce.tls /\ cd.allowed_ips = ce.allowed_ips
    <2>1. CASE EndpointMatches(d, r) /\ HasExtendedConfig(d)
      BY <1>0, <1>2, <1>3, <2>1 DEF QueryEndpointConfig, Alike
    <2>2. CASE ~(EndpointMatches(d, r) /\ HasExtendedConfig(d))
      BY <1>2, <1>3, <2>2 DEF QueryEndpointConfig
    <2> QED BY <2>1, <2>2
  <1>6. EvaluateNetworkAction(d, r) = EvaluateNetworkAction(e, r)
    BY <1>2 DEF EvaluateNetworkAction
  <1>7. QueryAllowedIps(d, r) = QueryAllowedIps(e, r)
    BY <1>5 DEF QueryAllowedIps
  <1> DEFINE u == ParseL7Config(cd)
             w == ParseTlsMode(cd)
             z == L7Protocol(cd.protocol) = "none" \/ AllowRequest(d, r)
  <1>8. u = ParseL7Config(ce) /\ w = ParseTlsMode(ce)
    <2> HIDE DEF cd, ce
    <2> QED BY <1>5 DEF ParseL7Config, ParseTlsMode
  <1>9. z = (L7Protocol(ce.protocol) = "none" \/ AllowRequest(e, r))
    <2> HIDE DEF cd, ce
    <2> QED BY <1>4, <1>5
  <1>10. Answer(a, r) = [action |-> EvaluateNetworkAction(d, r), l7 |-> u, tls |-> w, ips |-> QueryAllowedIps(d, r), request |-> z]
    BY DEF Answer, d
  <1>11. Answer(b, r) = [action |-> EvaluateNetworkAction(e, r), l7 |-> ParseL7Config(ce), tls |-> ParseTlsMode(ce),
                         ips |-> QueryAllowedIps(e, r), request |-> (L7Protocol(ce.protocol) = "none" \/ AllowRequest(e, r))]
    BY DEF Answer, e
  <1> HIDE DEF u, w, z, cd, ce
  <1> QED BY <1>6, <1>7, <1>8, <1>9, <1>10, <1>11

\* A matcher survives the message: printing what became of it gives the same
\* message again, and the engine matches with it what it matched before.
LEMMA MatcherFacts ==
    ASSUME NEW q \in AllMatchers
    PROVE  /\ ProtoMatcher(q) \in AllMatchers
           /\ ProtoMatcher(q).form \in {"none", "proto"}
           /\ FileMatcher(ProtoMatcher(q)) \in AllMatchers
           /\ FileMatcher(ProtoMatcher(q)).form # "object"
           /\ ProtoMatcher(FileMatcher(ProtoMatcher(q))) = ProtoMatcher(q)
           /\ q.form \in {"none", "string", "any"} =>
                 \A v \in Values : QueryMatches(MatcherJson(ProtoMatcher(q)), v) <=> QueryMatches(q, v)
  <1>1. CASE q.form = "string"
    <2> DEFINE g == q.glob
               p == [form |-> "proto", glob |-> g, any |-> <<>>]
    <2>1. g \in Globs /\ ProtoMatcher(q) = p /\ <<>> \in GlobLists
      BY <1>1 DEF AllMatchers, ProtoMatcher, GlobLists
    <2> HIDE DEF g
    <2>2. FileMatcher(p) = [form |-> "string", glob |-> g, any |-> <<>>]
      BY DEF FileMatcher, StringMatcher
    <2>3. ProtoMatcher([form |-> "string", glob |-> g, any |-> <<>>]) = p
      BY DEF ProtoMatcher
    <2>4. ASSUME NEW v \in Values PROVE QueryMatches(q, v) <=> (v # "none" /\ Glob(g, v))
      BY <1>1 DEF QueryMatches, g
    <2>5. ASSUME NEW v \in Values PROVE QueryMatches(MatcherJson(p), v) <=> (v # "none" /\ Glob(g, v))
      <3>1. CASE g # ""
        <4>1. MatcherJson(p) = [form |-> "object", glob |-> g, any |-> <<>>]
          BY <3>1 DEF MatcherJson, GlobMatcher
        <4> QED BY <4>1 DEF QueryMatches
      <3>2. CASE g = ""
        <4>1. MatcherJson(p) = [form |-> "empty", glob |-> "", any |-> <<>>]
          BY <3>2 DEF MatcherJson
        <4>2. ~QueryMatches([form |-> "empty", glob |-> "", any |-> <<>>], v)
          BY DEF QueryMatches
        <4>3. ~Glob(g, v)
          BY <3>2 DEF Glob, Values
        <4> QED BY <4>1, <4>2, <4>3
      <3> QED BY <3>1, <3>2
    <2>6. p \in AllMatchers /\ [form |-> "string", glob |-> g, any |-> <<>>] \in AllMatchers
      BY <2>1 DEF AllMatchers
    <2> QED BY <2>1, <2>2, <2>3, <2>4, <2>5, <2>6
  <1>2. CASE q.form = "any"
    <2> DEFINE g == q.any
               p == [form |-> "proto", glob |-> "", any |-> g]
    <2>1. g \in GlobLists /\ ProtoMatcher(q) = p /\ "" \in Globs /\ <<>> \in GlobLists
      BY <1>2 DEF AllMatchers, ProtoMatcher, GlobLists, Globs
    <2> HIDE DEF g
    <2>2. p \in AllMatchers
      BY <2>1 DEF AllMatchers
    <2>3. ASSUME NEW v \in Values PROVE QueryMatches(q, v) <=> (v # "none" /\ \E i \in DOMAIN g : Glob(g[i], v))
      BY <1>2 DEF QueryMatches, g
    <2>4. CASE g # <<>>
      <3> DEFINE n == [form |-> "any", glob |-> "", any |-> g]
      <3>1. FileMatcher(p) = n /\ MatcherJson(p) = n
        BY <2>4 DEF FileMatcher, MatcherJson, AnyMatcher
      <3>2. ProtoMatcher(n) = p /\ n \in AllMatchers
        BY <2>1 DEF ProtoMatcher, AllMatchers
      <3>3. ASSUME NEW v \in Values PROVE QueryMatches(n, v) <=> (v # "none" /\ \E i \in DOMAIN g : Glob(g[i], v))
        BY DEF QueryMatches
      <3>4. n.form = "any" /\ p.form = "proto"
        OBVIOUS
      <3> HIDE DEF n, p
      <3> QED BY <2>1, <2>2, <2>3, <3>1, <3>2, <3>3, <3>4
    <2>5. CASE g = <<>>
      <3> DEFINE n == [form |-> "string", glob |-> "", any |-> <<>>]
                 k == [form |-> "empty", glob |-> "", any |-> <<>>]
      <3>1. FileMatcher(p) = n /\ MatcherJson(p) = k
        BY <2>5 DEF FileMatcher, MatcherJson, StringMatcher
      <3>2. ProtoMatcher(n) = p /\ n \in AllMatchers
        BY <2>1, <2>5 DEF ProtoMatcher, AllMatchers
      <3>3. ASSUME NEW v \in Values PROVE ~QueryMatches(k, v) /\ ~(\E i \in DOMAIN g : Glob(g[i], v))
        BY <2>5 DEF QueryMatches
      <3>4. n.form = "string" /\ p.form = "proto"
        OBVIOUS
      <3> HIDE DEF n, p, k
      <3> QED BY <2>1, <2>2, <2>3, <3>1, <3>2, <3>3, <3>4
    <2> QED BY <2>4, <2>5
  <1>3. CASE ~(q.form = "string") /\ ~(q.form = "any")
    <2>1. ProtoMatcher(q) = NoMatcher
      BY <1>3 DEF ProtoMatcher
    <2>2. NoMatcher \in AllMatchers /\ NoMatcher.form = "none"
      BY DEF NoMatcher, AllMatchers, GlobLists, Globs
    <2>3. FileMatcher(NoMatcher) = NoMatcher /\ MatcherJson(NoMatcher) = NoMatcher /\ ProtoMatcher(NoMatcher) = NoMatcher
      BY <2>2 DEF FileMatcher, MatcherJson, ProtoMatcher
    <2>4. q.form = "none" => \A v \in Values : QueryMatches(NoMatcher, v) /\ QueryMatches(q, v)
      BY <2>2 DEF QueryMatches
    <2> QED BY <1>3, <2>1, <2>2, <2>3, <2>4
  <1> QED BY <1>1, <1>2, <1>3

\* Printing a matcher and making data of it give matchers.
LEMMA OtherMatchers ==
    ASSUME NEW q \in AllMatchers
    PROVE  /\ FileMatcher(q) \in AllMatchers /\ FileMatcher(q).form # "object"
           /\ MatcherJson(q) \in AllMatchers
  <1>1. q.glob \in Globs /\ q.any \in GlobLists /\ "" \in Globs /\ <<>> \in GlobLists
    BY DEF AllMatchers, Globs, GlobLists
  <1>2. /\ NoMatcher \in AllMatchers /\ NoMatcher.form # "object"
        /\ AnyMatcher(q.any) \in AllMatchers /\ AnyMatcher(q.any).form # "object"
        /\ StringMatcher(q.glob) \in AllMatchers /\ StringMatcher(q.glob).form # "object"
        /\ GlobMatcher(q.glob) \in AllMatchers
        /\ [form |-> "empty", glob |-> "", any |-> <<>>] \in AllMatchers
    BY <1>1 DEF AllMatchers, NoMatcher, AnyMatcher, StringMatcher, GlobMatcher
  <1>3. FileMatcher(q) = NoMatcher \/ FileMatcher(q) = AnyMatcher(q.any) \/ FileMatcher(q) = StringMatcher(q.glob)
    BY DEF FileMatcher
  <1>4. MatcherJson(q) = NoMatcher \/ MatcherJson(q) = AnyMatcher(q.any) \/ MatcherJson(q) = GlobMatcher(q.glob)
        \/ MatcherJson(q) = [form |-> "empty", glob |-> "", any |-> <<>>]
    BY DEF MatcherJson
  <1> QED BY <1>2, <1>3, <1>4

\* A list of rules with other queries.
Requeried(l, k) ==
    /\ DOMAIN l = DOMAIN k
    /\ \A i \in DOMAIN k : l[i] \in RuleRecs /\ l[i].method = k[i].method /\ l[i].path = k[i].path

\* Replacing the matcher of a rule keeps its method and path.
LEMMA RuleIs ==
    ASSUME NEW u \in RuleRecs, NEW q \in AllMatchers
    PROVE  LET v == [u EXCEPT !.query = q]
           IN  v \in RuleRecs /\ v.method = u.method /\ v.path = u.path /\ v.query = q
  BY DEF RuleRecs

\* A list made rule by rule is as long as the one it is made of.
LEMMA ListIs ==
    ASSUME NEW k \in Seq(RuleRecs), NEW l, l = [i \in DOMAIN k |-> l[i]], \A i \in DOMAIN k : l[i] \in RuleRecs
    PROVE  l \in Seq(RuleRecs) /\ DOMAIN l = DOMAIN k /\ (l = <<>> <=> k = <<>>)
  <1>1. Len(k) \in Nat /\ DOMAIN k = 1..Len(k)
    OBVIOUS
  <1>2. l = [i \in 1..Len(k) |-> l[i]] /\ \A i \in 1..Len(k) : l[i] \in RuleRecs
    BY <1>1
  <1>3. l \in [1..Len(k) -> RuleRecs]
    BY <1>2
  <1>4. l \in Seq(RuleRecs) /\ DOMAIN l = 1..Len(k) /\ Len(l) = Len(k)
    BY <1>1, <1>3
  <1>5. l = <<>> <=> Len(l) = 0
    BY <1>4, EmptySeq
  <1>6. k = <<>> <=> Len(k) = 0
    BY EmptySeq
  <1> QED BY <1>1, <1>4, <1>5, <1>6

\* The rules of a message are those of the file with their matchers converted.
LEMMA ProtoRules ==
    ASSUME NEW rs \in RulesRecs
    PROVE  LET m == MapRules(ProtoMatcher, rs)
           IN  /\ m \in RulesRecs /\ m.given = rs.given /\ Requeried(m.list, rs.list)
               /\ m.list = <<>> <=> rs.list = <<>>
               /\ \A i \in DOMAIN rs.list : m.list[i].query = ProtoMatcher(rs.list[i].query)
  <1> DEFINE k == rs.list
             l == [i \in DOMAIN k |-> [k[i] EXCEPT !.query = ProtoMatcher(k[i].query)]]
             m == MapRules(ProtoMatcher, rs)
  <1>1. k \in Seq(RuleRecs) /\ rs.given \in BOOLEAN
    BY DEF RulesRecs
  <1>2. m = [rs EXCEPT !.list = l]
    BY DEF MapRules
  <1> HIDE DEF k
  <1>3. \A i \in DOMAIN k : k[i] \in RuleRecs /\ k[i].query \in AllMatchers /\ ProtoMatcher(k[i].query) \in AllMatchers
    <2>1. \A u \in RuleRecs : u.query \in AllMatchers
      BY DEF RuleRecs
    <2>2. \A i \in DOMAIN k : k[i] \in RuleRecs
      BY <1>1
    <2> QED BY <2>1, <2>2, MatcherFacts
  <1>4. ASSUME NEW i \in DOMAIN k
        PROVE  l[i] \in RuleRecs /\ l[i].method = k[i].method /\ l[i].path = k[i].path /\ l[i].query = ProtoMatcher(k[i].query)
    BY <1>3, RuleIs
  <1>5. l = [i \in DOMAIN k |-> l[i]]
    OBVIOUS
  <1> HIDE DEF l, m
  <1>6. l \in Seq(RuleRecs) /\ DOMAIN l = DOMAIN k /\ (l = <<>> <=> k = <<>>)
    BY <1>1, <1>4, <1>5, ListIs
  <1>7. m \in RulesRecs /\ m.given = rs.given /\ m.list = l
    BY <1>1, <1>2, <1>6 DEF RulesRecs
  <1> QED BY <1>4, <1>6, <1>7 DEF Requeried, m, k

\* The rules of a print are those of the message with their matchers converted.
LEMMA FileRules ==
    ASSUME NEW rs \in RulesRecs
    PROVE  LET m == MapRules(FileMatcher, rs)
           IN  /\ m \in RulesRecs /\ m.given = rs.given /\ Requeried(m.list, rs.list)
               /\ m.list = <<>> <=> rs.list = <<>>
               /\ \A i \in DOMAIN rs.list : m.list[i].query = FileMatcher(rs.list[i].query)
  <1> DEFINE k == rs.list
             l == [i \in DOMAIN k |-> [k[i] EXCEPT !.query = FileMatcher(k[i].query)]]
             m == MapRules(FileMatcher, rs)
  <1>1. k \in Seq(RuleRecs) /\ rs.given \in BOOLEAN
    BY DEF RulesRecs
  <1>2. m = [rs EXCEPT !.list = l]
    BY DEF MapRules
  <1> HIDE DEF k
  <1>3. \A i \in DOMAIN k : k[i] \in RuleRecs /\ k[i].query \in AllMatchers /\ FileMatcher(k[i].query) \in AllMatchers
    <2>1. \A u \in RuleRecs : u.query \in AllMatchers
      BY DEF RuleRecs
    <2>2. \A i \in DOMAIN k : k[i] \in RuleRecs
      BY <1>1
    <2> QED BY <2>1, <2>2, OtherMatchers
  <1>4. ASSUME NEW i \in DOMAIN k
        PROVE  l[i] \in RuleRecs /\ l[i].method = k[i].method /\ l[i].path = k[i].path /\ l[i].query = FileMatcher(k[i].query)
    BY <1>3, RuleIs
  <1>5. l = [i \in DOMAIN k |-> l[i]]
    OBVIOUS
  <1> HIDE DEF l, m
  <1>6. l \in Seq(RuleRecs) /\ DOMAIN l = DOMAIN k /\ (l = <<>> <=> k = <<>>)
    BY <1>1, <1>4, <1>5, ListIs
  <1>7. m \in RulesRecs /\ m.given = rs.given /\ m.list = l
    BY <1>1, <1>2, <1>6 DEF RulesRecs
  <1> QED BY <1>4, <1>6, <1>7 DEF Requeried, m, k

\* The rules of a data document are those of the message with their matchers
\* converted.
LEMMA JsonRules ==
    ASSUME NEW rs \in RulesRecs
    PROVE  LET m == MapRules(MatcherJson, rs)
           IN  /\ m \in RulesRecs /\ m.given = rs.given /\ Requeried(m.list, rs.list)
               /\ m.list = <<>> <=> rs.list = <<>>
               /\ \A i \in DOMAIN rs.list : m.list[i].query = MatcherJson(rs.list[i].query)
  <1> DEFINE k == rs.list
             l == [i \in DOMAIN k |-> [k[i] EXCEPT !.query = MatcherJson(k[i].query)]]
             m == MapRules(MatcherJson, rs)
  <1>1. k \in Seq(RuleRecs) /\ rs.given \in BOOLEAN
    BY DEF RulesRecs
  <1>2. m = [rs EXCEPT !.list = l]
    BY DEF MapRules
  <1> HIDE DEF k
  <1>3. \A i \in DOMAIN k : k[i] \in RuleRecs /\ k[i].query \in AllMatchers /\ MatcherJson(k[i].query) \in AllMatchers
    <2>1. \A u \in RuleRecs : u.query \in AllMatchers
      BY DEF RuleRecs
    <2>2. \A i \in DOMAIN k : k[i] \in RuleRecs
      BY <1>1
    <2> QED BY <2>1, <2>2, OtherMatchers
  <1>4. ASSUME NEW i \in DOMAIN k
        PROVE  l[i] \in RuleRecs /\ l[i].method = k[i].method /\ l[i].path = k[i].path /\ l[i].query = MatcherJson(k[i].query)
    BY <1>3, RuleIs
  <1>5. l = [i \in DOMAIN k |-> l[i]]
    OBVIOUS
  <1> HIDE DEF l, m
  <1>6. l \in Seq(RuleRecs) /\ DOMAIN l = DOMAIN k /\ (l = <<>> <=> k = <<>>)
    BY <1>1, <1>4, <1>5, ListIs
  <1>7. m \in RulesRecs /\ m.given = rs.given /\ m.list = l
    BY <1>1, <1>2, <1>6 DEF RulesRecs
  <1> QED BY <1>4, <1>6, <1>7 DEF Requeried, m, k

\* What no conversion of an endpoint touches.
SameFrame(d, e) ==
    /\ d.host = e.host /\ d.protocol = e.protocol /\ d.tls = e.tls
    /\ d.enforcement = e.enforcement /\ d.access = e.access /\ d.allowed_ips = e.allowed_ips

\* The effective ports are a list of ports.
LEMMA PortsIs ==
    ASSUME NEW e \in EpRecs
    PROVE  /\ PortList(e) \in Seq(Nat)
           /\ (IF PortList(e) = <<>> THEN 0 ELSE PortList(e)[1]) \in Nat
  <1>1. e.ports \in Seq(Nat) /\ e.port \in Nat
    BY DEF EpRecs
  <1> DEFINE q == <<e.port>>
             P == PortList(e)
  <1>2. q \in Seq(Nat) /\ <<>> \in Seq(Nat)
    BY <1>1
  <1>3. P = e.ports \/ P = q \/ P = <<>>
    BY DEF PortList
  <1>4. P \in Seq(Nat)
    BY <1>1, <1>2, <1>3
  <1> HIDE DEF P
  <1>5. P # <<>> => P[1] \in Nat
    <2>1. P # <<>> => Len(P) \in Nat \ {0}
      BY <1>4, EmptySeq
    <2> QED BY <1>4, <2>1
  <1> QED BY <1>4, <1>5 DEF P

\* A document with another endpoint.
LEMMA DocumentIs ==
    ASSUME NEW f \in PolicyRecs, NEW d \in EpRecs
    PROVE  LET t == [f EXCEPT !.endpoint = d]
           IN  t \in PolicyRecs /\ t.endpoint = d /\ t.kind = "policy" /\ t.process = f.process
               /\ t.read_only = f.read_only /\ t.read_write = f.read_write
  BY DEF PolicyRecs

\* What to_proto keeps and what it changes.
LEMMA ToProtoIs ==
    ASSUME NEW f \in PolicyRecs
    PROVE  LET t == ToProto(f)
               e == f.endpoint
               d == t.endpoint
           IN  /\ t \in PolicyRecs /\ t.process = f.process
               /\ t.read_only = f.read_only /\ t.read_write = f.read_write
               /\ e \in EpRecs /\ d \in EpRecs /\ SameFrame(d, e)
               /\ d.ports = PortList(e)
               /\ d.port = (IF PortList(e) = <<>> THEN 0 ELSE PortList(e)[1])
               /\ d.rules \in RulesRecs /\ d.rules.given = (e.rules.list # <<>>)
               /\ Requeried(d.rules.list, e.rules.list)
               /\ d.rules.list = <<>> <=> e.rules.list = <<>>
               /\ \A i \in DOMAIN e.rules.list : d.rules.list[i].query = ProtoMatcher(e.rules.list[i].query)
  <1> DEFINE e == f.endpoint
             P == PortList(e)
             n == IF P = <<>> THEN 0 ELSE P[1]
             m == MapRules(ProtoMatcher, e.rules)
             g == e.rules.list # <<>>
             rs == [m EXCEPT !.given = g]
             d == [e EXCEPT !.ports = P, !.port = n, !.rules = rs]
  <1>1. e \in EpRecs
    BY DEF PolicyRecs
  <1>2. e.rules \in RulesRecs
    BY <1>1 DEF EpRecs
  <1>3. P \in Seq(Nat) /\ n \in Nat
    BY <1>1, PortsIs
  <1>4. ToProto(f) = [f EXCEPT !.endpoint = d]
    BY DEF ToProto
  <1> HIDE DEF e, P, n
  <1>5. /\ m \in RulesRecs /\ Requeried(m.list, e.rules.list)
        /\ m.list = <<>> <=> e.rules.list = <<>>
        /\ \A i \in DOMAIN e.rules.list : m.list[i].query = ProtoMatcher(e.rules.list[i].query)
    BY <1>2, ProtoRules
  <1> HIDE DEF m
  <1>6. g \in BOOLEAN
    OBVIOUS
  <1> HIDE DEF g
  <1>7. rs \in RulesRecs /\ rs.list = m.list /\ rs.given = g
    BY <1>5, <1>6 DEF RulesRecs
  <1> HIDE DEF rs
  <1>8. d \in EpRecs /\ SameFrame(d, e) /\ d.ports = P /\ d.port = n /\ d.rules = rs
    BY <1>1, <1>3, <1>7 DEF EpRecs, SameFrame
  <1> HIDE DEF d
  <1> DEFINE t == ToProto(f)
  <1>9. t \in PolicyRecs /\ t.endpoint = d /\ t.process = f.process
        /\ t.read_only = f.read_only /\ t.read_write = f.read_write
    BY <1>4, <1>8, DocumentIs
  <1> HIDE DEF t
  <1>10. d.rules.given = (e.rules.list # <<>>)
    BY <1>7, <1>8 DEF g
  <1>11. d.ports = PortList(e) /\ d.port = (IF PortList(e) = <<>> THEN 0 ELSE PortList(e)[1])
    BY <1>8 DEF P, n
  <1>12. /\ t.endpoint \in EpRecs /\ SameFrame(t.endpoint, e)
         /\ t.endpoint.ports = PortList(e)
         /\ t.endpoint.port = (IF PortList(e) = <<>> THEN 0 ELSE PortList(e)[1])
         /\ t.endpoint.rules \in RulesRecs /\ t.endpoint.rules.given = (e.rules.list # <<>>)
         /\ Requeried(t.endpoint.rules.list, e.rules.list)
         /\ t.endpoint.rules.list = <<>> <=> e.rules.list = <<>>
         /\ \A i \in DOMAIN e.rules.list : t.endpoint.rules.list[i].query = ProtoMatcher(e.rules.list[i].query)
    BY <1>5, <1>7, <1>8, <1>9, <1>10, <1>11
  <1> QED BY <1>1, <1>9, <1>12 DEF t, e

\* What from_proto keeps and what it changes.
LEMMA FromProtoIs ==
    ASSUME NEW p \in PolicyRecs
    PROVE  LET x == FromProto(p)
               e == p.endpoint
               d == x.endpoint
           IN  /\ x \in PolicyRecs
               /\ x.process = (IF p.process.user = "" /\ p.process.group = "" THEN NoProcess ELSE p.process)
               /\ x.read_only = p.read_only /\ x.read_write = p.read_write
               /\ d \in EpRecs /\ SameFrame(d, e)
               /\ d.ports = CompactPorts(e).ports /\ d.port = CompactPorts(e).port
               /\ d.rules \in RulesRecs /\ Requeried(d.rules.list, e.rules.list)
               /\ d.rules.list = <<>> <=> e.rules.list = <<>>
               /\ \A i \in DOMAIN e.rules.list : d.rules.list[i].query = FileMatcher(e.rules.list[i].query)
  <1> DEFINE e == p.endpoint
             P == CompactPorts(e).ports
             n == CompactPorts(e).port
             rs == MapRules(FileMatcher, e.rules)
             d == [e EXCEPT !.port = n, !.ports = P, !.rules = rs]
             pr == IF p.process.user = "" /\ p.process.group = "" THEN NoProcess ELSE p.process
  <1>1. e \in EpRecs /\ p.process \in ProcessRecs
    BY DEF PolicyRecs
  <1>2. e.rules \in RulesRecs /\ e.ports \in Seq(Nat) /\ e.port \in Nat
    BY <1>1 DEF EpRecs
  <1>3. P \in Seq(Nat) /\ n \in Nat
    <2>1. e.ports # <<>> => e.ports[1] \in Nat
      <3>1. e.ports # <<>> => Len(e.ports) \in Nat \ {0}
        BY <1>2, EmptySeq
      <3> QED BY <1>2, <3>1
    <2>2. <<>> \in Seq(Nat) /\ 0 \in Nat
      OBVIOUS
    <2> HIDE DEF e
    <2> QED BY <1>2, <2>1, <2>2 DEF CompactPorts
  <1>4. pr \in ProcessRecs
    <2>1. NoProcess \in ProcessRecs
      BY DEF NoProcess, ProcessRecs, UserNames
    <2> QED BY <1>1, <2>1
  <1>5. FromProto(p) = [p EXCEPT !.process = pr, !.endpoint = d]
    BY DEF FromProto
  <1> HIDE DEF e, P, n, pr
  <1>6. /\ rs \in RulesRecs /\ Requeried(rs.list, e.rules.list)
        /\ rs.list = <<>> <=> e.rules.list = <<>>
        /\ \A i \in DOMAIN e.rules.list : rs.list[i].query = FileMatcher(e.rules.list[i].query)
    BY <1>2, FileRules
  <1> HIDE DEF rs
  <1>7. d \in EpRecs /\ SameFrame(d, e) /\ d.ports = P /\ d.port = n /\ d.rules = rs
    BY <1>1, <1>3, <1>6 DEF EpRecs, SameFrame
  <1> HIDE DEF d
  <1> DEFINE x == FromProto(p)
  <1>8. x \in PolicyRecs /\ x.endpoint = d /\ x.process = pr
        /\ x.read_only = p.read_only /\ x.read_write = p.read_write
    BY <1>4, <1>5, <1>7 DEF PolicyRecs
  <1> HIDE DEF x
  <1>9. /\ x.endpoint \in EpRecs /\ SameFrame(x.endpoint, e)
        /\ x.endpoint.ports = P /\ x.endpoint.port = n
        /\ x.endpoint.rules \in RulesRecs /\ Requeried(x.endpoint.rules.list, e.rules.list)
        /\ x.endpoint.rules.list = <<>> <=> e.rules.list = <<>>
        /\ \A i \in DOMAIN e.rules.list : x.endpoint.rules.list[i].query = FileMatcher(e.rules.list[i].query)
    BY <1>6, <1>7, <1>8
  <1> QED BY <1>8, <1>9 DEF x, e, P, n, pr

\* Completing the process identity changes the process section only.
LEMMA EnsureIs ==
    ASSUME NEW p \in PolicyRecs
    PROVE  LET n == EnsureSandboxProcessIdentity(p)
           IN  /\ n \in PolicyRecs /\ n.endpoint = p.endpoint
               /\ n.read_only = p.read_only /\ n.read_write = p.read_write
               /\ n.process = [given |-> TRUE,
                               user |-> IF p.process.user = "" THEN "sandbox" ELSE p.process.user,
                               group |-> IF p.process.group = "" THEN "sandbox" ELSE p.process.group]
  <1> DEFINE pr == [given |-> TRUE,
                    user |-> IF p.process.user = "" THEN "sandbox" ELSE p.process.user,
                    group |-> IF p.process.group = "" THEN "sandbox" ELSE p.process.group]
             n == EnsureSandboxProcessIdentity(p)
  <1>1. p.process \in ProcessRecs
    BY DEF PolicyRecs
  <1>2. pr \in ProcessRecs
    BY <1>1 DEF ProcessRecs, UserNames
  <1>3. n = [p EXCEPT !.process = pr]
    BY DEF EnsureSandboxProcessIdentity, ProcessDef
  <1> HIDE DEF pr, n
  <1>4. n \in PolicyRecs /\ n.endpoint = p.endpoint /\ n.process = pr
        /\ n.read_only = p.read_only /\ n.read_write = p.read_write
    BY <1>2, <1>3 DEF PolicyRecs
  <1> QED BY <1>4 DEF pr, n

\* The data document of a file differs from it in its ports only.
LEMMA NormalizedIs ==
    ASSUME NEW e \in EpRecs
    PROVE  LET d == NormalizeEndpointPorts(e)
           IN  d \in EpRecs /\ SameFrame(d, e) /\ d.ports = PortList(e) /\ d.port = 0 /\ d.rules = e.rules
  <1> DEFINE P == PortList(e)
             d == [e EXCEPT !.ports = P, !.port = 0]
  <1>1. P \in Seq(Nat)
    BY PortsIs
  <1>2. NormalizeEndpointPorts(e) = d
    BY DEF NormalizeEndpointPorts
  <1> HIDE DEF P
  <1>3. d \in EpRecs /\ SameFrame(d, e) /\ d.ports = P /\ d.port = 0 /\ d.rules = e.rules
    BY <1>1 DEF EpRecs, SameFrame
  <1> HIDE DEF d
  <1> QED BY <1>2, <1>3 DEF P

\* The data document of a message differs from it in ports and matchers only.
LEMMA OpaDataIs ==
    ASSUME NEW e \in EpRecs
    PROVE  LET d == ProtoToOpaData(e)
           IN  /\ d \in EpRecs /\ SameFrame(d, e) /\ d.ports = PortList(e) /\ d.port = 0
               /\ d.rules = MapRules(MatcherJson, e.rules)
  <1> DEFINE P == PortList(e)
             rs == MapRules(MatcherJson, e.rules)
             d == [e EXCEPT !.ports = P, !.port = 0, !.rules = rs]
  <1>1. P \in Seq(Nat)
    BY PortsIs
  <1>2. ProtoToOpaData(e) = d
    BY DEF ProtoToOpaData
  <1>3. rs \in RulesRecs
    <2>1. e.rules \in RulesRecs
      BY DEF EpRecs
    <2> QED BY <2>1, JsonRules
  <1> HIDE DEF P, rs
  <1>4. d \in EpRecs /\ SameFrame(d, e) /\ d.ports = P /\ d.port = 0 /\ d.rules = rs
    BY <1>1, <1>3 DEF EpRecs, SameFrame
  <1> HIDE DEF d
  <1> QED BY <1>2, <1>4 DEF P, rs

\* Expanding presets keeps endpoints alike: both have rules, or both get the same.
LEMMA ExpandedAlike ==
    ASSUME NEW d \in EpRecs, NEW e \in EpRecs, Alike(d, e), d.access = e.access,
           d.rules.list = <<>> <=> e.rules.list = <<>>
    PROVE  Alike(ExpandAccessPresets(d), ExpandAccessPresets(e))
  <1> DEFINE ms == Preset(d.access)
             rs == Rules([i \in DOMAIN ms |-> AllowRule(ms[i], "**", NoMatcher)])
             x == [d EXCEPT !.rules = rs]
             y == [e EXCEPT !.rules = rs]
  <1>1. CASE HasRules(d) \/ ms = <<>>
    <2>1. ExpandAccessPresets(d) = d
      BY <1>1 DEF ExpandAccessPresets
    <2>2. ExpandAccessPresets(e) = e
      BY <1>1 DEF ExpandAccessPresets, HasRules
    <2> QED BY <2>1, <2>2
  <1>2. CASE ~(HasRules(d) \/ ms = <<>>)
    <2>1. ExpandAccessPresets(d) = x
      BY <1>2 DEF ExpandAccessPresets
    <2>2. ExpandAccessPresets(e) = y
      BY <1>2 DEF ExpandAccessPresets, HasRules
    <2> HIDE DEF rs
    <2>3. x.rules = rs /\ y.rules = rs /\ x.ports = d.ports /\ y.ports = e.ports /\ SameFrame(x, d) /\ SameFrame(y, e)
      BY DEF EpRecs, SameFrame
    <2> HIDE DEF x, y
    <2>4. RulesAlike(x.rules.list, y.rules.list)
      BY <2>3 DEF RulesAlike
    <2>5. Alike(x, y)
      BY <2>3, <2>4 DEF Alike, SameFrame
    <2> QED BY <2>1, <2>2, <2>5
  <1> QED BY <1>1, <1>2

\* What loading two alike endpoints gives.
LEMMA LoadedAlike ==
    ASSUME NEW d \in EpRecs, NEW e \in EpRecs, Alike(d, e), d.access = e.access,
           d.rules.list = <<>> <=> e.rules.list = <<>>, NEW p, NEW q
    PROVE  SameAnswers(Load(p, d), Load(q, e))
  <1>1. Alike(ExpandAccessPresets(d), ExpandAccessPresets(e))
    BY ExpandedAlike
  <1> DEFINE a == Load(p, d)
             b == Load(q, e)
  <1>2. IsPolicy(a) => a.endpoint = ExpandAccessPresets(d)
    BY DEF Load, IsPolicy, Rejected
  <1>3. IsPolicy(b) => b.endpoint = ExpandAccessPresets(e)
    BY DEF Load, IsPolicy, Rejected
  <1> HIDE DEF a, b
  <1>4. IsPolicy(a) /\ IsPolicy(b) => \A r \in Requests : Answer(a, r) = Answer(b, r)
    BY <1>1, <1>2, <1>3, AlikeAnswers
  <1> QED BY <1>4 DEF SameAnswers, a, b

\* The effective ports of a message are those of its file.
LEMMA PortsAgain ==
    ASSUME NEW e \in EpRecs, NEW d \in EpRecs, d.ports = PortList(e),
           d.port = (IF PortList(e) = <<>> THEN 0 ELSE PortList(e)[1])
    PROVE  PortList(d) = PortList(e)
  <1>1. CASE PortList(e) # <<>>
    <2>1. d.ports # <<>>
      BY <1>1
    <2> QED BY <2>1 DEF PortList
  <1>2. CASE PortList(e) = <<>>
    <2>1. d.ports = <<>> /\ d.port = 0
      BY <1>2
    <2> QED BY <1>2, <2>1 DEF PortList
  <1> QED BY <1>1, <1>2

\* The matchers of a file a user writes.
FileShaped(f) ==
    \A i \in DOMAIN f.endpoint.rules.list :
        f.endpoint.rules.list[i].query.form \in {"none", "string", "any", "object"}

\* What becomes of a file: the first revision, its print and the second revision.
FirstOf(f) == EnsureSandboxProcessIdentity(ToProto(f))
PrintOf(f) == FromProto(FirstOf(f))
SecondOf(f) == EnsureSandboxProcessIdentity(ToProto(PrintOf(f)))

\* A file means the same from disk and from the gateway.
LEMMA FirstRevision ==
    ASSUME NEW f \in PolicyRecs, FileShaped(f), Parses(f)
    PROVE  SameAnswers(LoadStrings(f), LoadProto(FirstOf(f)))
  <1> DEFINE e == f.endpoint
             t == ToProto(f)
             d == t.endpoint
             A == NormalizeEndpointPorts(e)
             B == ProtoToOpaData(d)
             l == e.rules.list
  <1>1. /\ t \in PolicyRecs /\ e \in EpRecs /\ d \in EpRecs /\ SameFrame(d, e)
        /\ d.ports = PortList(e)
        /\ d.port = (IF PortList(e) = <<>> THEN 0 ELSE PortList(e)[1])
        /\ d.rules \in RulesRecs
        /\ Requeried(d.rules.list, l)
        /\ d.rules.list = <<>> <=> l = <<>>
        /\ \A i \in DOMAIN l : d.rules.list[i].query = ProtoMatcher(l[i].query)
    BY ToProtoIs
  <1>2. \A i \in DOMAIN l : l[i].query.form # "object"
    BY DEF Parses
  <1>3. FirstOf(f).endpoint = d
    BY <1>1, EnsureIs DEF FirstOf
  <1>4. LoadStrings(f) = Load(f.process, A)
    BY DEF LoadStrings
  <1>5. LoadProto(FirstOf(f)) = Load(ProtoProcess(FirstOf(f).process), B)
    BY <1>3 DEF LoadProto
  <1> HIDE DEF t, d, e, l
  <1>6. A \in EpRecs /\ SameFrame(A, e) /\ A.ports = PortList(e) /\ A.port = 0 /\ A.rules = e.rules
    BY <1>1, NormalizedIs
  <1>7. B \in EpRecs /\ SameFrame(B, d) /\ B.ports = PortList(d) /\ B.port = 0 /\ B.rules = MapRules(MatcherJson, d.rules)
    BY <1>1, OpaDataIs
  <1>8. /\ Requeried(B.rules.list, d.rules.list)
        /\ B.rules.list = <<>> <=> d.rules.list = <<>>
        /\ \A i \in DOMAIN d.rules.list : B.rules.list[i].query = MatcherJson(d.rules.list[i].query)
    BY <1>1, <1>7, JsonRules
  <1> HIDE DEF A, B
  <1>9. \A i \in DOMAIN l : l[i].query \in AllMatchers /\ l[i].query.form \in {"none", "string", "any"}
    <2>1. l \in Seq(RuleRecs)
      BY <1>1 DEF EpRecs, RulesRecs, l
    <2>2. \A u \in RuleRecs : u.query \in AllMatchers
      BY DEF RuleRecs
    <2>3. \A i \in DOMAIN l : l[i].query.form \in {"none", "string", "any", "object"}
      BY DEF FileShaped, l, e
    <2>4. \A i \in DOMAIN l : l[i] \in RuleRecs
      BY <2>1
    <2> QED BY <1>2, <2>2, <2>3, <2>4
  <1>10. RulesAlike(A.rules.list, B.rules.list)
    <2> DEFINE k == d.rules.list
               m == B.rules.list
    <2>1. A.rules.list = l
      BY <1>6 DEF l
    <2>2. DOMAIN m = DOMAIN l /\ DOMAIN k = DOMAIN l
      BY <1>1, <1>8 DEF Requeried
    <2>3. \A i \in DOMAIN l : l[i].method = m[i].method /\ l[i].path = m[i].path
      BY <1>1, <1>8, <2>2 DEF Requeried
    <2>4. \A i \in DOMAIN l : m[i].query = MatcherJson(ProtoMatcher(l[i].query))
      BY <1>1, <1>8, <2>2
    <2> HIDE DEF m, k
    <2>5. \A i \in DOMAIN l, v \in Values : QueryMatches(l[i].query, v) <=> QueryMatches(m[i].query, v)
      BY <1>9, <2>4, MatcherFacts
    <2> QED BY <2>1, <2>2, <2>3, <2>5 DEF RulesAlike, m
  <1>11. B.ports = A.ports
    BY <1>1, <1>6, <1>7, PortsAgain
  <1>12. Alike(A, B) /\ A.access = B.access
    BY <1>1, <1>6, <1>7, <1>10, <1>11 DEF Alike, SameFrame
  <1>13. A.rules.list = <<>> <=> B.rules.list = <<>>
    BY <1>1, <1>6, <1>8 DEF l
  <1>14. SameAnswers(Load(f.process, A), Load(ProtoProcess(FirstOf(f).process), B))
    BY <1>6, <1>7, <1>12, <1>13, LoadedAlike
  <1> QED BY <1>4, <1>5, <1>14

\* The printed revision differs from the first in its ports at most.
LEMMA SecondEndpoint ==
    ASSUME NEW f \in PolicyRecs
    PROVE  LET d == FirstOf(f).endpoint
               c == SecondOf(f).endpoint
           IN  /\ d \in EpRecs /\ c \in EpRecs /\ SameFrame(c, d) /\ c.rules = d.rules
               /\ \A x \in {80, 443} : Has(PortList(c), x) <=> Has(PortList(d), x)
               /\ Parses(PrintOf(f))
  <1> DEFINE e == f.endpoint
             p == FirstOf(f)
             d == p.endpoint
             X == PrintOf(f)
             b == X.endpoint
             c == SecondOf(f).endpoint
             l == d.rules.list
  <1>1. /\ ToProto(f) \in PolicyRecs /\ e \in EpRecs /\ ToProto(f).endpoint \in EpRecs
        /\ ToProto(f).endpoint.ports = PortList(e)
        /\ ToProto(f).endpoint.port = (IF PortList(e) = <<>> THEN 0 ELSE PortList(e)[1])
        /\ ToProto(f).endpoint.rules \in RulesRecs
        /\ ToProto(f).endpoint.rules.given = (e.rules.list # <<>>)
        /\ Requeried(ToProto(f).endpoint.rules.list, e.rules.list)
        /\ ToProto(f).endpoint.rules.list = <<>> <=> e.rules.list = <<>>
        /\ \A i \in DOMAIN e.rules.list : ToProto(f).endpoint.rules.list[i].query = ProtoMatcher(e.rules.list[i].query)
    BY ToProtoIs
  <1>2. p \in PolicyRecs /\ d = ToProto(f).endpoint
    BY <1>1, EnsureIs DEF FirstOf
  <1>3. /\ d \in EpRecs /\ d.rules \in RulesRecs /\ d.rules.given = (l # <<>>) /\ l \in Seq(RuleRecs)
        /\ \A i \in DOMAIN l : \E q \in AllMatchers : l[i].query = ProtoMatcher(q)
    <2>1. \A u \in RuleRecs : u.query \in AllMatchers
      BY DEF RuleRecs
    <2>2. e.rules.list \in Seq(RuleRecs)
      BY <1>1 DEF EpRecs, RulesRecs
    <2>3. \A i \in DOMAIN e.rules.list : e.rules.list[i].query \in AllMatchers
      BY <2>1, <2>2
    <2>4. DOMAIN l = DOMAIN e.rules.list
      BY <1>1, <1>2 DEF Requeried
    <2>5. l \in Seq(RuleRecs)
      BY <1>1, <1>2 DEF RulesRecs
    <2> HIDE DEF e, d
    <2> QED BY <1>1, <1>2, <2>3, <2>4, <2>5
  <1>4. /\ X \in PolicyRecs /\ b \in EpRecs /\ SameFrame(b, d)
        /\ b.ports = CompactPorts(d).ports /\ b.port = CompactPorts(d).port
        /\ b.rules \in RulesRecs /\ Requeried(b.rules.list, l)
        /\ b.rules.list = <<>> <=> l = <<>>
        /\ \A i \in DOMAIN l : b.rules.list[i].query = FileMatcher(l[i].query)
    BY <1>2, FromProtoIs DEF PrintOf
  <1>5. Parses(X)
    <2>1. \A u \in RuleRecs : u.query \in AllMatchers
      BY DEF RuleRecs
    <2>2. \A i \in DOMAIN l : l[i].query \in AllMatchers
      BY <1>3, <2>1
    <2>3. \A i \in DOMAIN l : FileMatcher(l[i].query).form # "object"
      BY <2>2, OtherMatchers
    <2>4. DOMAIN b.rules.list = DOMAIN l
      BY <1>4 DEF Requeried
    <2>5. \A i \in DOMAIN b.rules.list : b.rules.list[i].query.form # "object"
      <3> HIDE DEF l, b
      <3> QED BY <1>4, <2>3, <2>4
    <2> QED BY <2>5 DEF Parses
  <1> DEFINE t == ToProto(X)
             g == t.endpoint
  <1>6. /\ t \in PolicyRecs /\ g \in EpRecs /\ SameFrame(g, b)
        /\ g.ports = PortList(b)
        /\ g.port = (IF PortList(b) = <<>> THEN 0 ELSE PortList(b)[1])
        /\ g.rules \in RulesRecs /\ g.rules.given = (b.rules.list # <<>>)
        /\ Requeried(g.rules.list, b.rules.list)
        /\ \A i \in DOMAIN b.rules.list : g.rules.list[i].query = ProtoMatcher(b.rules.list[i].query)
    BY <1>4, ToProtoIs
  <1>7. c = g
    BY <1>6, EnsureIs DEF SecondOf
  <1>8. PortList(g) = PortList(b)
    BY <1>4, <1>6, PortsAgain
  <1>16. d.ports \in Seq(Nat) /\ (d.ports = <<>> => d.port = 0) /\ d.port \in Nat
    <2>1. d.ports = PortList(e) /\ d.port = (IF PortList(e) = <<>> THEN 0 ELSE PortList(e)[1])
      BY <1>1, <1>2
    <2> QED BY <1>3, <2>1 DEF EpRecs
  <1> HIDE DEF e, p, X, c, t, d, b, g, l
  <1>9. g.rules.list = l
    <2> DEFINE k == g.rules.list
               m == b.rules.list
    <2>1. DOMAIN m = DOMAIN l /\ DOMAIN k = DOMAIN l
      BY <1>4, <1>6 DEF Requeried
    <2>2. \A i \in DOMAIN l : k[i] \in RuleRecs /\ k[i].method = l[i].method /\ k[i].path = l[i].path
      BY <1>4, <1>6, <2>1 DEF Requeried
    <2>3. \A i \in DOMAIN l : k[i].query = ProtoMatcher(FileMatcher(l[i].query))
      BY <1>4, <1>6, <2>1
    <2>4. \A i \in DOMAIN l : ProtoMatcher(FileMatcher(l[i].query)) = l[i].query
      BY <1>3, MatcherFacts
    <2>5. k \in Seq(RuleRecs)
      BY <1>6 DEF RulesRecs
    <2> HIDE DEF k, m
    <2>6. \A i \in DOMAIN l : l[i] \in RuleRecs
      BY <1>3
    <2>7. \A u, v \in RuleRecs : u.method = v.method /\ u.path = v.path /\ u.query = v.query => u = v
      <3> SUFFICES ASSUME NEW u \in RuleRecs, NEW v \in RuleRecs, u.method = v.method, u.path = v.path, u.query = v.query
                   PROVE  u = v
        OBVIOUS
      <3>1. u = [method |-> u.method, path |-> u.path, query |-> u.query]
        BY DEF RuleRecs
      <3>2. v = [method |-> v.method, path |-> v.path, query |-> v.query]
        BY DEF RuleRecs
      <3> QED BY <3>1, <3>2
    <2>8. \A i \in DOMAIN l : k[i] = l[i]
      BY <2>2, <2>3, <2>4, <2>6, <2>7
    <2>9. Len(k) = Len(l) /\ \A i \in 1..Len(k) : k[i] = l[i]
      BY <1>3, <2>1, <2>5, <2>8
    <2>10. k = l
      BY <1>3, <2>5, <2>9, SeqEqual
    <2> QED BY <2>10 DEF k
  <1>10. g.rules.given = d.rules.given
    BY <1>3, <1>4, <1>6
  <1>11. g.rules = d.rules
    <2>1. \A u, v \in RulesRecs : u.given = v.given /\ u.list = v.list => u = v
      BY DEF RulesRecs
    <2> QED BY <1>3, <1>6, <1>9, <1>10, <2>1 DEF l
  <1>12. SameFrame(g, d)
    BY <1>4, <1>6 DEF SameFrame
  <1>13. ASSUME NEW x \in {80, 443} PROVE Has(PortList(b), x) <=> Has(PortList(d), x)
    <2> DEFINE P == d.ports
    <2>1. P \in Seq(Nat) /\ Len(P) \in Nat
      BY <1>16
    <2>2. CASE Len(P) > 1
      <3>1. b.ports = P /\ P # <<>>
        BY <1>4, <2>1, <2>2, EmptySeq DEF CompactPorts
      <3> QED BY <3>1 DEF PortList
    <2>3. CASE P = <<>>
      <3>1. b.ports = <<>> /\ b.port = 0 /\ d.port = 0
        BY <1>4, <1>16, <2>3, EmptySeq DEF CompactPorts
      <3>2. PortList(b) = <<>> /\ PortList(d) = <<>>
        BY <2>3, <3>1 DEF PortList
      <3> QED BY <3>2
    <2>4. CASE Len(P) = 1
      <3>1. P # <<>> /\ P[1] \in Nat /\ DOMAIN P = {1}
        BY <2>1, <2>4, EmptySeq
      <3>2. b.ports = <<>> /\ b.port = P[1]
        BY <1>4, <2>4, <3>1 DEF CompactPorts
      <3>3. PortList(d) = P
        BY <3>1 DEF PortList
      <3>4. Has(P, x) <=> P[1] = x
        BY <3>1 DEF Has
      <3>5. CASE P[1] > 0
        <4> DEFINE n == P[1]
        <4>1. PortList(b) = <<n>>
          BY <3>2, <3>5 DEF PortList
        <4> HIDE DEF n
        <4>2. Has(<<n>>, x) <=> n = x
          BY DEF Has
        <4> QED BY <3>3, <3>4, <4>1, <4>2 DEF n
      <3>6. CASE ~(P[1] > 0)
        <4>1. PortList(b) = <<>>
          BY <3>2, <3>6 DEF PortList
        <4>2. ~Has(<<>>, x)
          BY DEF Has
        <4>3. P[1] # x
          BY <3>1, <3>6
        <4> QED BY <3>3, <3>4, <4>1, <4>2, <4>3
      <3> QED BY <3>5, <3>6
    <2>5. P = <<>> \/ Len(P) = 1 \/ Len(P) > 1
      <3> DEFINE n == Len(P)
      <3>1. n \in Nat /\ (P # <<>> => n # 0)
        BY <2>1, EmptySeq
      <3> HIDE DEF n
      <3>2. n = 0 \/ n = 1 \/ n > 1
        BY <3>1
      <3> QED BY <3>1, <3>2 DEF n
    <2> QED BY <2>2, <2>3, <2>4, <2>5
  <1>14. \A x \in {80, 443} : Has(PortList(c), x) <=> Has(PortList(d), x)
    BY <1>7, <1>8, <1>13
  <1>15. c \in EpRecs /\ SameFrame(c, d) /\ c.rules = d.rules
    BY <1>6, <1>7, <1>11, <1>12
  <1> QED BY <1>3, <1>5, <1>14, <1>15 DEF c, d, p, X

\* A revision that passed validation is printed and stored again unchanged but
\* for its ports.
LEMMA SecondRevision ==
    ASSUME NEW f \in PolicyRecs, ValidateSandboxPolicy(FirstOf(f))
    PROVE  /\ FirstOf(f) \in PolicyRecs /\ SecondOf(f) \in PolicyRecs
           /\ ValidateSandboxPolicy(SecondOf(f))
           /\ StaticFieldsUnchanged(FirstOf(f), SecondOf(f))
           /\ SecondOf(f).process = FirstOf(f).process
  <1> DEFINE p == FirstOf(f)
             x == PrintOf(f)
             t == ToProto(x)
             s == SecondOf(f)
  <1>1. ToProto(f) \in PolicyRecs
    BY ToProtoIs
  <1>2. p \in PolicyRecs /\ p.process.given = TRUE /\ p.process \in ProcessRecs
    <2> DEFINE v == ToProto(f)
               us == IF v.process.user = "" THEN "sandbox" ELSE v.process.user
               gr == IF v.process.group = "" THEN "sandbox" ELSE v.process.group
    <2>1. p \in PolicyRecs /\ p.process = [given |-> TRUE, user |-> us, group |-> gr]
      BY <1>1, EnsureIs DEF FirstOf
    <2> HIDE DEF p, us, gr
    <2>2. p.process.given = TRUE
      BY <2>1
    <2> QED BY <2>1, <2>2 DEF PolicyRecs
  <1>3. p.process.user = "sandbox" /\ p.process.group = "sandbox"
    BY DEF ValidateSandboxPolicy
  <1>4. x \in PolicyRecs /\ x.process = p.process /\ x.read_only = p.read_only /\ x.read_write = p.read_write
    BY <1>2, <1>3, FromProtoIs DEF PrintOf
  <1>5. t \in PolicyRecs /\ t.process = p.process /\ t.read_only = p.read_only /\ t.read_write = p.read_write
    BY <1>4, ToProtoIs
  <1>6. /\ s \in PolicyRecs /\ s.read_only = t.read_only /\ s.read_write = t.read_write
        /\ s.process = [given |-> TRUE,
                        user |-> IF t.process.user = "" THEN "sandbox" ELSE t.process.user,
                        group |-> IF t.process.group = "" THEN "sandbox" ELSE t.process.group]
    BY <1>5, EnsureIs DEF SecondOf
  <1> HIDE DEF p, x, t, s
  <1>7. s.process = [given |-> TRUE, user |-> "sandbox", group |-> "sandbox"]
    BY <1>3, <1>5, <1>6
  <1>8. p.process = [given |-> TRUE, user |-> "sandbox", group |-> "sandbox"]
    BY <1>2, <1>3 DEF ProcessRecs
  <1>9. s.process = p.process /\ s.read_only = p.read_only /\ s.read_write = p.read_write
    BY <1>5, <1>6, <1>7, <1>8
  <1>10. ValidateSandboxPolicy(s)
    <2>1. ValidateSandboxPolicy(p)
      BY DEF p
    <2> QED BY <1>9, <2>1 DEF ValidateSandboxPolicy
  <1>11. StaticFieldsUnchanged(p, s)
    BY <1>9 DEF StaticFieldsUnchanged, Has
  <1> QED BY <1>2, <1>6, <1>9, <1>10, <1>11 DEF p, s

\* Both revisions load alike.
LEMMA RevisionsAgree ==
    ASSUME NEW f \in PolicyRecs, ValidateSandboxPolicy(FirstOf(f))
    PROVE  LET a == LoadProto(FirstOf(f))
               b == LoadProto(SecondOf(f))
           IN  /\ IsPolicy(a) = IsPolicy(b)
               /\ IsPolicy(a) => QuerySandboxConfig(a) = QuerySandboxConfig(b)
               /\ SameAnswers(a, b)
  <1> DEFINE d == FirstOf(f).endpoint
             c == SecondOf(f).endpoint
             A == ProtoToOpaData(d)
             B == ProtoToOpaData(c)
             pr == ProtoProcess(FirstOf(f).process)
  <1>1. /\ d \in EpRecs /\ c \in EpRecs /\ SameFrame(c, d) /\ c.rules = d.rules
        /\ \A x \in {80, 443} : Has(PortList(c), x) <=> Has(PortList(d), x)
    BY SecondEndpoint
  <1>2. LoadProto(FirstOf(f)) = Load(pr, A)
    BY DEF LoadProto
  <1>3. LoadProto(SecondOf(f)) = Load(pr, B)
    BY SecondRevision DEF LoadProto
  <1> HIDE DEF d, c, pr
  <1>4. A \in EpRecs /\ SameFrame(A, d) /\ A.ports = PortList(d) /\ A.port = 0 /\ A.rules = MapRules(MatcherJson, d.rules)
    BY <1>1, OpaDataIs
  <1>5. B \in EpRecs /\ SameFrame(B, c) /\ B.ports = PortList(c) /\ B.port = 0 /\ B.rules = MapRules(MatcherJson, c.rules)
    BY <1>1, OpaDataIs
  <1> HIDE DEF A, B
  <1>6. A.rules = B.rules /\ SameFrame(A, B) /\ A.port = B.port
    BY <1>1, <1>4, <1>5 DEF SameFrame
  <1>7. ValidateL7Policies(A) <=> ValidateL7Policies(B)
    <2>1. ~(A.port > 0) /\ ~(B.port > 0)
      BY <1>4, <1>5
    <2> QED BY <1>6, <2>1 DEF ValidateL7Policies, HostValid, HasRules, SameFrame
  <1>8. Alike(A, B) /\ A.access = B.access
    <2>1. RulesAlike(A.rules.list, B.rules.list)
      BY <1>6 DEF RulesAlike
    <2> QED BY <1>1, <1>4, <1>5, <1>6, <2>1 DEF Alike, SameFrame
  <1>9. SameAnswers(Load(pr, A), Load(pr, B))
    BY <1>4, <1>5, <1>6, <1>8, LoadedAlike
  <1>10. IsPolicy(Load(pr, A)) <=> ValidateL7Policies(A)
    BY DEF Load, IsPolicy, Rejected
  <1>11. IsPolicy(Load(pr, B)) <=> ValidateL7Policies(B)
    BY DEF Load, IsPolicy, Rejected
  <1>12. IsPolicy(Load(pr, A)) => Load(pr, A).process = pr
    BY DEF Load, IsPolicy, Rejected
  <1>13. IsPolicy(Load(pr, B)) => Load(pr, B).process = pr
    BY DEF Load, IsPolicy, Rejected
  <1>14. IsPolicy(Load(pr, A)) = IsPolicy(Load(pr, B))
    BY <1>7, <1>10, <1>11 DEF IsPolicy
  <1> QED BY <1>2, <1>3, <1>7, <1>9, <1>10, <1>11, <1>12, <1>13, <1>14 DEF QuerySandboxConfig

\* The files of the model are policy documents.
LEMMA FilesShape ==
    ASSUME NEW f \in Files
    PROVE  f \in PolicyRecs /\ FileShaped(f)
  <1>1. NoProcess \in ProcessRecs /\ ProcessDef("", "") \in ProcessRecs /\ ProcessDef("sandbox", "") \in ProcessRecs
        /\ ProcessDef("root", "sandbox") \in ProcessRecs
    BY DEF NoProcess, ProcessDef, ProcessRecs, UserNames
  <1>2. <<>> \in Seq(Paths) /\ \A x \in Paths : <<x>> \in Seq(Paths)
    OBVIOUS
  <1>3. "/tmp" \in Paths
    BY DEF Paths
  <1>4. \A q \in FileQueries : q \in AllMatchers /\ q.form \in {"none", "string", "any", "object"}
    <2> SUFFICES ASSUME NEW q \in FileQueries PROVE q \in AllMatchers /\ q.form \in {"none", "string", "any", "object"}
      OBVIOUS
    <2>1. q.glob \in Globs /\ q.any \in GlobLists
      BY DEF Globs, GlobLists
    <2>2. q \in [form : {"none", "string", "any", "object"}, glob : STRING, any : Seq(STRING)]
      BY CfgAssumption
    <2>3. q = [form |-> q.form, glob |-> q.glob, any |-> q.any] /\ q.form \in {"none", "string", "any", "object"}
      BY <2>2
    <2> DEFINE x == q.form
               y == q.glob
               z == q.any
    <2> HIDE DEF x, y, z
    <2>4. [form |-> x, glob |-> y, any |-> z] \in AllMatchers
      BY <2>1, <2>3 DEF AllMatchers, x, y, z
    <2> QED BY <2>3, <2>4 DEF x, y, z
  <1>5. NoMatcher \in AllMatchers /\ NoMatcher.form = "none"
    BY DEF NoMatcher, AllMatchers, Globs, GlobLists
  <1>6. ASSUME NEW rs \in RuleLists
        PROVE  rs \in RulesRecs /\ \A i \in DOMAIN rs.list : rs.list[i].query.form \in {"none", "string", "any", "object"}
    <2>1. \A u \in RuleRecs : Rules(<<u>>) \in RulesRecs
      BY DEF Rules, RulesRecs
    <2>2. \A u : DOMAIN Rules(<<u>>).list = {1} /\ Rules(<<u>>).list[1] = u
      BY DEF Rules
    <2>3. NoRules \in RulesRecs /\ Rules(<<>>) \in RulesRecs /\ DOMAIN NoRules.list = {} /\ DOMAIN Rules(<<>>).list = {}
      BY DEF NoRules, Rules, RulesRecs
    <2>4. AllowRule("GET", "", NoMatcher) \in RuleRecs /\ AllowRule("GET", "", NoMatcher).query = NoMatcher
      BY <1>5 DEF AllowRule, RuleRecs
    <2>5. \A q \in FileQueries : AllowRule("GET", "**", q) \in RuleRecs /\ AllowRule("GET", "**", q).query = q
      BY <1>4 DEF AllowRule, RuleRecs
    <2>6. \/ rs = NoRules \/ rs = Rules(<<>>) \/ rs = Rules(<<AllowRule("GET", "", NoMatcher)>>)
          \/ \E q \in FileQueries : rs = Rules(<<AllowRule("GET", "**", q)>>)
      BY DEF RuleLists
    <2>7. CASE rs = NoRules \/ rs = Rules(<<>>)
      BY <2>3, <2>7
    <2>8. CASE rs = Rules(<<AllowRule("GET", "", NoMatcher)>>)
      <3> DEFINE u == AllowRule("GET", "", NoMatcher)
      <3>1. u \in RuleRecs /\ u.query.form = "none" /\ rs = Rules(<<u>>)
        BY <1>5, <2>4, <2>8
      <3> HIDE DEF u
      <3> QED BY <2>1, <2>2, <3>1
    <2>9. CASE \E q \in FileQueries : rs = Rules(<<AllowRule("GET", "**", q)>>)
      <3>1. PICK q \in FileQueries : rs = Rules(<<AllowRule("GET", "**", q)>>)
        BY <2>9
      <3> DEFINE u == AllowRule("GET", "**", q)
      <3>2. u \in RuleRecs /\ u.query.form \in {"none", "string", "any", "object"} /\ rs = Rules(<<u>>)
        BY <1>4, <2>5, <3>1
      <3> HIDE DEF u
      <3> QED BY <2>1, <2>2, <3>2
    <2> QED BY <2>6, <2>7, <2>8, <2>9
  <1>7. ASSUME NEW e \in Endpoints PROVE e \in EpRecs /\ e.rules \in RuleLists
    <2>1. RuleLists \subseteq RulesRecs
      BY <1>6
    <2> QED BY <2>1, CfgAssumption DEF Endpoints, EpRecs
  <1>8. PlainEndpoint \in EpRecs /\ PlainEndpoint.rules \in RuleLists
    <2>1. NoRules \in RuleLists
      BY DEF RuleLists
    <2>2. NoRules \in RulesRecs
      BY <1>6, <2>1
    <2> HIDE DEF NoRules
    <2> QED BY <2>1, <2>2 DEF PlainEndpoint, EpRecs
  <1>9. ASSUME NEW p \in ProcessRecs, NEW ro \in Seq(Paths), NEW rw \in Seq(Paths), NEW e \in EpRecs, e.rules \in RuleLists
        PROVE  PolicyFile(p, ro, rw, e) \in PolicyRecs /\ FileShaped(PolicyFile(p, ro, rw, e))
    <2>1. PolicyFile(p, ro, rw, e) \in PolicyRecs /\ PolicyFile(p, ro, rw, e).endpoint = e
      BY DEF PolicyFile, PolicyRecs
    <2> QED BY <1>6, <1>9, <2>1 DEF FileShaped
  <1>10. CASE f \in {PolicyFile(NoProcess, <<>>, <<"/tmp">>, e) : e \in Endpoints}
    <2>1. PICK e \in Endpoints : f = PolicyFile(NoProcess, <<>>, <<"/tmp">>, e)
      BY <1>10
    <2> QED BY <1>1, <1>2, <1>3, <1>7, <1>9, <2>1
  <1>11. CASE f \in {PolicyFile(s.process, s.ro, s.rw, PlainEndpoint) : s \in StaticFields}
    <2>1. PICK s \in StaticFields : f = PolicyFile(s.process, s.ro, s.rw, PlainEndpoint)
      BY <1>11
    <2>2. s.process \in ProcessRecs
      BY <1>1 DEF StaticFields
    <2>3. s.ro \in Seq(Paths) /\ s.rw \in Seq(Paths)
      BY <1>2 DEF StaticFields, PathLists
    <2> QED BY <1>8, <1>9, <2>1, <2>2, <2>3
  <1> QED BY <1>10, <1>11 DEF Files

\* A file that is on its way through the gateway, and the message of it.
Sent(f) == Parses(f) /\ ValidateSandboxPolicy(FirstOf(f))

\* How far the document got: every revision, print, message and engine is what
\* the conversions make of it.
StoredOK ==
    \/ stored = <<>>
    \/ stored = <<FirstOf(doc)>> /\ Sent(doc)
    \/ stored = <<FirstOf(doc), SecondOf(doc)>> /\ Sent(doc)

PrintedOK == exported = None \/ (exported = PrintOf(doc) /\ stored # <<>>)

MessageOK ==
    \/ message \in {None, Unchanged}
    \/ message = Rejected /\ stored = <<>>
    \/ message = ToProto(doc) /\ stored = <<>> /\ Parses(doc)
    \/ message = ToProto(PrintOf(doc)) /\ Len(stored) = 1 /\ exported # None

EnginesOK ==
    /\ engines = [file |-> engines.file, first |-> engines.first, second |-> engines.second]
    /\ engines.file \in {None, LoadStrings(doc)}
    /\ engines.first \in {None, LoadProto(FirstOf(doc))} /\ (engines.first # None => stored # <<>>)
    /\ engines.second \in {None, LoadProto(SecondOf(doc))} /\ (engines.second # None => Len(stored) = 2)

CfgInv == doc \in Files /\ StoredOK /\ PrintedOK /\ MessageOK /\ EnginesOK

\* Whatever a document is loaded as is a policy or a refusal.
LEMMA LoadKind ==
    ASSUME NEW p, NEW e
    PROVE  Texts(Load(p, e))
  BY DEF Texts, Load, Rejected

\* The revisions by their number.
LEMMA StoredLen ==
    ASSUME StoredOK
    PROVE  /\ Len(stored) \in 0..2
           /\ stored = <<>> <=> Len(stored) = 0
           /\ Len(stored) = 1 => stored = <<FirstOf(doc)>> /\ Sent(doc)
           /\ Len(stored) = 2 => stored = <<FirstOf(doc), SecondOf(doc)>> /\ Sent(doc)
           /\ stored # <<>> => stored[1] = FirstOf(doc) /\ Sent(doc)
  <1> DEFINE a == FirstOf(doc)
             b == SecondOf(doc)
  <1>1. stored = <<>> \/ (stored = <<a>> /\ Sent(doc)) \/ (stored = <<a, b>> /\ Sent(doc))
    BY DEF StoredOK
  <1> HIDE DEF a, b
  <1>2. Len(<<>>) = 0 /\ Len(<<a>>) = 1 /\ Len(<<a, b>>) = 2 /\ <<a>>[1] = a /\ <<a, b>>[1] = a
    OBVIOUS
  <1>3. <<a>> # <<>> /\ <<a, b>> # <<>>
    OBVIOUS
  <1> QED BY <1>1, <1>2, <1>3 DEF a, b

\* The inductive invariant implies the property.
LEMMA CfgSafe ==
    ASSUME CfgInv
    PROVE  ConfigSound
  <1> DEFINE F == LoadStrings(doc)
             A == LoadProto(FirstOf(doc))
             B == LoadProto(SecondOf(doc))
  <1>1. doc \in PolicyRecs /\ FileShaped(doc)
    BY FilesShape DEF CfgInv
  <1>2. StoredOK
    BY DEF CfgInv
  <1>3. Texts(None) /\ Texts(Rejected) /\ Texts(Unchanged) /\ ~IsPolicy(None)
    BY DEF Texts, None, Rejected, Unchanged, IsPolicy
  <1>4. Texts(F) /\ Texts(A) /\ Texts(B)
    BY LoadKind DEF LoadStrings, LoadProto
  <1>5. \A p \in PolicyRecs : Texts(p)
    BY DEF PolicyRecs, Texts
  <1>6. /\ FirstOf(doc) \in PolicyRecs /\ ToProto(doc) \in PolicyRecs
        /\ PrintOf(doc) \in PolicyRecs /\ ToProto(PrintOf(doc)) \in PolicyRecs
    <2>1. ToProto(doc) \in PolicyRecs
      BY <1>1, ToProtoIs
    <2>2. FirstOf(doc) \in PolicyRecs
      BY <2>1, EnsureIs DEF FirstOf
    <2>3. PrintOf(doc) \in PolicyRecs
      BY <2>2, FromProtoIs DEF PrintOf
    <2>4. ToProto(PrintOf(doc)) \in PolicyRecs
      BY <2>3, ToProtoIs
    <2> QED BY <2>1, <2>2, <2>3, <2>4
  <1>7. /\ engines = [file |-> engines.file, first |-> engines.first, second |-> engines.second]
        /\ engines.file = None \/ engines.file = F
        /\ engines.first = None \/ (engines.first = A /\ stored # <<>>)
        /\ engines.second = None \/ (engines.second = B /\ Len(stored) = 2)
    BY DEF CfgInv, EnginesOK
  <1> HIDE DEF F, A, B
  <1>8. CfgTypeOK
    <2>1. doc \in Files /\ Len(stored) \in 0..2
      BY <1>2, StoredLen DEF CfgInv
    <2>2. Texts(message)
      BY <1>3, <1>5, <1>6 DEF CfgInv, MessageOK
    <2>3. Texts(exported)
      BY <1>3, <1>5, <1>6 DEF CfgInv, PrintedOK
    <2>4. Texts(engines.file) /\ Texts(engines.first) /\ Texts(engines.second)
      BY <1>3, <1>4, <1>7
    <2>5. DOMAIN engines = {"file", "first", "second"}
      BY <1>7
    <2>6. \A w \in DOMAIN engines : Texts(engines[w])
      BY <2>4, <2>5
    <2> QED BY <2>1, <2>2, <2>3, <2>6 DEF CfgTypeOK
  <1>9. PathsAgree
    <2>1. CASE engines.file = None \/ engines.first = None
      BY <1>3, <2>1 DEF PathsAgree, SameAnswers
    <2>2. CASE ~(engines.file = None \/ engines.first = None)
      <3>1. engines.file = F /\ engines.first = A /\ Sent(doc)
        BY <1>2, <1>7, <2>2, StoredLen
      <3>2. SameAnswers(F, A)
        BY <1>1, <3>1, FirstRevision DEF Sent, F, A
      <3> QED BY <3>1, <3>2 DEF PathsAgree
    <2> QED BY <2>1, <2>2
  <1>10. PrintedPolicyMeansTheSame
    <2>1. exported # None => message # Rejected
      <3> SUFFICES ASSUME exported # None, message = Rejected PROVE FALSE
        OBVIOUS
      <3>1. stored # <<>>
        BY DEF CfgInv, PrintedOK
      <3>2. Rejected # None /\ Rejected # Unchanged /\ \A p \in PolicyRecs : Rejected # p
        BY DEF Rejected, None, Unchanged, PolicyRecs
      <3> QED BY <1>6, <3>1, <3>2 DEF CfgInv, MessageOK
    <2>2. CASE engines.first = None \/ engines.second = None
      <3>1. SameAnswers(engines.first, engines.second)
        BY <1>3, <2>2 DEF SameAnswers
      <3> QED BY <2>1, <2>2, <3>1 DEF PrintedPolicyMeansTheSame
    <2>3. CASE ~(engines.first = None \/ engines.second = None)
      <3>1. engines.first = A /\ engines.second = B /\ Sent(doc)
        BY <1>2, <1>7, <2>3, StoredLen
      <3>2. /\ IsPolicy(A) = IsPolicy(B)
            /\ IsPolicy(A) => QuerySandboxConfig(A) = QuerySandboxConfig(B)
            /\ SameAnswers(A, B)
        BY <1>1, <3>1, RevisionsAgree DEF Sent, A, B
      <3> QED BY <2>1, <3>1, <3>2 DEF PrintedPolicyMeansTheSame
    <2> QED BY <2>2, <2>3
  <1> QED BY <1>8, <1>9, <1>10 DEF ConfigSound

\* A list of one with another member behind it.
LEMMA PairIs ==
    ASSUME NEW y, NEW z
    PROVE  Append(<<y>>, z) = <<y, z>>
  <1> DEFINE s == Append(<<y>>, z)
             t == <<y, z>>
             S == {y, z}
  <1>1. <<y>> \in Seq(S) /\ z \in S /\ t \in Seq(S) /\ Len(<<y>>) = 1 /\ <<y>>[1] = y /\ Len(t) = 2 /\ t[1] = y /\ t[2] = z
    OBVIOUS
  <1> DEFINE k == <<y>>
             r == Append(k, z)
  <1>2. k \in Seq(S) /\ Len(k) = 1 /\ k[1] = y
    BY <1>1
  <1> HIDE DEF k, S, t
  <1>3. r \in Seq(S) /\ Len(r) = 2 /\ r[1] = y /\ r[2] = z
    BY <1>1, <1>2
  <1> HIDE DEF r
  <1>4. Len(r) = Len(t) /\ \A i \in 1..Len(r) : r[i] = t[i]
    BY <1>1, <1>3
  <1>5. r = t
    BY <1>1, <1>3, <1>4, SeqEqual
  <1> QED BY <1>5 DEF r, k, t

\* What the gateway makes of a message.
LEMMA AcceptedIs ==
    ASSUME NEW t \in PolicyRecs
    PROVE  LET p == EnsureSandboxProcessIdentity(t)
           IN  IF ValidateSandboxPolicy(p) THEN Accepted(t) = p /\ IsPolicy(Accepted(t)) ELSE ~IsPolicy(Accepted(t))
  <1> DEFINE p == EnsureSandboxProcessIdentity(t)
  <1>1. p \in PolicyRecs
    BY EnsureIs
  <1>2. Accepted(t) = IF ValidateSandboxPolicy(p) THEN p ELSE Rejected
    BY DEF Accepted
  <1> HIDE DEF p
  <1>3. IsPolicy(p) /\ ~IsPolicy(Rejected)
    BY <1>1 DEF PolicyRecs, IsPolicy, Rejected
  <1> QED BY <1>2, <1>3 DEF p

\* Every step keeps the inductive invariant.
LEMMA CfgStep ==
    ASSUME CfgInv, [CfgNext]_cfgVars
    PROVE  CfgInv'
  <1>1. doc \in PolicyRecs /\ FileShaped(doc)
    BY FilesShape DEF CfgInv
  <1>2. doc \in Files /\ StoredOK /\ PrintedOK /\ MessageOK /\ EnginesOK
    BY DEF CfgInv
  <1>3. ToProto(doc) \in PolicyRecs /\ FirstOf(doc) \in PolicyRecs /\ PrintOf(doc) \in PolicyRecs /\ ToProto(PrintOf(doc)) \in PolicyRecs
    <2>1. ToProto(doc) \in PolicyRecs
      BY <1>1, ToProtoIs
    <2>2. FirstOf(doc) \in PolicyRecs
      BY <2>1, EnsureIs DEF FirstOf
    <2>3. PrintOf(doc) \in PolicyRecs
      BY <2>2, FromProtoIs DEF PrintOf
    <2> QED BY <2>1, <2>2, <2>3, ToProtoIs
  <1>4. None # Rejected /\ None # Unchanged /\ Rejected # Unchanged /\ \A p \in PolicyRecs : p # None /\ p # Rejected /\ p # Unchanged
    BY DEF None, Rejected, Unchanged, PolicyRecs
  <1>5. CASE StartFromFile
    <2> DEFINE v == LoadStrings(doc)
    <2>1. engines' = [engines EXCEPT !.file = v] /\ UNCHANGED <<doc, message, stored, exported>>
      BY <1>5 DEF StartFromFile
    <2> HIDE DEF v
    <2>2. /\ engines'.file = v /\ engines'.first = engines.first /\ engines'.second = engines.second
          /\ engines' = [file |-> engines'.file, first |-> engines'.first, second |-> engines'.second]
      BY <1>2, <2>1 DEF EnginesOK
    <2>3. EnginesOK'
      BY <1>2, <2>1, <2>2 DEF EnginesOK, v
    <2> QED BY <1>2, <2>1, <2>3 DEF CfgInv, StoredOK, PrintedOK, MessageOK
  <1>6. CASE ReadFile
    <2>1. UNCHANGED <<doc, stored, exported, engines>>
      BY <1>6 DEF ReadFile
    <2>2. CASE stored = <<>> /\ message' = ParseSandboxPolicy(doc)
      <3>1. MessageOK'
        BY <2>1, <2>2 DEF MessageOK, ParseSandboxPolicy
      <3> QED BY <1>2, <2>1, <3>1 DEF CfgInv, StoredOK, PrintedOK, EnginesOK
    <2>3. CASE exported # None /\ Len(stored) = 1 /\ message' = ParseSandboxPolicy(exported)
      <3>1. exported = PrintOf(doc)
        BY <1>2, <2>3 DEF PrintedOK
      <3>2. Parses(PrintOf(doc))
        BY <1>1, SecondEndpoint
      <3>3. message' = ToProto(PrintOf(doc))
        BY <2>3, <3>1, <3>2 DEF ParseSandboxPolicy
      <3>4. MessageOK'
        BY <2>1, <2>3, <3>3 DEF MessageOK
      <3> QED BY <1>2, <2>1, <3>4 DEF CfgInv, StoredOK, PrintedOK, EnginesOK
    <2> QED BY <1>6, <2>2, <2>3 DEF ReadFile
  <1>7. CASE SubmitPolicy
    <2> DEFINE p == Accepted(message)
               fits == IsPolicy(p) /\ \A i \in DOMAIN stored : StaticFieldsUnchanged(stored[i], p)
    <2>1. UNCHANGED <<doc, exported, engines>> /\ IsPolicy(message)
      BY <1>7 DEF SubmitPolicy
    <2>2. \/ ~fits /\ message' = Rejected /\ UNCHANGED stored
          \/ fits /\ Has(stored, p) /\ message' = Unchanged /\ UNCHANGED stored
          \/ fits /\ ~Has(stored, p) /\ message' = None /\ stored' = Append(stored, p)
      BY <1>7 DEF SubmitPolicy
    <2>3. message # None /\ message # Unchanged /\ message # Rejected
      BY <2>1 DEF IsPolicy, None, Unchanged, Rejected
    <2>4. CASE message = ToProto(doc) /\ stored = <<>> /\ Parses(doc)
      <3>1. IsPolicy(p) => p = FirstOf(doc) /\ Sent(doc)
        BY <1>3, <2>4, AcceptedIs DEF FirstOf, Sent
      <3> HIDE DEF p
      <3>2. exported = None /\ engines.first = None /\ engines.second = None
        <4>1. Len(stored) = 0
          BY <2>4
        <4> QED BY <1>2, <2>4, <4>1 DEF PrintedOK, EnginesOK
      <3>3. CASE message' = Rejected /\ UNCHANGED stored
        <4>1. MessageOK'
          BY <2>4, <3>3 DEF MessageOK
        <4> QED BY <1>2, <2>1, <3>3, <4>1 DEF CfgInv, StoredOK, PrintedOK, EnginesOK
      <3>4. CASE message' = Unchanged /\ UNCHANGED stored
        <4>1. MessageOK'
          BY <3>4 DEF MessageOK
        <4> QED BY <1>2, <2>1, <3>4, <4>1 DEF CfgInv, StoredOK, PrintedOK, EnginesOK
      <3>5. CASE fits /\ message' = None /\ stored' = Append(stored, p)
        <4>1. stored' = <<p>>
          BY <2>4, <3>5
        <4>2. stored' = <<FirstOf(doc)>> /\ Sent(doc)
          BY <3>1, <3>5, <4>1
        <4>3. StoredOK' /\ MessageOK'
          BY <2>1, <3>5, <4>2 DEF StoredOK, MessageOK
        <4>4. PrintedOK'
          BY <2>1, <3>2 DEF PrintedOK
        <4>5. engines' = engines /\ doc' = doc
          BY <2>1
        <4>6. EnginesOK'
          BY <1>2, <3>2, <4>5 DEF EnginesOK
        <4> QED BY <1>2, <2>1, <4>3, <4>4, <4>6 DEF CfgInv
      <3> QED BY <2>2, <3>3, <3>4, <3>5
    <2>5. CASE message = ToProto(PrintOf(doc)) /\ Len(stored) = 1 /\ exported # None
      <3>1. stored = <<FirstOf(doc)>> /\ Sent(doc)
        BY <1>2, <2>5, StoredLen
      <3>2. ValidateSandboxPolicy(SecondOf(doc)) /\ StaticFieldsUnchanged(FirstOf(doc), SecondOf(doc))
        BY <1>1, <3>1, SecondRevision DEF Sent
      <3>3. p = SecondOf(doc) /\ IsPolicy(p)
        BY <1>3, <2>5, <3>2, AcceptedIs DEF SecondOf
      <3> HIDE DEF p
      <3> DEFINE a == FirstOf(doc)
      <3>4. fits
        <4> HIDE DEF a
        <4>1. DOMAIN <<a>> = {1} /\ <<a>>[1] = a
          OBVIOUS
        <4> QED BY <3>1, <3>2, <3>3, <4>1 DEF a
      <3>5. CASE message' = Unchanged /\ UNCHANGED stored
        <4>1. MessageOK'
          BY <3>5 DEF MessageOK
        <4> QED BY <1>2, <2>1, <3>5, <4>1 DEF CfgInv, StoredOK, PrintedOK, EnginesOK
      <3>6. CASE message' = None /\ stored' = Append(stored, p)
        <4>7. stored = <<a>>
          BY <3>1
        <4> HIDE DEF a
        <4>1. stored' = <<a, p>>
          <5>1. Append(<<a>>, p) = <<a, p>>
            BY PairIs
          <5> QED BY <3>6, <4>7, <5>1
        <4>2. stored' = <<FirstOf(doc), SecondOf(doc)>> /\ Sent(doc)
          BY <3>1, <3>3, <4>1 DEF a
        <4>3. StoredOK' /\ MessageOK'
          BY <2>1, <3>6, <4>2 DEF StoredOK, MessageOK
        <4>4. stored' # <<>> /\ Len(stored') = 2
          BY <4>1
        <4>5. PrintedOK'
          BY <1>2, <2>1, <4>4 DEF PrintedOK
        <4>6. EnginesOK'
          BY <1>2, <2>1, <4>4 DEF EnginesOK
        <4> QED BY <1>2, <2>1, <4>3, <4>5, <4>6 DEF CfgInv
      <3> QED BY <2>2, <3>4, <3>5, <3>6
    <2> QED BY <1>2, <2>3, <2>4, <2>5 DEF MessageOK
  <1>8. CASE ExportPolicy
    <2>1. stored # <<>> /\ exported' = FromProto(stored[1]) /\ UNCHANGED <<doc, message, stored, engines>> /\ exported = None
      BY <1>8 DEF ExportPolicy
    <2>2. exported' = PrintOf(doc)
      BY <1>2, <2>1, StoredLen DEF PrintOf
    <2>3. PrintedOK'
      BY <2>1, <2>2 DEF PrintedOK
    <2>4. MessageOK'
      BY <1>2, <2>1 DEF MessageOK
    <2> QED BY <1>2, <2>1, <2>3, <2>4 DEF CfgInv, StoredOK, EnginesOK
  <1>9. CASE LoadRevision
    <2>1. UNCHANGED <<doc, message, stored, exported>>
      BY <1>9 DEF LoadRevision
    <2>2. CASE Len(stored) >= 1 /\ engines' = [engines EXCEPT !.first = LoadProto(stored[1])]
      <3> DEFINE v == LoadProto(FirstOf(doc))
      <3>1. stored # <<>>
        <4>1. stored = <<>> => Len(stored) = 0
          BY <1>2, StoredLen
        <4> QED BY <2>2, <4>1
      <3>2. engines' = [engines EXCEPT !.first = v]
        BY <1>2, <2>2, <3>1, StoredLen
      <3> HIDE DEF v
      <3>3. /\ engines'.first = v /\ engines'.file = engines.file /\ engines'.second = engines.second
            /\ engines' = [file |-> engines'.file, first |-> engines'.first, second |-> engines'.second]
        BY <1>2, <3>2 DEF EnginesOK
      <3>4. EnginesOK'
        BY <1>2, <2>1, <3>1, <3>3 DEF EnginesOK, v
      <3> QED BY <1>2, <2>1, <3>4 DEF CfgInv, StoredOK, PrintedOK, MessageOK
    <2>3. CASE Len(stored) = 2 /\ engines' = [engines EXCEPT !.second = LoadProto(stored[2])]
      <3> DEFINE v == LoadProto(SecondOf(doc))
                 a == FirstOf(doc)
                 b == SecondOf(doc)
      <3>1. stored = <<a, b>>
        BY <1>2, <2>3, StoredLen
      <3>2. stored[2] = b
        <4> HIDE DEF a, b
        <4> QED BY <3>1
      <3>3. engines' = [engines EXCEPT !.second = v]
        BY <2>3, <3>2
      <3> HIDE DEF v, a, b
      <3>4. /\ engines'.second = v /\ engines'.file = engines.file /\ engines'.first = engines.first
            /\ engines' = [file |-> engines'.file, first |-> engines'.first, second |-> engines'.second]
        BY <1>2, <3>3 DEF EnginesOK
      <3>5. EnginesOK'
        BY <1>2, <2>1, <2>3, <3>4 DEF EnginesOK, v
      <3> QED BY <1>2, <2>1, <3>5 DEF CfgInv, StoredOK, PrintedOK, MessageOK
    <2> QED BY <1>9, <2>2, <2>3 DEF LoadRevision
  <1>10. CASE UNCHANGED cfgVars
    BY <1>2, <1>10 DEF cfgVars, CfgInv, StoredOK, PrintedOK, MessageOK, EnginesOK
  <1> QED BY <1>5, <1>6, <1>7, <1>8, <1>9, <1>10 DEF CfgNext

\* A policy file that both the local loader and the gateway's way accept means
\* the same from disk and from the stored message, and the print of a stored
\* policy is accepted again and loaded alike, for every set of ports, hosts,
\* protocols, presets and matchers a file may have.
THEOREM PolicyMeansTheSame == CfgSpec => []ConfigSound
  <1>1. CfgInit => CfgInv
    <2> SUFFICES ASSUME CfgInit PROVE CfgInv
      OBVIOUS
    <2>1. doc \in Files /\ stored = <<>> /\ message = None /\ exported = None
      BY DEF CfgInit
    <2>2. engines.file = None /\ engines.first = None /\ engines.second = None
          /\ engines = [file |-> engines.file, first |-> engines.first, second |-> engines.second]
      <3>1. engines = [file |-> None, first |-> None, second |-> None]
        BY DEF CfgInit
      <3>2. engines.file = None /\ engines.first = None /\ engines.second = None
        BY <3>1
      <3> QED BY <3>1, <3>2
    <2> QED BY <2>1, <2>2 DEF CfgInv, StoredOK, PrintedOK, MessageOK, EnginesOK
  <1>2. CfgInv /\ [CfgNext]_cfgVars => CfgInv'
    BY CfgStep
  <1>3. CfgInv => ConfigSound
    BY CfgSafe
  <1> QED BY <1>1, <1>2, <1>3, PTL DEF CfgSpec
=============================================================================
