------------------------------ MODULE EdgeLogin ------------------------------
(***************************************************************************)
(* Registering an edge-authenticated gateway and logging in to it (cli     *)
(* run.rs gateway_add, gateway_login, gateway_use, gateway destroy;        *)
(* auth.rs browser_auth_flow and its callback server; main.rs              *)
(* resolve_gateway, apply_edge_auth; bootstrap metadata.rs and             *)
(* edge_token.rs; server auth.rs auth_connect).                            *)
(*                                                                         *)
(* Several commands run at once over the same configuration directory,     *)
(* whose files are written one at a time.  A login opens a callback server *)
(* on a port the operating system picks, a page of the gateway posts the   *)
(* token to that port, and the page can outlive the command: the port may  *)
(* by then belong to another login.                                        *)
(***************************************************************************)
EXTENDS Integers, Sequences, FiniteSets

CONSTANTS
    EdgeClis,      \* processes of the command line
    EdgeNames,     \* names of gateways
    EdgeUrls,      \* endpoints of gateways
    EdgePorts,     \* free local ports
    MaxLogins      \* logins ever started (each has its confirmation code)

ASSUME LoginAssumption == EdgeNames # {} /\ EdgeUrls # {} /\ MaxLogins \in Nat

VARIABLES
    entries,      \* metadata.json of each name: its endpoint
    token,     \* edge_token of each name
    legacy,    \* cf_token of each name
    activeGateway,    \* the active_gateway file
    commands,       \* the commands
    page,      \* the connect pages open in the browser
    logins     \* the logins started; a login's place stands for its code

loginVars == <<entries, token, legacy, activeGateway, commands, page, logins>>
files == <<entries, token, legacy, activeGateway>>

NoGateway == "-"
NoToken == [url |-> NoGateway, code |-> 0]
Tokens == [url : EdgeUrls \cup {NoGateway}, code : 0..MaxLogins]
IdleCommand == [pc |-> "idle", name |-> NoGateway, url |-> NoGateway, port |-> 0, code |-> 0,
            chan |-> "none", tok |-> NoToken]

Ended(c) == commands' = [commands EXCEPT ![c] = IdleCommand]
ServesCallback(c) == commands[c].pc \in {"login", "gone"}

----------------------------------------------------------------------------
(* Registering, selecting, removing *)

\* browser_auth_flow up to its wait: a port of its own, a fresh code.
BrowserAuthFlow(c, n, url) ==
    /\ Len(logins) < MaxLogins
    /\ logins' = Append(logins, [name |-> n, url |-> url])
    /\ \E port \in EdgePorts \ {commands[d].port : d \in {d \in EdgeClis : ServesCallback(d)}} :
          commands' = [commands EXCEPT ![c] = [IdleCommand EXCEPT !.pc = "login", !.name = n, !.url = url,
                                                    !.port = port, !.code = Len(logins) + 1, !.chan = "open"]]

\* `gateway add`: refused when the name is taken; the metadata is stored
\* before the login, and the gateway is made active.
GatewayAddCloud(c, n, url) ==
    /\ commands[c].pc = "idle" /\ entries[n] = NoGateway
    /\ entries' = [entries EXCEPT ![n] = url] /\ activeGateway' = n
    /\ BrowserAuthFlow(c, n, url)
    /\ UNCHANGED <<token, legacy, page>>

\* `gateway login`.
GatewayLogin(c, n) ==
    /\ commands[c].pc = "idle" /\ entries[n] # NoGateway
    /\ BrowserAuthFlow(c, n, entries[n])
    /\ UNCHANGED <<files, page>>

\* `gateway select`: the metadata is looked at, then the name is saved.
GatewaySelect(c, n) ==
    /\ commands[c].pc = "idle" /\ entries[n] # NoGateway
    /\ commands' = [commands EXCEPT ![c] = [IdleCommand EXCEPT !.pc = "select", !.name = n]]
    /\ UNCHANGED <<files, page, logins>>

SaveActive(c) ==
    /\ commands[c].pc = "select"
    /\ activeGateway' = commands[c].name
    /\ Ended(c)
    /\ UNCHANGED <<entries, token, legacy, page, logins>>

\* `gateway destroy` of an external registration: token files, metadata,
\* then the active gateway if it is this one.
RemoveRegistration(c, n) ==
    /\ commands[c].pc = "idle" /\ entries[n] # NoGateway
    /\ token' = [token EXCEPT ![n] = NoToken] /\ legacy' = [legacy EXCEPT ![n] = NoToken]
    /\ commands' = [commands EXCEPT ![c] = [IdleCommand EXCEPT !.pc = "remove", !.name = n]]
    /\ UNCHANGED <<entries, activeGateway, page, logins>>

RemoveMetadata(c) ==
    /\ commands[c].pc = "remove"
    /\ entries' = [entries EXCEPT ![commands[c].name] = NoGateway]
    /\ commands' = [commands EXCEPT ![c].pc = "clear"]
    /\ UNCHANGED <<token, legacy, activeGateway, page, logins>>

ClearActive(c) ==
    /\ commands[c].pc = "clear"
    /\ activeGateway' = IF activeGateway = commands[c].name THEN NoGateway ELSE activeGateway
    /\ Ended(c)
    /\ UNCHANGED <<entries, token, legacy, page, logins>>

----------------------------------------------------------------------------
(* The page and the callback server *)

\* auth_connect: the page of a gateway, once the edge has authenticated the
\* browser, holds the token, and the port and code of the login's URL.
AuthConnect(c) ==
    /\ commands[c].pc = "login"
    /\ page' = page \cup {[url |-> commands[c].url, port |-> commands[c].port, code |-> commands[c].code]}
    /\ UNCHANGED <<files, commands, logins>>

ClosePage(p) ==
    /\ page' = page \ {p}
    /\ UNCHANGED <<files, commands, logins>>

\* handle_callback_request: the page's origin and the code must be the
\* login's own.
MUT_Accepts(c, p) == p.url = commands[c].url
Accepts(c, p) == p.url = commands[c].url /\ p.code = commands[c].code

\* The sender is taken by whichever request comes first; one that is refused
\* takes it without sending, which ends the login.
Connect(p) ==
    /\ \E c \in EdgeClis :
          /\ ServesCallback(c) /\ commands[c].port = p.port
          /\ commands' = [commands EXCEPT
                ![c].chan = IF @ # "open" THEN @ ELSE IF Accepts(c, p) THEN "sent" ELSE "closed",
                ![c].tok = IF commands[c].chan = "open" /\ Accepts(c, p) THEN [url |-> p.url, code |-> p.code] ELSE @]
    /\ UNCHANGED <<files, page, logins>>

\* A request of something else on this machine that is not acceptable: no
\* origin, no JSON, an empty field.
StrayRequest(c) ==
    /\ ServesCallback(c) /\ commands[c].chan = "open"
    /\ commands' = [commands EXCEPT ![c].chan = "closed"]
    /\ UNCHANGED <<files, page, logins>>

\* browser_auth_flow returns the token, which is stored under the name.
StoreEdgeToken(c) ==
    /\ commands[c].pc = "login" /\ commands[c].chan = "sent"
    /\ token' = [token EXCEPT ![commands[c].name] = commands[c].tok]
    /\ Ended(c)
    /\ UNCHANGED <<entries, legacy, activeGateway, page, logins>>

\* The channel was closed, or two minutes have passed (a token that is there
\* too may lose the race) and the receiver is dropped; the server answers until
\* the process ends.
LoginFails(c) ==
    /\ commands[c].pc = "login"
    /\ commands' = [commands EXCEPT ![c] = [IdleCommand EXCEPT !.pc = "gone", !.port = commands[c].port, !.chan = "closed"]]
    /\ UNCHANGED <<files, page, logins>>

CliEnds(c) ==
    /\ commands[c].pc = "gone"
    /\ Ended(c)
    /\ UNCHANGED <<files, page, logins>>

----------------------------------------------------------------------------
(* Using a gateway *)

\* resolve_gateway: the active gateway's metadata.
ResolveGateway(c) ==
    /\ commands[c].pc = "idle" /\ activeGateway # NoGateway /\ entries[activeGateway] # NoGateway
    /\ commands' = [commands EXCEPT ![c] = [IdleCommand EXCEPT !.pc = "resolved", !.name = activeGateway]]
    /\ UNCHANGED <<files, page, logins>>

\* apply_edge_auth: the metadata is read again, then the token, from its old
\* place if there is none in the new one.  The calls that follow carry it and
\* change nothing here.
ApplyEdgeAuth(c) ==
    /\ commands[c].pc = "resolved"
    /\ LET n == commands[c].name
       IN IF entries[n] = NoGateway \/ token[n] # NoToken \/ legacy[n] = NoToken THEN Ended(c)
          ELSE commands' = [commands EXCEPT ![c].pc = "migrate", ![c].tok = legacy[n]]
    /\ UNCHANGED <<files, page, logins>>

\* load_edge_token writes the token to its new place, then removes the old
\* file.
MigrateToken(c) ==
    /\ commands[c].pc = "migrate"
    /\ token' = [token EXCEPT ![commands[c].name] = commands[c].tok]
    /\ commands' = [commands EXCEPT ![c].pc = "unlink", ![c].tok = NoToken]
    /\ UNCHANGED <<entries, legacy, activeGateway, page, logins>>

RemoveLegacy(c) ==
    /\ commands[c].pc = "unlink"
    /\ legacy' = [legacy EXCEPT ![commands[c].name] = NoToken]
    /\ Ended(c)
    /\ UNCHANGED <<entries, token, activeGateway, page, logins>>

----------------------------------------------------------------------------
\* A first gateway may be there from before the token file was renamed; names
\* and endpoints are alike, so it does not matter which it has.
FirstName == CHOOSE n \in EdgeNames : TRUE
FirstUrl == CHOOSE u \in EdgeUrls : TRUE

LoginInit ==
    /\ \E old \in BOOLEAN :
          /\ entries = [m \in EdgeNames |-> IF old /\ m = FirstName THEN FirstUrl ELSE NoGateway]
          /\ legacy = [m \in EdgeNames |-> IF old /\ m = FirstName THEN [url |-> FirstUrl, code |-> 0] ELSE NoToken]
          /\ activeGateway = IF old THEN FirstName ELSE NoGateway
    /\ token = [m \in EdgeNames |-> NoToken]
    /\ commands = [c \in EdgeClis |-> IdleCommand] /\ page = {} /\ logins = <<>>

LoginNext ==
    \/ \E c \in EdgeClis :
          \/ \E n \in EdgeNames : GatewayLogin(c, n) \/ GatewaySelect(c, n) \/ RemoveRegistration(c, n)
          \/ \E n \in EdgeNames, u \in EdgeUrls : GatewayAddCloud(c, n, u)
          \/ SaveActive(c) \/ RemoveMetadata(c) \/ ClearActive(c)
          \/ AuthConnect(c) \/ StrayRequest(c) \/ StoreEdgeToken(c) \/ LoginFails(c) \/ CliEnds(c)
          \/ ResolveGateway(c) \/ ApplyEdgeAuth(c) \/ MigrateToken(c) \/ RemoveLegacy(c)
    \/ \E p \in page : Connect(p) \/ ClosePage(p)

LoginSpec == LoginInit /\ [][LoginNext]_loginVars

----------------------------------------------------------------------------
\* Every variable stays in its domain.
LoginTypeOK ==
    /\ entries \in [EdgeNames -> EdgeUrls \cup {NoGateway}] /\ activeGateway \in EdgeNames \cup {NoGateway}
    /\ token \in [EdgeNames -> Tokens] /\ legacy \in [EdgeNames -> Tokens]
    /\ Len(logins) <= MaxLogins
    /\ \A c \in EdgeClis : commands[c].chan \in {"none", "open", "sent", "closed"} /\ commands[c].tok \in Tokens

\* A token on disk belongs to a login of its name (handle_callback_request,
\* store_edge_token): whatever pages of earlier logins are still open and
\* whichever port a login was given, the token stored under a name by a login
\* was sent by the page that showed that login's code, for a login to that
\* name, by the gateway that login was for.
TokenOfItsLogin ==
    \A n \in EdgeNames : token[n].code # 0 => logins[token[n].code] = [name |-> n, url |-> token[n].url]

\* However logins, stale pages, selections and removals interleave, the state
\* stays well formed and a stored token is the one of its own login.
LoginSound == LoginTypeOK /\ TokenOfItsLogin
=============================================================================
