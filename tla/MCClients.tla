----------------------------- MODULE MCClients -----------------------------
(***************************************************************************)
(* Small instances of the components on the user's machine.  They share no *)
(* state, so a run is a run of one of them: `part` says which, and the     *)
(* others stay in an initial state.                                        *)
(***************************************************************************)
EXTENDS CliSandbox, GatewayBootstrap, ImageDelivery, EdgeLogin, SshConfig, TuiApp,
        TuiLogView, EdgeTunnel

VARIABLE part

\* Two directories with the .dockerignore patterns that are told apart: a name,
\* a folder, a negation, and one that matches at any depth.
Pat(names, anywhere, folder, negated) ==
    [names |-> names, anywhere |-> anywhere, folder |-> folder, negated |-> negated]

MCContexts ==
    [c \in ImgClis |->
       IF c = "i1"
       THEN [files |-> {<<"a">>, <<"d", "a">>, <<"d", "k">>},
             patterns |-> <<Pat(<<"a">>, FALSE, FALSE, FALSE), Pat(<<"d", "a">>, FALSE, FALSE, TRUE)>>]
       ELSE [files |-> {<<"a", "k">>, <<"ab", "k">>, <<"d", "a", "k">>},
             patterns |-> <<Pat(<<"a">>, FALSE, TRUE, FALSE), Pat(<<"d", "*">>, TRUE, FALSE, TRUE)>>]]

\* The sandboxes of the TUI's gateways.
MCGatewaySandboxes == [g \in Gateways |-> IF g = "g1" THEN {"a"} ELSE {}]

ClientsInit ==
    /\ part \in {"sandbox", "deploy", "image", "login", "ssh", "tui", "logs", "tunnel"}
    /\ part # "deploy" => mode = CHOOSE m \in DeployModes : TRUE
    /\ part # "image" => clusterKind = "kind"
    /\ part # "login" => activeGateway = NoGateway
    /\ part # "tui" => gatewayName = CHOOSE g \in Gateways : TRUE
    /\ part # "logs" => selected = CHOOSE s \in LogSandboxes : TRUE
    /\ CliInit /\ BootInit /\ ImgInit /\ LoginInit /\ SshInit /\ TuiInit /\ LogInit /\
       TunInit

ClientsNext ==
    /\ \/ /\ part = "sandbox" /\ CliNext
          /\ UNCHANGED <<bootVars, imgVars, loginVars, sshVars, tuiVars, logVars,
                       tunVars>>
       \/ /\ part = "deploy" /\ BootNext
          /\ UNCHANGED <<cliVars, imgVars, loginVars, sshVars, tuiVars, logVars,
                       tunVars>>
       \/ /\ part = "image" /\ ImgNext
          /\ UNCHANGED <<cliVars, bootVars, loginVars, sshVars, tuiVars, logVars,
                       tunVars>>
       \/ /\ part = "login" /\ LoginNext
          /\ UNCHANGED <<cliVars, bootVars, imgVars, sshVars, tuiVars, logVars,
                       tunVars>>
       \/ /\ part = "ssh" /\ SshNext
          /\ UNCHANGED <<cliVars, bootVars, imgVars, loginVars, tuiVars, logVars,
                       tunVars>>
       \/ /\ part = "tui" /\ TuiNext
          /\ UNCHANGED <<cliVars, bootVars, imgVars, loginVars, sshVars, logVars,
                       tunVars>>
       \/ /\ part = "logs" /\ LogNext
          /\ UNCHANGED <<cliVars, bootVars, imgVars, loginVars, sshVars, tuiVars,
                       tunVars>>
       \/ /\ part = "tunnel" /\ TunNext
          /\ UNCHANGED <<cliVars, bootVars, imgVars, loginVars, sshVars, tuiVars,
                       logVars>>
    /\ UNCHANGED part

ClientsSpec ==
    ClientsInit
        /\ [][ClientsNext]_<<part, cliVars, bootVars, imgVars, loginVars, sshVars,
              tuiVars, logVars, tunVars>>
=============================================================================
