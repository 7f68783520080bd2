----------------------------- MODULE MCGateway -----------------------------
(***************************************************************************)
(* Small instances of components of the gateway and of what its clients do *)
(* with them.  They share no state, so a run is a run of one of them:      *)
(* `part` says which, and the others stay in an initial state.             *)
(***************************************************************************)
EXTENDS Providers, GatewaySettings, PolicyAdvisor, InferenceRoutes, PolicyWait,
        ObjectStore, MCPolicyHistory

VARIABLE part

\* Every provider's profile lists one protocol.
MCProtocols == [p \in InfProviders |-> {"openai_chat"}]

GatewayInit ==
    /\ part \in {"providers", "settings", "advisor", "routes", "wait", "store",
                  "history"}
    /\ ProvInit /\ SetInit /\ AdvInit /\ InfInit /\ WaitInit /\ ObjInit /\ Init
    /\ part # "wait" => revisions[1].policy = CHOOSE q \in SetPolicies \ BadPolicies : TRUE

GatewayNext ==
    /\ \/ /\ part = "providers" /\ ProvNext
          /\ UNCHANGED <<setVars, advVars, infVars, waitVars, objVars, vars>>
       \/ /\ part = "settings" /\ SetNext
          /\ UNCHANGED <<provVars, advVars, infVars, waitVars, objVars, vars>>
       \/ /\ part = "advisor" /\ AdvNext
          /\ UNCHANGED <<provVars, setVars, infVars, waitVars, objVars, vars>>
       \/ /\ part = "routes" /\ InfNext
          /\ UNCHANGED <<provVars, setVars, advVars, waitVars, objVars, vars>>
       \/ /\ part = "wait" /\ WaitNext
          /\ UNCHANGED <<provVars, setVars, advVars, infVars, objVars, vars>>
       \/ /\ part = "store" /\ ObjNext
          /\ UNCHANGED <<provVars, setVars, advVars, infVars, waitVars, vars>>
       \/ /\ part = "history" /\ Next
          /\ UNCHANGED <<provVars, setVars, advVars, infVars, waitVars, objVars>>
    /\ UNCHANGED part

GatewaySpec ==
    GatewayInit
        /\ [][GatewayNext]_<<part, provVars, setVars, advVars, infVars, waitVars,
              objVars, vars>>
=============================================================================
