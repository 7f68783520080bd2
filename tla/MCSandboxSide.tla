----------------------------- MODULE MCSandboxSide -----------------------------
(***************************************************************************)
(* Small instances of components inside a sandbox and of the streams to and*)
(* from it.  They share no state, so a run is a run of one of them: `part` *)
(* says which, and the others stay in an initial state.                    *)
(***************************************************************************)
EXTENDS LogStream, PolicyConfig, L7Framing, SandboxBoot, ExecSession

VARIABLE part

\* Port lists and query matchers of the policy files: absent, empty, the value a
\* missing scalar has, and ordinary ones.
MCPortLists == {<<>>, <<0>>, <<443>>, <<443, 80>>}
MCQueries ==
    {NoMatcher, StringMatcher("v"), StringMatcher(""), AnyMatcher(<<>>), AnyMatcher(<<"v">>), GlobMatcher("v")}
MCFile == CHOOSE f \in Files : TRUE

SideInit ==
    /\ part \in {"stream", "config", "framing", "boot", "exec"}
    /\ part # "config" => doc = MCFile
    /\ part # "framing" => resolver = TRUE /\ inspected = TRUE
    /\ part # "boot" => users = {}
    /\ StreamInit /\ CfgInit /\ L7Init /\ SboxInit /\ ExecInit

SideNext ==
    /\ \/ /\ part = "stream" /\ StreamNext
          /\ UNCHANGED <<cfgVars, l7Vars, sboxVars, execVars>>
       \/ /\ part = "config" /\ CfgNext
          /\ UNCHANGED <<streamVars, l7Vars, sboxVars, execVars>>
       \/ /\ part = "framing" /\ L7Next
          /\ UNCHANGED <<streamVars, cfgVars, sboxVars, execVars>>
       \/ /\ part = "boot" /\ SboxNext
          /\ UNCHANGED <<streamVars, cfgVars, l7Vars, execVars>>
       \/ /\ part = "exec" /\ ExecNext
          /\ UNCHANGED <<streamVars, cfgVars, l7Vars, sboxVars>>
    /\ UNCHANGED part

SideSpec ==
    SideInit
        /\ [][SideNext]_<<part, streamVars, cfgVars, l7Vars, sboxVars, execVars>>
=============================================================================
