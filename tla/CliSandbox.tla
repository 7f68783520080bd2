----------------------------- MODULE CliSandbox -----------------------------
(***************************************************************************)
(* The openshell command line's sandbox commands and the port forwards it  *)
(* shares with the TUI: `sandbox create` (check the port, prepare, create, *)
(* watch until Ready, upload, forward, run the session, delete what was    *)
(* not to be kept), `sandbox delete`, `forward start` and `forward stop`.  *)
(* Several commands run at a time on one machine.  What they share is the  *)
(* gateway's sandboxes, the machine's processes and ports, and the pid     *)
(* files <name>-<port>.pid, which outlive the processes they name.         *)
(*                                                                         *)
(* A command is a program counter and its locals.  An id tells the         *)
(* sandboxes that have had a name apart; 0 is "none" for ids, ports, pids. *)
(***************************************************************************)
EXTENDS Naturals, FiniteSets

CONSTANTS
    Clis,        \* commands that may run at a time
    CliNames,    \* sandbox names
    CliPorts,    \* local ports, positive numbers
    CliPids,     \* process ids, positive numbers
    MaxBoxId,    \* bound on sandboxes ever created
    MaxTries     \* attempts CONNECT makes within MAX_CONNECT_WAIT

ASSUME CliAssumption ==
    /\ CliNames # {} /\ MaxBoxId \in Nat
    /\ \E m \in CliPids \cup {0} : CliPids \subseteq 1..m

VARIABLES
    box,       \* the gateway: name -> [id, phase]
    boxIds,    \* ids handed out
    proc,      \* the machine: pid -> [kind, id, port]
    pidFile,   \* forwards/<name>-<port>.pid -> [pid, id]
    lastBox,   \* the gateway's last_sandbox file: a name or NoName
    cli        \* command -> its program counter and locals

cliVars == <<box, boxIds, proc, pidFile, lastBox, cli>>

NoName == ""
NoBox == [id |-> 0, phase |-> "None"]
NoFile == [pid |-> 0, id |-> 0]
Dead == [kind |-> "dead", id |-> 0, port |-> 0]
IdleCli == [op |-> "none", pc |-> "idle", name |-> CHOOSE n \in CliNames : TRUE, port |-> 0,
            keep |-> FALSE, made |-> 0, id |-> 0, sawNonReady |-> FALSE, last |-> "None",
            tries |-> 0, ran |-> FALSE, todo |-> {}, target |-> 0]

CliInit ==
    /\ box = [n \in CliNames |-> NoBox]
    /\ boxIds = 0
    /\ proc = [p \in CliPids |-> Dead]
    /\ pidFile = [k \in CliNames \X CliPorts |-> NoFile]
    /\ lastBox = NoName
    /\ cli = [c \in Clis |-> IdleCli]

At(c, op, pc) == cli[c].op = op /\ cli[c].pc = pc
Go(c, pc) == cli' = [cli EXCEPT ![c].pc = pc]
\* The error is printed and the process ends; the terminal is free for the next command.
Fail(c) == cli' = [cli EXCEPT ![c] = IdleCli]

\* sandbox_should_persist
Persists(r) == r.keep \/ r.port # 0

\* The command succeeds and ends.  A create that promised to leave nothing stays to be looked at.
Done(c) == cli' = [cli EXCEPT ![c] = IF cli[c].op = "create" /\ ~Persists(cli[c])
                                     THEN [IdleCli EXCEPT !.op = "create", !.pc = "done", !.made = cli[c].made,
                                                          !.ran = cli[c].ran]
                                     ELSE IdleCli]

-----------------------------------------------------------------------------
(* Processes, ports and pid files (openshell-core forward.rs) *)

Alive(p) == p \in CliPids /\ proc[p].kind # "dead"
Listening(port) == \E p \in CliPids : proc[p].kind # "dead" /\ proc[p].port = port

\* check_port_available: the bind test and lsof.
PortAvailable(port) == ~Listening(port)

\* pid_matches_forward: the command line is an ssh forward of that port to that sandbox.
PidMatchesForward(p, port, id) ==
    proc[p].kind = "ssh" /\ proc[p].port = port /\ proc[p].id = id

\* find_ssh_forward_pid: the last line pgrep prints.
FindSshForwardPid(id, port) ==
    LET S == {p \in CliPids : PidMatchesForward(p, port, id)}
    IN  IF S = {} THEN 0 ELSE CHOOSE p \in S : \A q \in S : q <= p

\* find_forward_by_port: the first pid file read_dir lists for the port.
FindForwardByPort(port) == {n \in CliNames : pidFile[<<n, port>>].pid # 0}

\* stop_forward up to its pause: a live process is killed when it is the forward that was
\* recorded; the file of a process that is something else by now is removed without a kill.
KillForward(n, port) ==
    LET f == pidFile[<<n, port>>]
    IN  proc' = IF Alive(f.pid) /\ PidMatchesForward(f.pid, port, f.id)
                THEN [proc EXCEPT ![f.pid] = Dead] ELSE proc

RemovePidFile(n, port) == pidFile' = [pidFile EXCEPT ![<<n, port>>] = NoFile]

-----------------------------------------------------------------------------
(* Commands as the user starts them *)

StartCreate(c) ==
    /\ cli[c].pc = "idle"
    /\ \E n \in CliNames, port \in CliPorts \cup {0}, keep \in BOOLEAN :
          cli' = [cli EXCEPT ![c] = [IdleCli EXCEPT !.op = "create", !.name = n, !.port = port,
                                                    !.keep = keep, !.pc = "check"]]
    /\ UNCHANGED <<box, boxIds, proc, pidFile, lastBox>>

StartForward(c) ==
    /\ cli[c].pc = "idle"
    /\ \E n \in CliNames, port \in CliPorts :
          cli' = [cli EXCEPT ![c] = [IdleCli EXCEPT !.op = "forward", !.name = n, !.port = port,
                                                    !.pc = "fwdcheck"]]
    /\ UNCHANGED <<box, boxIds, proc, pidFile, lastBox>>

\* `forward stop <port> [name]`: without a name, the owner is looked up by port.
StartStop(c) ==
    /\ cli[c].pc = "idle"
    /\ \E n \in CliNames, port \in CliPorts :
          /\ pidFile[<<n, port>>].pid # 0
          /\ cli' = [cli EXCEPT ![c] = [IdleCli EXCEPT !.op = "stop", !.name = n,
                                                       !.todo = {port}, !.pc = "kill"]]
    /\ UNCHANGED <<box, boxIds, proc, pidFile, lastBox>>

StartDelete(c) ==
    /\ cli[c].pc = "idle"
    /\ \E n \in CliNames :
          cli' = [cli EXCEPT ![c] = [IdleCli EXCEPT !.op = "delete", !.name = n, !.pc = "stopall"]]
    /\ UNCHANGED <<box, boxIds, proc, pidFile, lastBox>>

Exit(c) ==
    /\ cli[c].pc = "done"
    /\ cli' = [cli EXCEPT ![c] = IdleCli]
    /\ UNCHANGED <<box, boxIds, proc, pidFile, lastBox>>

-----------------------------------------------------------------------------
(* sandbox create *)

\* The port is checked before anything is created.
CheckPortFirst(c) ==
    /\ At(c, "create", "check")
    /\ IF cli[c].port = 0 \/ PortAvailable(cli[c].port) THEN Go(c, "prepare") ELSE Fail(c)
    /\ UNCHANGED <<box, boxIds, proc, pidFile, lastBox>>

\* Connect or bootstrap, resolve the image, ensure the providers, load the policy: each may fail.
Prepare(c) ==
    /\ At(c, "create", "prepare")
    /\ Go(c, "request") \/ Fail(c)
    /\ UNCHANGED <<box, boxIds, proc, pidFile, lastBox>>

\* CreateSandbox; the answer carries the phase the gateway starts every sandbox in.
RequestSandbox(c) ==
    LET n == cli[c].name
    IN  /\ At(c, "create", "request")
        /\ \/ /\ box[n].id = 0 /\ boxIds < MaxBoxId
              /\ boxIds' = boxIds + 1
              /\ box' = [box EXCEPT ![n] = [id |-> boxIds + 1, phase |-> "Provisioning"]]
              /\ cli' = [cli EXCEPT ![c].pc = "watch", ![c].made = boxIds + 1,
                                    ![c].last = "Provisioning", ![c].sawNonReady = TRUE]
              /\ lastBox' = IF Persists(cli[c]) THEN n ELSE lastBox        \* save_last_sandbox
           \/ Fail(c) /\ UNCHANGED <<box, boxIds, lastBox>>  \* AlreadyExists, or the call fails
        /\ UNCHANGED <<proc, pidFile>>

PhaseSeen(c) == IF box[cli[c].name].id = cli[c].made THEN box[cli[c].name].phase ELSE "None"

WatchOver(c) == cli' = [cli EXCEPT ![c].pc = "upload", ![c].last = "None", ![c].sawNonReady = FALSE]

\* One event of the watch: Ready ends the wait once a non-Ready phase was seen.
WatchEvent(c) ==
    LET saw == cli[c].sawNonReady \/ PhaseSeen(c) # "Ready"
    IN  /\ At(c, "create", "watch")
        /\ PhaseSeen(c) \notin {"None", cli[c].last}
        /\ IF saw /\ PhaseSeen(c) = "Ready"
           THEN WatchOver(c)
           ELSE cli' = [cli EXCEPT ![c].last = PhaseSeen(c), ![c].sawNonReady = saw]
        /\ UNCHANGED <<box, boxIds, proc, pidFile, lastBox>>

\* The stream ends, with the last phase deciding, or it fails, or 300 s pass.
WatchEnds(c) ==
    /\ At(c, "create", "watch")
    /\ \/ cli[c].last = "Ready" /\ WatchOver(c)
       \/ Fail(c)
    /\ UNCHANGED <<box, boxIds, proc, pidFile, lastBox>>

\* The files, if any, are uploaded over ssh; a failure ends the command, the sandbox stays.
Upload(c) ==
    /\ At(c, "create", "upload")
    /\ Go(c, IF cli[c].port = 0 THEN "run" ELSE "fwdcheck") \/ Fail(c)
    /\ UNCHANGED <<box, boxIds, proc, pidFile, lastBox>>

\* The editor is opened and the command returns at once, or the session is prepared.
RunSession(c) ==
    /\ At(c, "create", "run")
    /\ \/ Done(c)                                                     \* --editor
       \/ Fail(c)                                                     \* the editor is missing
       \/ /\ box[cli[c].name].id # 0                                  \* ssh_session_config
          /\ cli' = [cli EXCEPT ![c].id = box[cli[c].name].id, ![c].pc = "connect",
                                ![c].ran = TRUE]
       \/ cli' = [cli EXCEPT ![c].pc = "finalize", ![c].ran = TRUE]   \* no session: an error
    /\ UNCHANGED <<box, boxIds, proc, pidFile, lastBox>>

ConnectOver(c, pc) == cli' = [cli EXCEPT ![c].pc = pc, ![c].tries = 0, ![c].id = 0]

\* sandbox_ssh_proxy: 412 (not Ready) is tried again with backoff, any other failure is final.
ProxyConnect(c) ==
    LET b == box[cli[c].name]
    IN  /\ At(c, "create", "connect")
        /\ \/ b.id = cli[c].id /\ b.phase = "Ready" /\ ConnectOver(c, "session")
           \/ /\ b.id = cli[c].id /\ b.phase # "Ready" /\ cli[c].tries < MaxTries
              /\ cli' = [cli EXCEPT ![c].tries = @ + 1]
           \/ /\ b.id # cli[c].id \/ cli[c].tries = MaxTries
              /\ ConnectOver(c, "finalize")
        /\ UNCHANGED <<box, boxIds, proc, pidFile, lastBox>>

\* A session that is to persist takes over the process (exec); any other is waited for.
SessionEnds(c) ==
    /\ At(c, "create", "session")
    /\ IF Persists(cli[c]) THEN Done(c) ELSE Go(c, "finalize")
    /\ UNCHANGED <<box, boxIds, proc, pidFile, lastBox>>

MUT_Finalize(c) ==
    /\ At(c, "create", "finalize")
    /\ IF Persists(cli[c]) \/ box[cli[c].name].phase # "Ready" THEN Done(c) ELSE Go(c, "stopall")
    /\ UNCHANGED <<box, boxIds, proc, pidFile, lastBox>>

\* finalize_sandbox_create_session: what was not to be kept is deleted, by name.
Finalize(c) ==
    /\ At(c, "create", "finalize")
    /\ IF Persists(cli[c]) THEN Done(c) ELSE Go(c, "stopall")
    /\ UNCHANGED <<box, boxIds, proc, pidFile, lastBox>>

-----------------------------------------------------------------------------
(* Forwards: forward start, and the forward of sandbox create *)

ForwardCheck(c) ==
    /\ cli[c].pc = "fwdcheck"
    /\ IF PortAvailable(cli[c].port) THEN Go(c, "fwdsession") ELSE Fail(c)
    /\ UNCHANGED <<box, boxIds, proc, pidFile, lastBox>>

\* ssh_session_config: the name is resolved to the id it has now.
ForwardSession(c) ==
    /\ cli[c].pc = "fwdsession"
    /\ \/ /\ box[cli[c].name].id # 0
          /\ cli' = [cli EXCEPT ![c].id = box[cli[c].name].id, ![c].pc = "fwdssh"]
       \/ Fail(c)
    /\ UNCHANGED <<box, boxIds, proc, pidFile, lastBox>>

\* ssh -f -N -L, ExitOnForwardFailure: a port taken meanwhile, or a failed CONNECT, ends it.
ForwardSsh(c) ==
    /\ cli[c].pc = "fwdssh"
    /\ \/ /\ PortAvailable(cli[c].port) /\ box[cli[c].name].id = cli[c].id
          /\ \E p \in CliPids :
                /\ ~Alive(p)
                /\ proc' = [proc EXCEPT ![p] = [kind |-> "ssh", id |-> cli[c].id, port |-> cli[c].port]]
          /\ Go(c, "fwdrecord")
       \/ Fail(c) /\ UNCHANGED proc
    /\ UNCHANGED <<box, boxIds, pidFile, lastBox>>

\* The backgrounded process is searched for and its pid written, or it goes untracked.
ForwardRecord(c) ==
    LET p == FindSshForwardPid(cli[c].id, cli[c].port)
    IN  /\ cli[c].pc = "fwdrecord"
        /\ pidFile' = IF p = 0 THEN pidFile
                      ELSE [pidFile EXCEPT ![<<cli[c].name, cli[c].port>>] = [pid |-> p, id |-> cli[c].id]]
        /\ IF cli[c].op = "create" THEN Go(c, "run") ELSE Done(c)
        /\ UNCHANGED <<box, boxIds, proc, lastBox>>

-----------------------------------------------------------------------------
(* Stopping forwards, deleting sandboxes *)

\* stop_forwards_for_sandbox: the files of the sandbox are listed, then stopped one by one.
ListForwards(c) ==
    /\ cli[c].pc = "stopall"
    /\ cli' = [cli EXCEPT ![c].pc = "kill",
                          ![c].todo = {p \in CliPorts : pidFile[<<cli[c].name, p>>].pid # 0}]
    /\ UNCHANGED <<box, boxIds, proc, pidFile, lastBox>>

StopKill(c) ==
    /\ cli[c].pc = "kill"
    /\ \E port \in cli[c].todo :
          /\ KillForward(cli[c].name, port)
          /\ cli' = [cli EXCEPT ![c].pc = "remove", ![c].target = port]
    /\ UNCHANGED <<box, boxIds, pidFile, lastBox>>

\* 200 ms later the file is removed, whatever it names by then.
StopRemove(c) ==
    LET port == cli[c].target
    IN  /\ cli[c].pc = "remove"
        /\ RemovePidFile(cli[c].name, port)
        /\ cli' = [cli EXCEPT ![c].pc = "kill", ![c].todo = @ \ {port}, ![c].target = 0]
        /\ UNCHANGED <<box, boxIds, proc, lastBox>>

StopDone(c) ==
    /\ cli[c].pc = "kill" /\ cli[c].todo = {}
    /\ IF cli[c].op = "stop" THEN Done(c) ELSE Go(c, "delete")
    /\ UNCHANGED <<box, boxIds, proc, pidFile, lastBox>>

\* DeleteSandbox by name: deleted, not found, or the call fails.
DeleteBox(c) ==
    /\ cli[c].pc = "delete"
    /\ \/ /\ box' = [box EXCEPT ![cli[c].name] = NoBox]
          /\ lastBox' = IF box[cli[c].name].id # 0 /\ lastBox = cli[c].name THEN NoName ELSE lastBox
          /\ Done(c)
       \/ Fail(c) /\ UNCHANGED <<box, lastBox>>
    /\ UNCHANGED <<boxIds, proc, pidFile>>

-----------------------------------------------------------------------------
(* The gateway and the machine *)

\* The gateway's controller moves the phase.
BoxPhase ==
    /\ \E n \in CliNames, ph \in {"Provisioning", "Ready", "Error"} :
          /\ box[n].id # 0 /\ box[n].phase # ph
          /\ box' = [box EXCEPT ![n].phase = ph]
    /\ UNCHANGED <<boxIds, proc, pidFile, lastBox, cli>>

\* Any process ends (the network drops, the sandbox goes, the machine restarts) ...
ProcDies ==
    /\ \E p \in CliPids : Alive(p) /\ proc' = [proc EXCEPT ![p] = Dead]
    /\ UNCHANGED <<box, boxIds, pidFile, lastBox, cli>>

\* ... and its pid is given to a process that has nothing to do with openshell.
PidReused ==
    /\ \E p \in CliPids, port \in CliPorts \cup {0} :
          /\ ~Alive(p)
          /\ port = 0 \/ PortAvailable(port)
          /\ proc' = [proc EXCEPT ![p] = [kind |-> "other", id |-> 0, port |-> port]]
    /\ UNCHANGED <<box, boxIds, pidFile, lastBox, cli>>

CliNext ==
    \/ \E c \in Clis :
          \/ StartCreate(c) \/ StartForward(c) \/ StartStop(c) \/ StartDelete(c) \/ Exit(c)
          \/ CheckPortFirst(c) \/ Prepare(c) \/ RequestSandbox(c) \/ WatchEvent(c) \/ WatchEnds(c)
          \/ Upload(c) \/ RunSession(c) \/ ProxyConnect(c) \/ SessionEnds(c) \/ Finalize(c)
          \/ ForwardCheck(c) \/ ForwardSession(c) \/ ForwardSsh(c) \/ ForwardRecord(c)
          \/ ListForwards(c) \/ StopKill(c) \/ StopRemove(c) \/ StopDone(c) \/ DeleteBox(c)
    \/ BoxPhase \/ ProcDies \/ PidReused

CliSpec == CliInit /\ [][CliNext]_cliVars

-----------------------------------------------------------------------------
(* Properties *)

CliPcs == {"idle", "check", "prepare", "request", "watch", "upload", "run", "connect", "session",
           "finalize", "fwdcheck", "fwdsession", "fwdssh", "fwdrecord", "kill", "remove",
           "stopall", "delete", "done"}

CliTypeOK ==
    /\ box \in [CliNames -> [id : 0..MaxBoxId, phase : {"None", "Provisioning", "Ready", "Error"}]]
    /\ boxIds \in 0..MaxBoxId /\ lastBox \in CliNames \cup {NoName}
    /\ proc \in [CliPids -> [kind : {"dead", "ssh", "other"}, id : 0..MaxBoxId, port : CliPorts \cup {0}]]
    /\ pidFile \in [CliNames \X CliPorts -> [pid : CliPids \cup {0}, id : 0..MaxBoxId]]
    /\ \A c \in Clis :
          /\ cli[c].pc \in CliPcs /\ cli[c].op \in {"none", "create", "forward", "stop", "delete"}
          /\ cli[c].name \in CliNames /\ cli[c].port \in CliPorts \cup {0}
          /\ {cli[c].made, cli[c].id} \subseteq 0..MaxBoxId

\* A create that ran its session to the end and reported success leaves nothing behind unless
\* it was asked to keep it (finalize_sandbox_create_session).  `--editor` returns before it.
EphemeralRemoved ==
    \A c \in Clis :
        At(c, "create", "done") /\ cli[c].ran /\ ~Persists(cli[c])
            => \A n \in CliNames : box[n].id # cli[c].made

\* Commands of several terminals may race for names, ports and pid files: the
\* state stays well formed and an ephemeral sandbox is gone when the create
\* that made it reports success.
CommandsSound == CliTypeOK /\ EphemeralRemoved
=============================================================================
