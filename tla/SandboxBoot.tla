----------------------------- MODULE SandboxBoot -----------------------------
(***************************************************************************)
(* How the supervisor sets a sandbox up, runs its processes and takes it   *)
(* down again (sandbox lib.rs run_sandbox, process.rs, ssh.rs pre_exec,    *)
(* sandbox/linux/netns.rs, landlock.rs, seccomp.rs, bypass_monitor.rs):    *)
(* the policy, the sandbox user, the files, the CA, the network namespace  *)
(* command by command, the chain of packet rules rule by rule, the proxy,  *)
(* the monitor of direct connections, the SSH server, the entrypoint and   *)
(* one process of an SSH session, each of which passes through the same    *)
(* steps between fork and exec.  Every step may fail the way the code lets *)
(* it fail: fatally, or with the sandbox continuing in a degraded form.    *)
(*                                                                         *)
(* The network mode is always Proxy, as both ways of loading a policy set  *)
(* it.  The contents of certificates, of the environment and of the        *)
(* seccomp filter are left out.                                            *)
(***************************************************************************)
EXTENDS Integers, Sequences, FiniteSets

CONSTANTS
    MaxPending,   \* log entries of direct connections that wait for the monitor
    MaxRefused    \* packet rules that iptables refuses

ASSUME BootAssumption == MaxPending \in Nat

VARIABLES
    sup,      \* run_sandbox: its position, its configuration, what it has started
    users,    \* the users the container image has
    net,      \* the kernel: namespace, veth pair, descriptor, packet rules
    proc,     \* the entrypoint and a process of an SSH session
    kmsg      \* log entries of rejected direct connections, not read yet

sboxVars == <<sup, users, net, proc, kmsg>>

Procs == {"entry", "session"}
Users == {"sandbox", "other"}
Packets == {"proxy", "lo", "response", "tcp", "udp"}

----------------------------------------------------------------------------
(* The chain of packet rules *)

Rule(match, do, must) == [match |-> match, do |-> do, must |-> must]

\* install_bypass_rules_for: in this order, the LOG rules not required.
BypassRules ==
    <<Rule("proxy", "ACCEPT", TRUE), Rule("lo", "ACCEPT", TRUE), Rule("response", "ACCEPT", TRUE),
      Rule("tcp", "LOG", FALSE), Rule("tcp", "REJECT", TRUE),
      Rule("udp", "LOG", FALSE), Rule("udp", "REJECT", TRUE)>>

\* install_bypass_rules_for_v6: the proxy has no IPv6 address.
BypassRulesV6 == SubSeq(BypassRules, 2, Len(BypassRules))

\* A packet to the proxy, to loopback or of an open connection is TCP too.
Matches(rule, packet) == rule.match = packet \/ (rule.match = "tcp" /\ packet \in {"proxy", "lo", "response"})

\* No rule before the i-th decides about the packet.
Undecided(chain, i, packet) == \A j \in 1..(i - 1) : ~(Matches(chain[j], packet) /\ chain[j].do # "LOG")

\* The kernel: the first matching rule that decides, the chain's policy
\* (accept) when there is none.
Verdict(chain, packet) ==
    IF \E i \in 1..Len(chain) :
          chain[i].do = "REJECT" /\ Matches(chain[i], packet) /\ Undecided(chain, i, packet)
    THEN "REJECT" ELSE "ACCEPT"

Logged(chain, packet) ==
    \E i \in 1..Len(chain) :
        chain[i].do = "LOG" /\ Matches(chain[i], packet) /\ Undecided(chain, i, packet)

----------------------------------------------------------------------------
(* Starting up *)

NoSup ==
    [pc |-> "load", user |-> "", group |-> FALSE, compat |-> "best_effort", netns |-> FALSE, proxy |-> FALSE, monitor |-> FALSE,
     sshd |-> "off", managed |-> FALSE, pid |-> FALSE, code |-> "none"]

Proceed(pc) == sup' = [sup EXCEPT !.pc = pc]
Abort == sup' = [sup EXCEPT !.pc = "drop", !.code = "error"]

\* load_policy, from files or from the gateway.
LoadPolicy(user, group, compat) ==
    /\ sup.pc = "load"
    /\ sup' = [sup EXCEPT !.pc = "user", !.user = user, !.group = group, !.compat = compat]
    /\ UNCHANGED <<users, net, proc, kmsg>>

LoadPolicyFails ==
    /\ sup.pc = "load" /\ Abort
    /\ UNCHANGED <<users, net, proc, kmsg>>

\* validate_sandbox_user: the image must have the user "sandbox" unless the
\* policy names another one.
ValidateUser ==
    /\ sup.pc = "user"
    /\ IF sup.user \in {"", "sandbox"} /\ "sandbox" \notin users THEN Abort ELSE Proceed("env")
    /\ UNCHANGED <<users, net, proc, kmsg>>

\* The provider environment; a failure leaves it empty.
FetchProviderEnv ==
    /\ sup.pc = "env" /\ Proceed("files")
    /\ UNCHANGED <<users, net, proc, kmsg>>

\* prepare_filesystem: nothing without a configured user; otherwise the user
\* must exist, and a read_write path (rw) that is a link is refused; it is
\* created when missing and given to the user, either of which can fail.
PrepareFilesystem(rw, ok) ==
    /\ sup.pc = "files"
    /\ IF sup.user # "" /\ (sup.user \notin users \/ rw = "link" \/ ~ok) THEN Abort ELSE Proceed("ca")
    /\ UNCHANGED <<users, net, proc, kmsg>>

\* SandboxCa::generate and write_ca_files; a failure disables the
\* termination of TLS and nothing else.
GenerateCa ==
    /\ sup.pc = "ca" /\ Proceed("netns")
    /\ UNCHANGED <<users, net, proc, kmsg>>

----------------------------------------------------------------------------
(* The network namespace *)

\* NetworkNamespace::create: the commands in order.
NetCommands == <<"netns add", "link add", "link set netns", "addr add host", "link set host up",
                 "addr add sandbox", "link set sandbox up", "link set lo up", "route add default">>

IpCommand ==
    /\ sup.pc = "netns" /\ net.done < Len(NetCommands)
    /\ net' = [net EXCEPT !.done = @ + 1,
                          !.ns = @ \/ NetCommands[net.done + 1] = "netns add",
                          !.veth = @ \/ NetCommands[net.done + 1] = "link add"]
    /\ IF net.done + 1 = Len(NetCommands) THEN Proceed("fd") ELSE UNCHANGED sup
    /\ UNCHANGED <<users, proc, kmsg>>

\* The deletions a clean-up makes: link first, then namespace; each may
\* fail and the failure is ignored.
DeleteNetwork(links, oklink, okns) ==
    net' = [net EXCEPT !.veth = @ /\ ~(links /\ oklink), !.ns = @ /\ ~okns, !.fd = FALSE,
                       !.stuck = @ \/ ~okns \/ (links /\ ~oklink)]

\* A command fails: what exists is deleted and create returns the error.
IpCommandFails(oklink, okns) ==
    /\ sup.pc = "netns" /\ net.done < Len(NetCommands)
    /\ IF net.done = 0 THEN UNCHANGED net ELSE DeleteNetwork(net.done >= 2, oklink, okns)
    /\ Abort
    /\ UNCHANGED <<users, proc, kmsg>>

\* The descriptor for setns; without it the namespace is kept all the same.
OpenNsFd(ok) ==
    /\ sup.pc = "fd"
    /\ net' = [net EXCEPT !.fd = ok, !.opened = ok]
    /\ sup' = [sup EXCEPT !.pc = "rules", !.netns = TRUE]
    /\ UNCHANGED <<users, proc, kmsg>>

\* One rule of a chain: applied, or refused (at most MaxRefused of them); a
\* required one that is refused ends the installation.
MayRefuse(ok) == ok \/ net.refused < MaxRefused
AppendRule(chain, rules, ok) == IF ok THEN Append(chain, rules[net.at + 1]) ELSE chain
NextRule(rules, ok) == IF ok \/ ~rules[net.at + 1].must THEN (net.at + 1) % Len(rules) ELSE 0

\* install_bypass_rules: without iptables nothing is done; a refused rule is
\* an error for IPv4, after which the caller goes on with the rules that are
\* in place; IPv6 follows when ip6tables exists, and never fails.
InstallRule(ok, tables6) ==
    /\ sup.pc = "rules" /\ MayRefuse(ok)
    /\ net' = [net EXCEPT !.v4 = AppendRule(@, BypassRules, ok), !.at = NextRule(BypassRules, ok),
                          !.refused = IF ok THEN @ ELSE @ + 1,
                          !.complete = @ \/ (ok /\ net.at + 1 = Len(BypassRules))]
    /\ IF net'.at # 0 THEN UNCHANGED sup ELSE Proceed(IF ok /\ tables6 THEN "rules6" ELSE "proxy")
    /\ UNCHANGED <<users, proc, kmsg>>

InstallRuleV6(ok) ==
    /\ sup.pc = "rules6" /\ MayRefuse(ok)
    /\ net' = [net EXCEPT !.v6 = AppendRule(@, BypassRulesV6, ok), !.at = NextRule(BypassRulesV6, ok),
                          !.refused = IF ok THEN @ ELSE @ + 1]
    /\ IF net'.at # 0 THEN UNCHANGED sup ELSE Proceed("proxy")
    /\ UNCHANGED <<users, proc, kmsg>>

SkipRules ==
    /\ sup.pc = "rules" /\ net.at = 0
    /\ Proceed("proxy")
    /\ UNCHANGED <<users, net, proc, kmsg>>

----------------------------------------------------------------------------
(* Proxy, monitor, SSH server *)

\* The inference context and the proxy's listener on the veth address.
StartProxy(ok) ==
    /\ sup.pc = "proxy"
    /\ IF ok THEN sup' = [sup EXCEPT !.pc = "monitor", !.proxy = TRUE] ELSE Abort
    /\ UNCHANGED <<users, net, proc, kmsg>>

\* bypass_monitor::spawn: no monitor without dmesg.
StartMonitor(ok) ==
    /\ sup.pc = "monitor"
    /\ sup' = [sup EXCEPT !.pc = "ssh", !.monitor = ok]
    /\ UNCHANGED <<users, net, proc, kmsg>>

\* The SSH server is optional, needs the handshake secret, and runs in a
\* task of its own.
StartSsh(wanted, secret) ==
    /\ sup.pc = "ssh"
    /\ IF ~wanted THEN Proceed("spawn")
       ELSE IF ~secret THEN Abort
       ELSE sup' = [sup EXCEPT !.pc = "sshwait", !.sshd = "starting"]
    /\ UNCHANGED <<users, net, proc, kmsg>>

\* ssh_server_init binds the socket, or reports the error.
SshdBinds(ok) ==
    /\ sup.sshd = "starting" /\ sup.pc # "exited"
    /\ sup' = [sup EXCEPT !.sshd = IF ok THEN "ready" ELSE "failed"]
    /\ UNCHANGED <<users, net, proc, kmsg>>

\* The entrypoint waits for the socket, for at most ten seconds.
SshReady ==
    /\ sup.pc = "sshwait" /\ sup.sshd # "starting"
    /\ IF sup.sshd = "ready" THEN Proceed("spawn") ELSE Abort
    /\ UNCHANGED <<users, net, proc, kmsg>>

SshTimeout ==
    /\ sup.pc = "sshwait" /\ sup.sshd = "starting" /\ Abort
    /\ UNCHANGED <<users, net, proc, kmsg>>

----------------------------------------------------------------------------
(* Processes *)

NoProc == [pc |-> "none", ns |-> FALSE, uid |-> "root", files |-> "none", calls |-> FALSE]
Failed == [NoProc EXCEPT !.pc = "failed"]

SpawnEntry ==
    /\ sup.pc = "spawn"
    /\ Proceed("spawning")
    /\ proc' = [proc EXCEPT !["entry"].pc = "forked"]
    /\ UNCHANGED <<users, net, kmsg>>

\* A session's shell or command; sessions are served as soon as the server
\* has its socket.
SpawnSession ==
    /\ sup.sshd = "ready" /\ sup.pc # "exited" /\ proc["session"].pc = "none"
    /\ proc' = [proc EXCEPT !["session"].pc = "forked"]
    /\ UNCHANGED <<sup, users, net, kmsg>>

\* The steps between fork and exec, each as the set of its outcomes for the
\* process c.  First setns, skipped without a descriptor.
EnterNetns(c) == IF net.fd THEN {[c EXCEPT !.ns = TRUE], Failed} ELSE {c}

MUT_DropPrivileges(c) ==
    {Failed} \cup (IF sup.user = "" THEN {c} ELSE {[c EXCEPT !.uid = u] : u \in {sup.user} \cap users})

\* drop_privileges: with neither user nor group configured root becomes
\* "sandbox"; with a group alone only the group changes; the user must exist,
\* and the change is verified.
DropPrivileges(c) ==
    LET user == IF sup.user = "" THEN "sandbox" ELSE sup.user
    IN {Failed} \cup (IF sup.user = "" /\ sup.group THEN {c} ELSE {[c EXCEPT !.uid = u] : u \in {user} \cap users})

\* try_open_path over the policy's paths, which is never without one: under
\* hard_requirement each must open, otherwise it is skipped; that none opens
\* is an error, and so is a kernel that refuses the rules.
TryOpenPaths == {"all", "error"} \cup (IF sup.compat = "hard_requirement" THEN {} ELSE {"some"})

\* landlock::apply: the error is fatal only under hard_requirement.
ApplyLandlock(c) ==
    {IF opened # "error" THEN [c EXCEPT !.files = opened]
     ELSE IF sup.compat = "hard_requirement" THEN Failed ELSE c : opened \in TryOpenPaths}

\* seccomp::apply: no_new_privs and the filter; always fatal.
ApplySeccomp(c) == {[c EXCEPT !.calls = TRUE], Failed}

\* The steps in order; after them exec, which may fail too.
PreExec(c) ==
    LET After(cs, Step(_)) == UNION {IF d = Failed THEN {d} ELSE Step(d) : d \in cs}
    IN After(After(After(EnterNetns(c), DropPrivileges), ApplyLandlock), ApplySeccomp)

RunChild(p) ==
    /\ proc[p].pc = "forked"
    /\ \E c \in PreExec(proc[p]) \cup {Failed} :
          proc' = [proc EXCEPT ![p] = IF c = Failed THEN c ELSE [c EXCEPT !.pc = "running"]]
    /\ UNCHANGED <<sup, users, net, kmsg>>

\* spawn returns once the entrypoint executes; it is registered as a managed
\* child, then its pid is published to the proxy and the monitor.
EntrySpawned ==
    /\ sup.pc = "spawning" /\ proc["entry"].pc \in {"running", "zombie", "reaped"}
    /\ sup' = [sup EXCEPT !.pc = "publish", !.managed = TRUE]
    /\ UNCHANGED <<users, net, proc, kmsg>>

EntryFailed ==
    /\ sup.pc = "spawning" /\ proc["entry"].pc = "failed" /\ Abort
    /\ UNCHANGED <<users, net, proc, kmsg>>

PublishPid ==
    /\ sup.pc = "publish"
    /\ sup' = [sup EXCEPT !.pc = "wait", !.pid = TRUE]
    /\ UNCHANGED <<users, net, proc, kmsg>>

ProcessExits(p) ==
    /\ proc[p].pc = "running"
    /\ proc' = [proc EXCEPT ![p] = [NoProc EXCEPT !.pc = IF p = "entry" THEN "zombie" ELSE "reaped"]]
    /\ UNCHANGED <<sup, users, net, kmsg>>

\* The zombie reaper leaves managed children alone; the entrypoint is one
\* only after spawn has returned.
ReapZombie ==
    /\ proc["entry"].pc = "zombie" /\ ~sup.managed
    /\ proc' = [proc EXCEPT !["entry"].pc = "reaped"]
    /\ UNCHANGED <<sup, users, net, kmsg>>

\* handle.wait: the status, or the error when another wait took it.
WaitEntry ==
    /\ sup.pc = "wait" /\ proc["entry"].pc \in {"zombie", "reaped"}
    /\ sup' = [sup EXCEPT !.pc = "drop", !.managed = FALSE,
                          !.code = IF proc["entry"].pc = "zombie" THEN "status" ELSE "error"]
    /\ proc' = [proc EXCEPT !["entry"].pc = "reaped"]
    /\ UNCHANGED <<users, net, kmsg>>

\* The time limit, where one is set: SIGTERM, a pause, SIGKILL; exit code 124.
EntryTimeout ==
    /\ sup.pc = "wait" /\ proc["entry"].pc \in {"running", "zombie"}
    /\ sup' = [sup EXCEPT !.pc = "drop", !.code = "124"]
    /\ proc' = [proc EXCEPT !["entry"] = [NoProc EXCEPT !.pc = "zombie"]]
    /\ UNCHANGED <<users, net, kmsg>>

\* run_sandbox returns: the process handle is dropped (which kills a child
\* still running), then the namespace, if it was created; the process ends
\* with its code, and everything else with it.
DropHandles(oklink, okns) ==
    /\ sup.pc = "drop"
    /\ sup' = [NoSup EXCEPT !.pc = "exited", !.code = sup.code]
    /\ proc' = [p \in Procs |-> NoProc]
    /\ IF sup.netns THEN DeleteNetwork(TRUE, oklink, okns) ELSE UNCHANGED net
    /\ kmsg' = <<>>
    /\ UNCHANGED users

----------------------------------------------------------------------------
(* Direct connections and their monitor *)

\* A process inside the namespace connects without the proxy.
DirectAttempt(p, packet) ==
    /\ proc[p].pc = "running" /\ proc[p].ns /\ Len(kmsg) < MaxPending
    /\ Logged(net.v4, packet)
    /\ kmsg' = Append(kmsg, packet)
    /\ UNCHANGED <<sup, users, net, proc>>

\* The monitor reads an entry and hands a denial to the aggregator; the
\* process it names is looked up below the entrypoint's pid, for TCP only.
MonitorLine ==
    /\ sup.monitor /\ kmsg # <<>>
    /\ kmsg' = Tail(kmsg)
    /\ UNCHANGED <<sup, users, net, proc>>

----------------------------------------------------------------------------
SboxInit ==
    /\ sup = NoSup
    /\ users \in {{}, {"sandbox"}, {"other"}}
    /\ net = [done |-> 0, ns |-> FALSE, veth |-> FALSE, fd |-> FALSE, opened |-> FALSE, v4 |-> <<>>, v6 |-> <<>>,
              at |-> 0, complete |-> FALSE, refused |-> 0, stuck |-> FALSE]
    /\ proc = [p \in Procs |-> NoProc] /\ kmsg = <<>>

StartNext ==
    \/ \E u \in {"", "sandbox", "other"}, g \in BOOLEAN, c \in {"best_effort", "hard_requirement"} : LoadPolicy(u, g, c)
    \/ LoadPolicyFails \/ ValidateUser \/ FetchProviderEnv \/ GenerateCa \/ IpCommand \/ SkipRules
    \/ SshReady \/ SshTimeout
    \/ \E rw \in {"dir", "missing", "link"}, ok \in BOOLEAN : PrepareFilesystem(rw, ok)
    \/ \E ok \in BOOLEAN : OpenNsFd(ok) \/ InstallRuleV6(ok) \/ StartProxy(ok) \/ StartMonitor(ok) \/ SshdBinds(ok)
    \/ \E a, b \in BOOLEAN : IpCommandFails(a, b) \/ InstallRule(a, b) \/ StartSsh(a, b) \/ DropHandles(a, b)

ProcessNext ==
    \/ SpawnEntry \/ SpawnSession \/ EntrySpawned \/ EntryFailed \/ PublishPid \/ ReapZombie
    \/ WaitEntry \/ EntryTimeout \/ MonitorLine
    \/ \E p \in Procs : RunChild(p) \/ ProcessExits(p) \/ \E packet \in {"tcp", "udp"} : DirectAttempt(p, packet)

SboxNext == StartNext \/ ProcessNext

SboxSpec == SboxInit /\ [][SboxNext]_sboxVars

----------------------------------------------------------------------------
\* Every variable stays in its domain.
SboxTypeOK ==
    /\ sup.pc \in {"load", "user", "env", "files", "ca", "netns", "fd", "rules", "rules6", "proxy", "monitor", "ssh",
                   "sshwait", "spawn", "spawning", "publish", "wait", "drop", "exited"}
    /\ sup.sshd \in {"off", "starting", "ready", "failed"} /\ sup.code \in {"none", "status", "124", "error"}
    /\ users \subseteq Users /\ sup.user \in Users \cup {""}
    /\ net.done \in 0..Len(NetCommands) /\ net.at \in 0..Len(BypassRules)
    /\ \A p \in Procs : proc[p].uid \in Users \cup {"root"}
    /\ Len(kmsg) <= MaxPending

\* No process runs half confined (spawn_impl, install_pre_exec): whatever
\* failed on the way, a process of the sandbox that executes - entrypoint or
\* session - is not root (unless the policy names a group
\* and no user), has the seccomp filter, has its files restricted
\* where the policy makes that a requirement, is inside the namespace when
\* its descriptor could be opened, and the proxy it is to use is up.
Confined ==
    \A p \in Procs : proc[p].pc = "running" =>
        /\ (sup.user = "" => ~sup.group) => proc[p].uid # "root"
        /\ proc[p].calls
        /\ sup.compat = "hard_requirement" => proc[p].files = "all"
        /\ net.opened => proc[p].ns
        /\ sup.proxy

\* Nothing is left on the host (NetworkNamespace::create and its Drop): when
\* run_sandbox has returned, at whichever step it gave up, the namespace and
\* the veth pair are gone unless a deletion was refused.
NothingLeft == sup.pc = "exited" /\ ~net.stuck => ~net.ns /\ ~net.veth

\* The packet rules do what they are for in whatever state a failure leaves
\* them (install_bypass_rules is not fatal to the caller): the proxy,
\* loopback and open connections always pass, and when the installation
\* reports success every other connection is rejected.
ChainSound ==
    /\ \A packet \in {"proxy", "lo", "response"} : Verdict(net.v4, packet) = "ACCEPT"
    /\ \A packet \in {"lo", "response"} : Verdict(net.v6, packet) = "ACCEPT"
    /\ net.complete => \A packet \in {"tcp", "udp"} : Verdict(net.v4, packet) = "REJECT"

\* Whichever steps of the start fail, no process runs half confined, the packet
\* rules never cut off the proxy, and nothing is left on the host.
BootSound == SboxTypeOK /\ Confined /\ NothingLeft /\ ChainSound
=============================================================================
