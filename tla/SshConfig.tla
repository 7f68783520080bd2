----------------------------- MODULE SshConfig -----------------------------
(***************************************************************************)
(* `sandbox connect --editor` and the two ssh configurations it keeps      *)
(* (cli ssh.rs): ~/.ssh/config, which belongs to the user and only gets an *)
(* Include of OpenShell's own file, and that file, which gets one Host     *)
(* block per sandbox.  Each is read, edited as a list of lines and written *)
(* back; between two commands the user edits ~/.ssh/config.  What ssh      *)
(* makes of the files is the reference the editing is checked against.     *)
(***************************************************************************)
EXTENDS Integers, Selecting

CONSTANTS
    SshBoxes,     \* sandbox names
    SshGateways,  \* gateways
    MaxUserEdits, \* how often the user adds a line
    MaxInstalls   \* how many commands run

ASSUME SshAssumption == MaxUserEdits \in Nat /\ MaxInstalls \in Nat

\* A line of a configuration: what it starts with and what it names.
ConfLine(kind, arg) == [kind |-> kind, arg |-> arg]

Blank == ConfLine("blank", "-")
IncludeLine == ConfLine("include", "managed")
UserLines ==
    {Blank, IncludeLine, ConfLine("include", "other"), ConfLine("option", "-"),
     ConfLine("host", "own"), ConfLine("match", "own")}

VARIABLES
    mainConf,   \* ~/.ssh/config
    boxConf,    \* openshell/ssh_config
    ownLines,   \* the lines the user wrote, blank ones and ours left out
    wanted,     \* the gateway each sandbox was last connected through
    command,    \* the command that runs: between its two files, or none
    sshEdits, installs

sshVars == <<mainConf, boxConf, ownLines, wanted, command, sshEdits, installs>>

NoSshCommand == [on |-> FALSE, box |-> "-", gw |-> "-"]

SshInit ==
    /\ mainConf = <<>> /\ boxConf = <<>> /\ ownLines = <<>>
    /\ wanted = [b \in SshBoxes |-> "-"]
    /\ command = NoSshCommand /\ sshEdits = 0 /\ installs = 0

----------------------------------------------------------------------------
\* The editing.

\* A blank line after what stands before, unless there is one or nothing.
Spaced(lines) ==
    IF lines # <<>> /\ lines[Len(lines)] # Blank THEN Append(lines, Blank) ELSE lines

Rest(lines, from) == SubSeq(lines, from, Len(lines))

\* A blank line before what follows, unless there is one or nothing.
SpacedRest(lines) == IF lines # <<>> /\ lines[1] # Blank THEN <<Blank>> \o lines ELSE lines

\* Only a Host line ends the global part, not a Match.
MUT_EndsGlobalPart(line) == line.kind = "host"

EndsGlobalPart(line) == line.kind \in {"host", "match"}

\* Lines that include our file go, and one comes before the first Host or Match.
WithInclude(contents) ==
    LET lines == PickAt(contents, {i \in DOMAIN contents : contents[i] # IncludeLine})
        at == FirstAt(lines, {i \in DOMAIN lines : EndsGlobalPart(lines[i])})
    IN Append(Spaced(SubSeq(lines, 1, at - 1)), IncludeLine) \o SpacedRest(Rest(lines, at))

RenderSshConfig(gw, box) == <<ConfLine("host", box), ConfLine("proxy", gw)>>

HostLineMatches(lines, box) == {i \in DOMAIN lines : lines[i] = ConfLine("host", box)}

\* The block of the alias, up to the next Host line, is replaced or added.
UpsertHostBlock(lines, box, block) ==
    LET start == FirstAt(lines, HostLineMatches(lines, box))
        end == FirstAt(lines, {i \in DOMAIN lines : i > start /\ lines[i].kind = "host"})
    IN IF start <= Len(lines)
       THEN Spaced(SubSeq(lines, 1, start - 1)) \o block \o SpacedRest(Rest(lines, end))
       ELSE Spaced(lines) \o block

----------------------------------------------------------------------------
\* The command, after it has found the sandbox.

EnsureOpenshellInclude(box, gw) ==
    /\ ~command.on /\ installs < MaxInstalls
    /\ mainConf' = WithInclude(mainConf)
    /\ command' = [on |-> TRUE, box |-> box, gw |-> gw]
    /\ installs' = installs + 1
    /\ UNCHANGED <<boxConf, ownLines, wanted, sshEdits>>

WriteManagedConfig ==
    /\ command.on
    /\ boxConf' = UpsertHostBlock(boxConf, command.box, RenderSshConfig(command.gw, command.box))
    /\ wanted' = [wanted EXCEPT ![command.box] = command.gw]
    /\ command' = NoSshCommand
    /\ UNCHANGED <<mainConf, ownLines, sshEdits, installs>>

\* The managed file cannot be written: the Include is there without it.
WriteFails ==
    /\ command.on
    /\ command' = NoSshCommand
    /\ UNCHANGED <<mainConf, boxConf, ownLines, wanted, sshEdits, installs>>

\* The user adds a line somewhere.
Own(lines) == PickAt(lines, {i \in DOMAIN lines : lines[i] \notin {Blank, IncludeLine}})

UserEdits(line, at) ==
    /\ ~command.on /\ sshEdits < MaxUserEdits /\ at <= Len(mainConf) + 1
    /\ mainConf' = SubSeq(mainConf, 1, at - 1) \o <<line>> \o Rest(mainConf, at)
    /\ ownLines' = Own(mainConf')
    /\ sshEdits' = sshEdits + 1
    /\ UNCHANGED <<boxConf, wanted, command, installs>>

----------------------------------------------------------------------------

SshNext ==
    \/ \E b \in SshBoxes, g \in SshGateways : EnsureOpenshellInclude(b, g)
    \/ WriteManagedConfig \/ WriteFails
    \/ \E line \in UserLines, at \in 1..(MaxUserEdits + 3 * MaxInstalls) : UserEdits(line, at)

SshSpec == SshInit /\ [][SshNext]_sshVars

SshTypeOK ==
    /\ \A i \in DOMAIN mainConf : mainConf[i] \in UserLines
    /\ \A i \in DOMAIN boxConf : boxConf[i].kind \in {"host", "proxy", "blank"}
    /\ command.on \in BOOLEAN /\ sshEdits \in 0..MaxUserEdits /\ installs \in 0..MaxInstalls

----------------------------------------------------------------------------

\* What ssh reads: an Include counts where no Host or Match precedes it, and the
\* first block of a host gives its ProxyCommand.
IncludeInForce ==
    \E i \in DOMAIN mainConf :
        /\ mainConf[i] = IncludeLine
        /\ \A j \in 1..i : ~(mainConf[j].kind \in {"host", "match"})

ProxyOf(box) ==
    LET start == FirstAt(boxConf, HostLineMatches(boxConf, box))
    IN IF start >= Len(boxConf) THEN "-" ELSE boxConf[start + 1].arg

\* ssh reaches every sandbox through the gateway of its last command, and the
\* managed file has no second block for it.
HostsReachable ==
    \A b \in SshBoxes :
        /\ ProxyOf(b) = wanted[b]
        /\ \A i, j \in HostLineMatches(boxConf, b) : i = j

\* After any sequence of commands, failures and edits of the user the two files
\* do what they are for: every sandbox is reached through the gateway of its
\* last successful command, the Include is in force when a command goes on to
\* its second file, however the user's file is divided into Host and Match
\* blocks, and the user's own lines are all there, in their order.
EditorConfigSound ==
    /\ SshTypeOK
    /\ HostsReachable
    /\ command.on => IncludeInForce
    /\ Own(mainConf) = ownLines
=============================================================================
