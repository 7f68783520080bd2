---------------------------- MODULE ExecSession ----------------------------
(***************************************************************************)
(* One ExecSandbox request, end to end: the gateway's retries of the SSH   *)
(* transport (grpc/sandbox.rs), the supervisor's SSH server, the command's *)
(* process with its reader, exit and reaper threads (ssh.rs, lib.rs), and  *)
(* the events streamed back to the caller.  The same server also carries   *)
(* port-forward channels.  Output is counted in chunks; russh, TCP and the *)
(* kernel are external.                                                    *)
(***************************************************************************)
EXTENDS Naturals, Sequences

CONSTANTS
    ExecAttempts,  \* SSH_CONNECT_MAX_ATTEMPTS
    ExitCodes,     \* exit codes a command may have
    MaxChunks      \* bound on the chunks a command writes to each stream

ASSUME ExecAssumption == ExecAttempts \in Nat \ {0} /\ MaxChunks \in Nat

VARIABLES
    req,     \* the gateway's task: [pc, attempt, tty, timed, seen, got, final, code]
    conn,    \* the connection through the single-use proxy: "none", "up", "down"
    wire,    \* SSH messages on their way to the gateway
    child,   \* the command: [st, code, managed, held]
    pipe,    \* stream -> [wrote, read, done]: what was written, forwarded, and has the reader ended
    exiter,  \* the exit thread: [pc, code]
    asked,   \* an exec request has reached the supervisor and is not handled yet
    starts,  \* how often the command was started
    hurt,    \* history: the connection broke, or the exit thread stopped waiting for a reader
    fwd      \* a direct-tcpip channel: "none", "connecting", "open", "closed"

execVars == <<req, conn, wire, child, pipe, exiter, asked, starts, hurt, fwd>>
sandboxVars == <<child, pipe, exiter, asked, starts, fwd>>

Streams == {"stdout", "stderr"}
\* A PTY merges both streams; its single reader also sends the channel's EOF.
Readers == IF req.tty THEN {"stdout"} ELSE Streams

NoChild == [st |-> "none", code |-> 0, managed |-> FALSE, held |-> FALSE]
EmptyPipe == [s \in Streams |-> [wrote |-> 0, read |-> 0, done |-> FALSE]]
NoReq == [pc |-> "idle", attempt |-> 0, tty |-> FALSE, timed |-> FALSE, seen |-> <<>>, got |-> 0,
          final |-> "none", code |-> 0]

ExecInit ==
    /\ req = NoReq /\ conn = "none" /\ wire = <<>>
    /\ child = NoChild /\ pipe = EmptyPipe /\ exiter = [pc |-> "none", code |-> 0]
    /\ asked = FALSE /\ starts = 0 /\ hurt = FALSE /\ fwd = "none"

AtExec(pc) == req.pc = pc
ExecStep(from, to) == req.pc = from /\ req' = [req EXCEPT !.pc = to]
\* tx.send(Err(status)), after the proxy task has ended.
EndErr == req' = [req EXCEPT !.pc = "done", !.final = "err"]

-----------------------------------------------------------------------------
(* The gateway: handle_exec_sandbox and stream_exec_over_ssh *)

HandleExec ==
    /\ AtExec("idle")
    /\ \E tty, timed \in BOOLEAN : req' = [NoReq EXCEPT !.pc = "proxy", !.tty = tty, !.timed = timed]
    /\ UNCHANGED <<conn, wire, sandboxVars, hurt>>

\* The loop's `continue`: another attempt, or the last error once they are used up.
RetryOrFail ==
    IF req.attempt + 1 < ExecAttempts
    THEN req' = [req EXCEPT !.pc = "proxy", !.attempt = @ + 1]
    ELSE EndErr

StartForward ==
    /\ AtExec("proxy")
    /\ \/ req' = [req EXCEPT !.pc = "connect"]
       \/ RetryOrFail
    /\ conn' = "none" /\ wire' = <<>>
    /\ UNCHANGED <<sandboxVars, hurt>>

MUT_Retryable(step, reset) == step # "denied"

\* is_retryable_ssh_error on the error of a step.  Setting up the transport always matches; a
\* step on the transport matches when the text carries the reset, which russh reports for what it
\* was waiting to receive, never for a message it hands to its session task ("sent").
Retryable(step, reset) == step = "transport" \/ (step = "reply" /\ reset)

StepFails(step) ==
    /\ conn' = "down"
    /\ \E reset \in BOOLEAN : IF Retryable(step, reset) THEN RetryOrFail ELSE EndErr

\* start_single_use_ssh_proxy: the pod's address must be neither loopback nor link-local.
ProxyReaches(safeTarget, listening) == safeTarget /\ listening

\* verify_preface: the timestamp within the allowed skew, the signature by the shared secret, the
\* nonce not seen before.  The gateway signs with that secret and a new nonce each time.
PrefaceAccepted(inTime, signed, freshNonce) == inTime /\ signed /\ freshNonce

\* The proxy connects to the pod and passes the preface; the SSH transport comes up through it.
ConnectTransport ==
    /\ AtExec("connect")
    /\ \E safeTarget, listening, inTime \in BOOLEAN :
          IF ProxyReaches(safeTarget, listening) /\ PrefaceAccepted(inTime, TRUE, TRUE)
          THEN conn' = "up" /\ ExecStep("connect", "auth")
          ELSE StepFails("transport")
    /\ UNCHANGED <<wire, sandboxVars, hurt>>

Authenticate ==
    /\ AtExec("auth")
    /\ \/ conn = "up" /\ ExecStep("auth", "channel") /\ UNCHANGED conn
       \/ StepFails("reply")
       \/ StepFails("denied")
    /\ UNCHANGED <<wire, sandboxVars, hurt>>

\* channel_open_session waits for its answer; request_pty is only handed over.
OpenChannel ==
    /\ AtExec("channel")
    /\ \/ conn = "up" /\ ExecStep("channel", "send") /\ UNCHANGED conn
       \/ StepFails("reply")
       \/ req.tty /\ StepFails("sent")
    /\ UNCHANGED <<wire, sandboxVars, hurt>>

\* exec, the stdin payload and EOF are handed over one after the other; nothing is awaited.
SendExec ==
    /\ AtExec("send")
    /\ \/ conn = "up" /\ ExecStep("send", "stdin") /\ asked' = TRUE /\ UNCHANGED conn
       \/ conn = "down" /\ StepFails("sent") /\ UNCHANGED asked
    /\ UNCHANGED <<wire, child, pipe, exiter, starts, fwd, hurt>>

SendStdin ==
    /\ AtExec("stdin")
    /\ \/ conn = "up" /\ ExecStep("stdin", "wait") /\ UNCHANGED conn
       \/ conn = "down" /\ StepFails("sent")
    /\ UNCHANGED <<wire, sandboxVars, hurt>>

ReceiveMessage ==
    /\ AtExec("wait") /\ wire # <<>>
    /\ wire' = Tail(wire)
    /\ LET msg == Head(wire)
       IN  req' = CASE msg.kind = "data"  -> [req EXCEPT !.got = @ + 1]
                    [] msg.kind = "exit"  -> [req EXCEPT !.seen = <<msg.code>>]
                    [] msg.kind = "close" -> [req EXCEPT !.pc = "join"]
    /\ UNCHANGED <<conn, sandboxVars, hurt>>

\* channel.wait() returns None once the connection is gone.
ChannelGone ==
    /\ AtExec("wait") /\ wire = <<>> /\ conn = "down"
    /\ ExecStep("wait", "join")
    /\ UNCHANGED <<conn, wire, sandboxVars, hurt>>

\* The client disconnects, the proxy task is joined, and only then is the exit event sent: the
\* status received, or 1.
FinishExec ==
    /\ AtExec("join")
    /\ conn' = "down"
    /\ req' = [req EXCEPT !.pc = "done", !.final = "exit", !.code = IF req.seen = <<>> THEN 1 ELSE req.seen[1]]
    /\ UNCHANGED <<wire, sandboxVars, hurt>>

\* The timeout is one attempt's: 124 is reported, the connection dropped, the command goes on.
ExecTimeout ==
    /\ req.timed /\ req.pc \in {"connect", "auth", "channel", "send", "stdin", "wait"}
    /\ req' = [req EXCEPT !.pc = "done", !.final = "timeout", !.code = 124]
    /\ conn' = "down" /\ wire' = <<>>
    /\ UNCHANGED <<sandboxVars, hurt>>

-----------------------------------------------------------------------------
(* The supervisor: exec_request, start_shell, spawn_pipe_exec and spawn_pty_shell *)

\* The child is spawned, in its namespace and with its privileges dropped, before it is
\* registered; a background process may inherit its pipes.  A spawn that fails ends the session.
SpawnChild ==
    /\ asked /\ asked' = FALSE
    /\ \/ /\ \E held \in BOOLEAN : child' = [NoChild EXCEPT !.st = "running", !.held = held]
          /\ starts' = starts + 1 /\ pipe' = EmptyPipe /\ exiter' = [pc |-> "wait", code |-> 0]
          /\ UNCHANGED <<conn, hurt>>
       \/ /\ conn' = "down" /\ hurt' = TRUE
          /\ UNCHANGED <<child, starts, pipe, exiter>>
    /\ UNCHANGED <<req, wire, fwd>>

RegisterManagedChild ==
    /\ child.st # "none" /\ ~child.managed /\ exiter.pc = "wait"
    /\ child' = [child EXCEPT !.managed = TRUE]
    /\ UNCHANGED <<req, conn, wire, pipe, exiter, asked, starts, hurt, fwd>>

ChildWrites ==
    /\ child.st = "running"
    /\ \E s \in Readers : /\ pipe[s].wrote < MaxChunks
                          /\ pipe' = [pipe EXCEPT ![s].wrote = @ + 1]
    /\ UNCHANGED <<req, conn, wire, child, exiter, asked, starts, hurt, fwd>>

ChildExits ==
    /\ child.st = "running"
    /\ \E code \in ExitCodes : child' = [child EXCEPT !.st = "zombie", !.code = code]
    /\ UNCHANGED <<req, conn, wire, pipe, exiter, asked, starts, hurt, fwd>>

ReleasePipe ==
    /\ child.held
    /\ child' = [child EXCEPT !.held = FALSE]
    /\ UNCHANGED <<req, conn, wire, pipe, exiter, asked, starts, hurt, fwd>>

\* The PID 1 reaper peeks at an exited child and reaps it unless it is registered.
ReapOrphan ==
    /\ child.st = "zombie" /\ ~child.managed
    /\ child' = [child EXCEPT !.st = "reaped"]
    /\ UNCHANGED <<req, conn, wire, pipe, exiter, asked, starts, hurt, fwd>>

SendUp(msg) == wire' = IF conn = "up" THEN Append(wire, msg) ELSE wire

\* A reader thread forwards a chunk, or ends when the pipe has no writer left.
ReadChunk(s) ==
    /\ s \in Readers /\ pipe[s].read < pipe[s].wrote /\ ~pipe[s].done
    /\ pipe' = [pipe EXCEPT ![s].read = @ + 1]
    /\ SendUp([kind |-> "data", code |-> 0])
    /\ UNCHANGED <<req, conn, child, exiter, asked, starts, hurt, fwd>>

ReaderEnds(s) ==
    /\ s \in Readers /\ pipe[s].read = pipe[s].wrote /\ ~pipe[s].done
    /\ child.st \in {"zombie", "reaped", "over"} /\ ~child.held
    /\ pipe' = [pipe EXCEPT ![s].done = TRUE]
    /\ UNCHANGED <<req, conn, wire, child, exiter, asked, starts, hurt, fwd>>

\* child.wait(): the status, or an error when the child was already reaped, which counts as 1.
WaitChild ==
    /\ exiter.pc = "wait" /\ child.st \in {"zombie", "reaped"} /\ child.managed
    /\ exiter' = [pc |-> "readers", code |-> IF child.st = "reaped" THEN 1 ELSE child.code]
    /\ child' = [child EXCEPT !.st = "over", !.managed = FALSE]
    /\ UNCHANGED <<req, conn, wire, pipe, asked, starts, hurt, fwd>>

\* One recv_timeout per reader: all have ended, or the thread stops waiting.
ReadersDone == \A s \in Readers : pipe[s].done

WaitReaders ==
    /\ exiter.pc = "readers"
    /\ \/ ReadersDone /\ UNCHANGED hurt
       \/ ~ReadersDone /\ hurt' = TRUE
    /\ exiter' = [exiter EXCEPT !.pc = "report"]
    /\ UNCHANGED <<req, conn, wire, child, pipe, asked, starts, fwd>>

\* EOF, exit status and close, in this order.
ReportExit ==
    /\ exiter.pc = "report"
    /\ wire' = IF conn = "up" THEN wire \o <<[kind |-> "exit", code |-> exiter.code], [kind |-> "close", code |-> 0]>>
               ELSE wire
    /\ exiter' = [exiter EXCEPT !.pc = "none"]
    /\ UNCHANGED <<req, conn, child, pipe, asked, starts, hurt, fwd>>

-----------------------------------------------------------------------------
(* Port-forward channels and the network *)

\* channel_open_direct_tcpip: loopback targets with a 16-bit port only; the connection is made in
\* the sandbox's network namespace.
OpenDirectTcpip ==
    /\ conn = "up" /\ fwd = "none"
    /\ \E loopback, validPort \in BOOLEAN : fwd' = IF loopback /\ validPort THEN "connecting" ELSE "none"
    /\ UNCHANGED <<req, conn, wire, child, pipe, exiter, asked, starts, hurt>>

ConnectInNetns ==
    /\ fwd = "connecting"
    /\ fwd' \in {"open", "closed"}
    /\ UNCHANGED <<req, conn, wire, child, pipe, exiter, asked, starts, hurt>>

DirectEnds ==
    /\ \/ fwd = "open"
       \/ fwd = "closed" /\ conn = "down"
    /\ fwd' = IF fwd = "open" THEN "closed" ELSE "none"
    /\ UNCHANGED <<req, conn, wire, child, pipe, exiter, asked, starts, hurt>>

\* The connection breaks; what was on its way is lost, the command goes on.
ConnectionBreaks ==
    /\ conn = "up" /\ req.pc # "join"
    /\ conn' = "down" /\ wire' = <<>> /\ hurt' = TRUE
    /\ asked' \in {asked, FALSE}
    /\ UNCHANGED <<req, child, pipe, exiter, starts, fwd>>

ExecNext ==
    \/ HandleExec \/ StartForward \/ ConnectTransport \/ Authenticate \/ OpenChannel \/ SendExec \/ SendStdin
    \/ ReceiveMessage \/ ChannelGone \/ FinishExec \/ ExecTimeout
    \/ SpawnChild \/ RegisterManagedChild \/ ChildWrites \/ ChildExits \/ ReleasePipe \/ ReapOrphan
    \/ \E s \in Streams : ReadChunk(s) \/ ReaderEnds(s)
    \/ WaitChild \/ WaitReaders \/ ReportExit
    \/ OpenDirectTcpip \/ ConnectInNetns \/ DirectEnds \/ ConnectionBreaks

ExecSpec == ExecInit /\ [][ExecNext]_execVars

-----------------------------------------------------------------------------
(* Properties *)

ExecTypeOK ==
    /\ req.attempt < ExecAttempts /\ req.code \in ExitCodes \cup {0, 1, 124} /\ req.got <= 2 * MaxChunks
    /\ conn \in {"none", "up", "down"} /\ fwd \in {"none", "connecting", "open", "closed"}
    /\ child.st \in {"none", "running", "zombie", "reaped", "over"}
    /\ pipe \in [Streams -> [wrote : 0..MaxChunks, read : 0..MaxChunks, done : BOOLEAN]]
    /\ exiter.pc \in {"none", "wait", "readers", "report"}

\* A command is started at most once per request, however often the transport to the sandbox is
\* set up again: a retry never follows an attempt that may have delivered the command.
StartedOnce == starts <= 1

\* The exit event comes after every chunk the command wrote, unless the connection broke, the
\* request timed out or a reader was given up: both readers are waited for, in any order of
\* exits, reads and messages.
OutputBeforeExit ==
    req.final = "exit" /\ ~hurt /\ starts = 1
        => req.got = pipe["stdout"].wrote + pipe["stderr"].wrote

\* However the transport breaks and is retried and the command's streams and
\* exit interleave, it starts once and its output precedes its exit.
ExecSound == ExecTypeOK /\ StartedOnce /\ OutputBeforeExit
=============================================================================
