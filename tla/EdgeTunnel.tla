----------------------------- MODULE EdgeTunnel ------------------------------
(***************************************************************************)
(* The tunnel that carries gRPC through an edge proxy (cli tls.rs          *)
(* edge_tunnel_addr and build_channel, edge_tunnel.rs, server ws_tunnel.rs *)
(* and multiplex.rs).  A call of the command line connects to a local      *)
(* listener; a handler opens a WebSocket to the gateway, where another     *)
(* handler connects it to the gateway's service.  Each handler copies the  *)
(* two directions in two tasks and ends both when the first of them ends.  *)
(*                                                                         *)
(* Bytes are numbered units; a frame holds one of them, and some proxies   *)
(* turn a binary frame into a text frame.                                  *)
(***************************************************************************)
EXTENDS Integers, Sequences, FiniteSets, SequencesExt

CONSTANTS
    TunCalls,      \* calls of the command line that want a channel
    TunServers,    \* endpoints, one token each
    MaxUnits,      \* units the two sides send together
    MaxListeners   \* local listeners that are started

ASSUME TunAssumption == MaxUnits \in Nat /\ MaxListeners \in Nat

VARIABLES
    tunnelCalls,      \* what each caller of edge_tunnel_addr is doing
    registry,   \* EDGE_TUNNEL_ADDRS: the listener of each endpoint
    serves,     \* the endpoint of each local listener
    tun         \* one tunnelled connection

tunVars == <<tunnelCalls, registry, serves, tun>>

Dirs == {"up", "down"}
Handlers == {"cli", "gw"}
NoAddr == 0
Eof == <<"eof", 0>>
CloseFrame == <<"close", 0>>
IdleCall == [pc |-> "idle", server |-> "none", addr |-> NoAddr]

\* The tunnelled connection: who it is for, the tasks of the two handlers,
\* and for each direction the units sent, the units in the sender's socket,
\* the frames on the WebSocket, and the units the receiver has.
NoTun == [addr |-> NoAddr, task |-> [h \in Handlers |-> "none"], sent |-> [d \in Dirs |-> 0],
          sock |-> [d \in Dirs |-> <<>>], ws |-> [d \in Dirs |-> <<>>], got |-> [d \in Dirs |-> <<>>]]

----------------------------------------------------------------------------
(* The registry of local listeners *)

\* build_channel with a token and https: an address that is known is used.
LookUp(c, s) ==
    /\ tunnelCalls[c].pc = "idle"
    /\ tunnelCalls' = [tunnelCalls EXCEPT ![c] = IF registry[s] # NoAddr
                                     THEN [pc |-> "connect", server |-> s, addr |-> registry[s]]
                                     ELSE [pc |-> "start", server |-> s, addr |-> NoAddr]]
    /\ UNCHANGED <<registry, serves, tun>>

\* start_tunnel_proxy, with the registry unlocked: two callers may start one
\* listener each.
StartTunnelProxy(c) ==
    /\ tunnelCalls[c].pc = "start" /\ Len(serves) < MaxListeners
    /\ serves' = Append(serves, tunnelCalls[c].server)
    /\ tunnelCalls' = [tunnelCalls EXCEPT ![c].pc = "register", ![c].addr = Len(serves) + 1]
    /\ UNCHANGED <<registry, tun>>

MUT_Register(c) ==
    /\ tunnelCalls[c].pc = "register"
    /\ registry' = [s \in TunServers |-> IF registry[s] = NoAddr THEN tunnelCalls[c].addr ELSE registry[s]]
    /\ tunnelCalls' = [tunnelCalls EXCEPT ![c].pc = "connect", ![c].addr = registry'[tunnelCalls[c].server]]
    /\ UNCHANGED <<serves, tun>>

\* The entry of the first caller stays, and is what the second one uses.
Register(c) ==
    /\ tunnelCalls[c].pc = "register"
    /\ registry' = [registry EXCEPT ![tunnelCalls[c].server] = IF @ = NoAddr THEN tunnelCalls[c].addr ELSE @]
    /\ tunnelCalls' = [tunnelCalls EXCEPT ![c].pc = "connect", ![c].addr = registry'[tunnelCalls[c].server]]
    /\ UNCHANGED <<serves, tun>>

\* The channel connects to the listener, which accepts at once.
ConnectChannel(c) ==
    /\ tunnelCalls[c].pc = "connect" /\ tun.addr = NoAddr
    /\ tunnelCalls' = [tunnelCalls EXCEPT ![c].pc = "open"]
    /\ tun' = [NoTun EXCEPT !.addr = tunnelCalls[c].addr, !.task["cli"] = "opening"]
    /\ UNCHANGED <<registry, serves>>

\* The listener's handler opens the WebSocket, with its token, to the
\* endpoint it was started for; a failure ends the connection.
OpenWs(ok) ==
    /\ tun.task["cli"] = "opening"
    /\ tun' = [tun EXCEPT !.task = [h \in Handlers |-> IF ok THEN "copying" ELSE "ended"]]
    /\ UNCHANGED <<tunnelCalls, registry, serves>>

\* The call ends with its connection.
EndCall(c) ==
    /\ tunnelCalls[c].pc = "open" /\ tun.task = [h \in Handlers |-> "ended"]
    /\ tunnelCalls' = [tunnelCalls EXCEPT ![c] = IdleCall]
    /\ tun' = NoTun
    /\ UNCHANGED <<registry, serves>>

----------------------------------------------------------------------------
(* The copies *)

UnitsSent == tun.sent["up"] + tun.sent["down"]

\* The sender of a direction (client or service) writes to its socket, and
\* closes it when it has finished.
SendUnit(d) ==
    /\ tun.addr # NoAddr /\ UnitsSent < MaxUnits /\ ~Contains(tun.sock[d], Eof)
    /\ tun' = [tun EXCEPT !.sent[d] = @ + 1, !.sock[d] = Append(@, <<"unit", tun.sent[d] + 1>>)]
    /\ UNCHANGED <<tunnelCalls, registry, serves>>

CloseSocket(d) ==
    /\ tun.addr # NoAddr /\ ~Contains(tun.sock[d], Eof)
    /\ tun' = [tun EXCEPT !.sock[d] = Append(@, Eof)]
    /\ UNCHANGED <<tunnelCalls, registry, serves>>

Handler(d) == IF d = "up" THEN "cli" ELSE "gw"
Other(d) == IF d = "up" THEN "gw" ELSE "cli"

\* copy_tcp_to_ws, copy_reader_to_ws: what was read becomes a frame; the end
\* of the stream becomes a close frame, and ends the handler.
CopyToWs(d) ==
    /\ tun.task[Handler(d)] = "copying" /\ tun.sock[d] # <<>>
    /\ tun' = IF Head(tun.sock[d]) = Eof
              THEN [tun EXCEPT !.ws[d] = Append(@, CloseFrame), !.task[Handler(d)] = "ended"]
              ELSE [tun EXCEPT !.sock[d] = Tail(@),
                               !.ws[d] = Append(@, <<"binary", Head(tun.sock[d])[2]>>)]
    /\ UNCHANGED <<tunnelCalls, registry, serves>>

\* A text frame, which neither side sends, would be treated as a binary one.
Payload(frame) == <<frame[2]>>

\* copy_ws_to_tcp, copy_ws_to_writer: a frame is written out; a close frame
\* ends the handler.
CopyFromWs(d) ==
    /\ tun.task[Other(d)] = "copying" /\ tun.ws[d] # <<>>
    /\ tun' = IF Head(tun.ws[d]) = CloseFrame
              THEN [tun EXCEPT !.task[Other(d)] = "ended"]
              ELSE [tun EXCEPT !.ws[d] = Tail(@), !.got[d] = @ \o Payload(Head(tun.ws[d]))]
    /\ UNCHANGED <<tunnelCalls, registry, serves>>

\* An error of either task, or the WebSocket without its other end.
CopyFails(h) ==
    /\ tun.task[h] = "copying"
    /\ tun' = [tun EXCEPT !.task[h] = "ended"]
    /\ UNCHANGED <<tunnelCalls, registry, serves>>

----------------------------------------------------------------------------
TunInit ==
    /\ tunnelCalls = [c \in TunCalls |-> IdleCall] /\ registry = [s \in TunServers |-> NoAddr]
    /\ serves = <<>> /\ tun = NoTun

TunNext ==
    \/ \E c \in TunCalls :
          \/ \E s \in TunServers : LookUp(c, s)
          \/ StartTunnelProxy(c) \/ Register(c) \/ ConnectChannel(c) \/ EndCall(c)
    \/ \E d \in Dirs : SendUnit(d) \/ CloseSocket(d) \/ CopyToWs(d) \/ CopyFromWs(d)
    \/ \E ok \in BOOLEAN : OpenWs(ok)
    \/ \E h \in Handlers : CopyFails(h)

TunSpec == TunInit /\ [][TunNext]_tunVars

----------------------------------------------------------------------------
\* Every variable stays in its domain.
TunTypeOK ==
    /\ \A c \in TunCalls : tunnelCalls[c].addr \in 0..MaxListeners
    /\ registry \in [TunServers -> 0..MaxListeners] /\ serves \in Seq(TunServers)
    /\ tun.addr \in 0..MaxListeners /\ \A d \in Dirs : tun.sent[d] \in 0..MaxUnits

\* A call reaches the gateway it is for (edge_tunnel_addr): however calls to
\* several gateways race for the registry, the listener a call connects to
\* was started for that call's endpoint and token.
RightListener ==
    \A c \in TunCalls : tunnelCalls[c].pc \in {"connect", "open"} => serves[tunnelCalls[c].addr] = tunnelCalls[c].server

\* The units a socket or the WebSocket holds.
OnTheWay(queue, end) == Cardinality({i \in DOMAIN queue : queue[i] # end})

\* The tunnel is transparent (the four copy loops): a receiver has a prefix
\* of what was sent, in order, and as long as both handlers copy, what it
\* does not have yet is on its way.
TunnelTransparent ==
    \A d \in Dirs :
        /\ tun.got[d] = [i \in 1..Len(tun.got[d]) |-> i]
        /\ (\A h \in Handlers : tun.task[h] = "copying") =>
              tun.sent[d] = Len(tun.got[d]) + OnTheWay(tun.ws[d], CloseFrame) + OnTheWay(tun.sock[d], Eof)

\* However calls race for a listener and either side closes, a call reaches its
\* own gateway and the tunnel neither loses, repeats nor reorders what it carries.
TunnelSound == TunTypeOK /\ RightListener /\ TunnelTransparent
=============================================================================
