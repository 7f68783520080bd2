------------------------------ MODULE LogStream ------------------------------
(***************************************************************************)
(* The path of a log line from a sandbox's supervisor to a WatchSandbox    *)
(* client, and the buses beside it, for one sandbox:                       *)
(*                                                                         *)
(*  - the supervisor's log push task (sandbox log_push.rs): a bounded      *)
(*    channel fed by the tracing layer, batches, one client-streaming call *)
(*    at a time, reconnection with a bounded buffer;                       *)
(*  - the gateway's push handler (grpc/policy.rs), one per open call; the  *)
(*    handler of a broken call may still be publishing when the next call  *)
(*    opens;                                                               *)
(*  - the three buses of the gateway (tracing_bus.rs, sandbox_watch.rs):   *)
(*    "log" and "platform" with a broadcast channel and a tail, "status"   *)
(*    with a channel only.  Publishing sends first and appends to the tail *)
(*    afterwards, under separate locks: the two are separate steps here;   *)
(*  - the Kubernetes event tailer, the writers of the sandbox record that  *)
(*    notify after their write, and the clean-up of a deleted sandbox;     *)
(*  - the watch handler (grpc/sandbox.rs).                                 *)
(*                                                                         *)
(* A line is <<source, n>>.  Its text, level and time are left out, and    *)
(* with them the filters by level, source and time.  The numbers 1024, 50, *)
(* 200, 100, 32 and 2000 of the code are the constants below.              *)
(***************************************************************************)
EXTENDS Integers, Sequences, FiniteSets, SequencesExt

CONSTANTS
    Watchers,     \* WatchSandbox calls
    MaxLines,     \* lines and events of all sources together
    MaxRecVer,    \* versions of the sandbox record
    MaxPushes,    \* push calls the supervisor opens
    ChannelCap,   \* capacity of the supervisor's channel (1024)
    BatchSize,    \* lines that trigger a flush (50)
    MaxBuffered,  \* lines kept while disconnected (200)
    TakeMax,      \* lines of a batch the gateway publishes (100)
    StreamCap,    \* batches queued for a call (32)
    TailCap,      \* lines a tail keeps (2000, 50)
    TailWanted,   \* lines a watcher asks to be replayed (200)
    ReceiverCap   \* events a broadcast receiver may be behind (1024, 128)

ASSUME StreamAssumption ==
    /\ MaxLines \in Nat /\ MaxPushes \in Nat /\ ChannelCap \in Nat /\ BatchSize \in Nat
    /\ MaxBuffered \in Nat /\ TakeMax \in Nat /\ TailCap \in Nat /\ TailWanted \in Nat
    /\ ReceiverCap \in Nat /\ MaxRecVer \in Nat \ {0} /\ StreamCap \in Nat \ {0}

VARIABLES
    wrec,      \* the stored sandbox record: its version (0: none) and whether Ready
    owed,      \* writes of the record whose notify is still to come
    sweep,     \* clean-up of the buses after the record is deleted: none, dropped, due, done
    bus,       \* gateway: per bus the generation of its channel and its tail
    source,    \* lines produced so far, per source
    half,      \* per publisher the line it has sent and not yet appended
    layer,     \* supervisor: the channel of the tracing layer and whether it is closed
    pusher,    \* supervisor: the push loop
    calls,     \* the push calls: batches under way and the gateway's handler
    watch      \* gateway: the watch handlers

streamVars == <<wrec, owed, sweep, bus, source, half, layer, pusher, calls, watch>>

Buses == {"log", "platform", "status"}
Sources == {"sandbox", "gateway", "kube"}
NoLine == <<"none", 0>>
Lines == Sources \X (1..MaxLines)
Calls == 1..MaxPushes
OwnLayer == 0      \* the gateway's tracing layer, as a publisher
EventTailer == -1  \* the Kubernetes event tailer, as a publisher
Publishers == Calls \cup {OwnLayer, EventTailer}

Quiet == source["sandbox"] + source["gateway"] + source["kube"] >= MaxLines

\* Bounds: in one behaviour either the record changes or the supervisor
\* reconnects, not both.
RecordMayChange == pusher.call <= 1
MayReconnect == pusher.call = 0 \/ (wrec.ver = 1 /\ sweep = "none")

Take(s, n) == SubSeq(s, 1, IF Len(s) < n THEN Len(s) ELSE n)
LastOf(s, n) == SubSeq(s, IF Len(s) < n THEN 1 ELSE Len(s) - n + 1, Len(s))

----------------------------------------------------------------------------
(* The buses *)

\* broadcast::Sender::send: every receiver of the channel gets the event; a
\* receiver more than the capacity behind loses its oldest ones and will be
\* told that it lagged.
Deliver(ws, b, e) ==
    [w \in Watchers |->
        IF ws[w].rx[b].gen # bus[b].gen THEN ws[w]
        ELSE LET q == Append(ws[w].rx[b].q, e)
             IN [ws[w] EXCEPT !.rx[b].q = LastOf(q, ReceiverCap),
                              !.rx[b].lagged = @ \/ Len(q) > ReceiverCap]]

BusOf(line) == IF line[1] = "kube" THEN "platform" ELSE "log"

\* TracingLogBus::publish, first half: sender_for and send.
Publish(p, line) ==
    /\ half[p] = NoLine
    /\ half' = [half EXCEPT ![p] = line]
    /\ watch' = Deliver(watch, BusOf(line), line)

\* TracingLogBus::publish, second half: the line is appended to the tail,
\* whichever generation of the bus that tail now belongs to.
AppendTail(p) ==
    /\ half[p] # NoLine
    /\ LET b == BusOf(half[p])
       IN bus' = [bus EXCEPT ![b].tail = LastOf(Append(@, half[p]), TailCap)]
    /\ half' = [half EXCEPT ![p] = NoLine]
    /\ UNCHANGED <<wrec, owed, sweep, source, layer, pusher, calls, watch>>

\* SandboxLogLayer: a gateway event that carries the sandbox id.
GatewayLine ==
    /\ ~Quiet
    /\ source' = [source EXCEPT !["gateway"] = @ + 1]
    /\ Publish(OwnLayer, <<"gateway", source["gateway"] + 1>>)
    /\ UNCHANGED <<wrec, owed, sweep, bus, layer, pusher, calls>>

\* The event tailer: an applied Event whose object the index resolves to
\* this sandbox; the index knows it while the record exists.
KubeEvent ==
    /\ ~Quiet /\ wrec.ver > 0
    /\ source' = [source EXCEPT !["kube"] = @ + 1]
    /\ Publish(EventTailer, <<"kube", source["kube"] + 1>>)
    /\ UNCHANGED <<wrec, owed, sweep, bus, layer, pusher, calls>>

\* A handler or the watcher of custom resources stores the record and owes
\* its watchers a notification; the record may be deleted.
WriteRecord(ready) ==
    /\ wrec.ver \in 1..(MaxRecVer - 1) /\ RecordMayChange
    /\ wrec' = [ver |-> wrec.ver + 1, ready |-> ready]
    /\ owed' = owed + 1
    /\ UNCHANGED <<sweep, bus, source, half, layer, pusher, calls, watch>>

\* handle_deleted and the reconciler: the record is deleted, then watchers
\* are notified and the three buses removed.
DeleteRecord ==
    /\ wrec.ver > 0 /\ sweep \in {"none", "dropped"} /\ RecordMayChange
    /\ wrec' = [ver |-> 0, ready |-> FALSE]
    /\ sweep' = "due"
    /\ UNCHANGED <<owed, bus, source, half, layer, pusher, calls, watch>>

Notify ==
    /\ owed > 0
    /\ owed' = owed - 1
    /\ watch' = Deliver(watch, "status", NoLine)
    /\ UNCHANGED <<wrec, sweep, bus, source, half, layer, pusher, calls>>

\* DeleteSandbox removes the buses as well, after it stored and announced
\* the mark that the sandbox is being deleted and asked Kubernetes for the
\* deletion, while the record may still exist.
DropBuses ==
    /\ wrec.ver > 1 /\ ~wrec.ready /\ owed = 0 /\ sweep = "none"
    /\ bus' = [b \in Buses |-> [gen |-> bus[b].gen + 1, tail |-> <<>>]]
    /\ sweep' = "dropped"
    /\ UNCHANGED <<wrec, owed, source, half, layer, pusher, calls, watch>>

\* Notify and remove are synchronous calls in a row.  remove drops the
\* sender and the tail; receivers of that generation drain what they hold
\* and are then closed.
SweepBuses ==
    /\ sweep = "due"
    /\ watch' = Deliver(watch, "status", NoLine)
    /\ bus' = [b \in Buses |-> [gen |-> bus[b].gen + 1, tail |-> <<>>]]
    /\ sweep' = "done"
    /\ UNCHANGED <<wrec, owed, source, half, layer, pusher, calls>>

----------------------------------------------------------------------------
(* The supervisor *)

\* LogPushLayer::on_event: try_send, the line is dropped when the channel
\* is full.
EmitLine ==
    /\ ~layer.closed /\ ~Quiet
    /\ source' = [source EXCEPT !["sandbox"] = @ + 1]
    /\ layer' = [layer EXCEPT !.q = IF Len(@) < ChannelCap
                                    THEN Append(@, <<"sandbox", source["sandbox"] + 1>>) ELSE @]
    /\ UNCHANGED <<wrec, owed, sweep, bus, half, pusher, calls, watch>>

\* The supervisor ends: the tracing layer and its sender are dropped.
CloseLayer ==
    /\ ~layer.closed
    /\ layer' = [layer EXCEPT !.closed = TRUE]
    /\ UNCHANGED <<wrec, owed, sweep, bus, source, half, pusher, calls, watch>>

\* run_push_loop without a call: attempts that fail and the delays between
\* them alternate.  drain_during_backoff: a line that comes in a delay is kept
\* unless the buffer is full.
DrainLine ==
    /\ pusher.pc = "connect" /\ layer.q # <<>>
    /\ layer' = [layer EXCEPT !.q = Tail(@)]
    /\ pusher' = [pusher EXCEPT !.batch = IF Len(@) < MaxBuffered THEN Append(@, Head(layer.q)) ELSE @]
    /\ UNCHANGED <<wrec, owed, sweep, bus, source, half, calls, watch>>

NewCall == [open |-> TRUE, q |-> <<>>, served |-> "unchecked", todo |-> <<>>]
\* The handler of a closed call returns once it has read what there was.
Drained(s) == IF ~s.open /\ s.q = <<>> THEN [s EXCEPT !.served = "ended"] ELSE s

\* The connection is made and a new call opened; what was buffered is its
\* first batch.
OpenCall ==
    /\ pusher.pc = "connect" /\ pusher.call < MaxPushes /\ MayReconnect
    /\ pusher' = [pc |-> "stream", call |-> pusher.call + 1, batch |-> <<>>]
    /\ calls' = [calls EXCEPT ![pusher.call + 1] =
                    [NewCall EXCEPT !.q = IF pusher.batch = <<>> THEN @ ELSE <<pusher.batch>>]]
    /\ UNCHANGED <<wrec, owed, sweep, bus, source, half, layer, watch>>

\* push_tx.send of the batch: waits while the queue is full, fails when the
\* call is over - the batch is lost then and the loop reconnects.
SendBatch(batch, pc) ==
    LET c == pusher.call
    IN /\ calls[c].open => Len(calls[c].q) < StreamCap
       /\ pusher' = [pusher EXCEPT !.batch = <<>>, !.pc = IF calls[c].open THEN pc ELSE "connect"]
       /\ calls' = [calls EXCEPT ![c].q = IF calls[c].open THEN Append(@, batch) ELSE @]

\* The select loop receives a line; a full batch is sent at once.
TakeLine ==
    /\ pusher.pc = "stream" /\ layer.q # <<>>
    /\ layer' = [layer EXCEPT !.q = Tail(@)]
    /\ LET batch == Append(pusher.batch, Head(layer.q))
       IN IF Len(batch) >= BatchSize
          THEN SendBatch(batch, "stream")
          ELSE pusher' = [pusher EXCEPT !.batch = batch] /\ UNCHANGED calls
    /\ UNCHANGED <<wrec, owed, sweep, bus, source, half, watch>>

\* The flush timer.
FlushTimer ==
    /\ pusher.pc = "stream" /\ pusher.batch # <<>>
    /\ SendBatch(pusher.batch, "stream")
    /\ UNCHANGED <<wrec, owed, sweep, bus, source, half, layer, watch>>

\* rpc_done: the call has ended, the batch being filled is kept.
CallDone ==
    /\ pusher.pc = "stream" /\ ~calls[pusher.call].open
    /\ pusher' = [pusher EXCEPT !.pc = "connect"]
    /\ UNCHANGED <<wrec, owed, sweep, bus, source, half, layer, calls, watch>>

\* The channel is closed and empty: the last batch is sent and the task ends.
PushEnds ==
    /\ pusher.pc = "stream" /\ layer.closed /\ layer.q = <<>>
    /\ IF pusher.batch # <<>>
       THEN LET c == pusher.call
            IN /\ calls[c].open => Len(calls[c].q) < StreamCap
               /\ calls' = [calls EXCEPT ![c].q = IF calls[c].open THEN Append(@, pusher.batch) ELSE @]
       ELSE UNCHANGED calls
    /\ pusher' = [pusher EXCEPT !.batch = <<>>, !.pc = "done"]
    /\ UNCHANGED <<wrec, owed, sweep, bus, source, half, layer, watch>>

\* The network: the call breaks; of what was under way the gateway still
\* reads a prefix.
BreakCall(c) ==
    /\ calls[c].open
    /\ \E k \in 0..Len(calls[c].q) :
          calls' = [calls EXCEPT ![c] = Drained([calls[c] EXCEPT !.open = FALSE, !.q = SubSeq(@, 1, k)])]
    /\ UNCHANGED <<wrec, owed, sweep, bus, source, half, layer, pusher, watch>>

----------------------------------------------------------------------------
(* The gateway's push handler *)

\* The first batch is accepted only when the sandbox exists; at most
\* TakeMax lines of a batch are published.
ReceiveBatch(c) ==
    LET s == calls[c]
    IN /\ s.served # "ended" /\ s.q # <<>> /\ s.todo = <<>> /\ half[c] = NoLine
       /\ calls' = [calls EXCEPT ![c] =
             IF s.served = "unchecked" /\ wrec.ver = 0
             THEN [open |-> FALSE, q |-> <<>>, served |-> "ended", todo |-> <<>>]
             ELSE Drained([s EXCEPT !.q = Tail(@), !.served = "checked", !.todo = Take(Head(s.q), TakeMax)])]
       /\ UNCHANGED <<wrec, owed, sweep, bus, source, half, layer, pusher, watch>>

PublishPushed(c) ==
    /\ calls[c].todo # <<>>
    /\ Publish(c, Head(calls[c].todo))
    /\ calls' = [calls EXCEPT ![c].todo = Tail(@)]
    /\ UNCHANGED <<wrec, owed, sweep, bus, source, layer, pusher>>

----------------------------------------------------------------------------
(* The watch handler *)

NoReceiver == [gen |-> 0, q |-> <<>>, lagged |-> FALSE]
Subscribed(b) == [gen |-> bus[b].gen, q |-> <<>>, lagged |-> FALSE]
HalfDone == {half[p] : p \in Publishers} \ {NoLine}
NoWatch == [pc |-> "idle", stop |-> FALSE, seen |-> 0, out |-> {}, excused |-> {},
            rx |-> [b \in Buses |-> NoReceiver]]
WatchEnds(w) == watch' = [watch EXCEPT ![w] = [NoWatch EXCEPT !.pc = "done"]]
Frame == UNCHANGED <<wrec, owed, sweep, bus, source, half, layer, pusher, calls>>

\* The call arrives: existence is checked before any bus is touched.
WatchValidate(w, stop) ==
    /\ watch[w].pc = "idle"
    /\ IF wrec.ver = 0 THEN WatchEnds(w)
       ELSE watch' = [watch EXCEPT ![w].pc = "subscribe", ![w].stop = stop]
    /\ Frame

\* All buses are subscribed to before the snapshot is read.
WatchSubscribe(w) ==
    /\ watch[w].pc = "subscribe"
    /\ watch' = [watch EXCEPT ![w].pc = "snapshot", ![w].rx = [b \in Buses |-> Subscribed(b)],
                              ![w].excused = HalfDone]
    /\ Frame

\* The record is read and sent; a watcher that waits for Ready may end here.
WatchSnapshot(w) ==
    /\ watch[w].pc = "snapshot"
    /\ IF wrec.ver = 0 \/ (watch[w].stop /\ wrec.ready)
       THEN WatchEnds(w)
       ELSE watch' = [watch EXCEPT ![w].pc = "tail", ![w].seen = wrec.ver]
    /\ Frame

MUT_WatchTail(w) ==
    /\ watch[w].pc = "tail"
    /\ LET replay == LastOf(bus["log"].tail, TailWanted)
       IN watch' = [watch EXCEPT ![w].pc = "events",
                        ![w].rx = [b \in Buses |-> Subscribed(b)],
                        ![w].out = @ \cup Range(replay),
                        ![w].excused = @ \cup (Range(bus["log"].tail) \ Range(replay))]
    /\ Frame

\* The tail of the log bus is replayed; then that of the platform
\* bus.
WatchTail(w) ==
    /\ watch[w].pc = "tail"
    /\ LET replay == LastOf(bus["log"].tail, TailWanted)
       IN watch' = [watch EXCEPT ![w].pc = "events",
                        ![w].out = @ \cup Range(replay),
                        ![w].excused = @ \cup (Range(bus["log"].tail) \ Range(replay))]
    /\ Frame

WatchEvents(w) ==
    /\ watch[w].pc = "events"
    /\ LET replay == LastOf(bus["platform"].tail, TailCap)
       IN watch' = [watch EXCEPT ![w].pc = "loop", ![w].out = @ \cup Range(replay)]
    /\ Frame

Receivable(w, b) == watch[w].pc = "loop" /\ watch[w].rx[b].q # <<>> /\ ~watch[w].rx[b].lagged

\* A notification: the record is read again and sent.
WatchStatus(w) ==
    /\ Receivable(w, "status")
    /\ IF wrec.ver = 0 \/ (watch[w].stop /\ wrec.ready)
       THEN WatchEnds(w)
       ELSE watch' = [watch EXCEPT ![w].seen = wrec.ver, ![w].rx["status"].q = Tail(@)]
    /\ Frame

\* A line or an event is passed on.
WatchLine(w, b) ==
    /\ Receivable(w, b)
    /\ watch' = [watch EXCEPT ![w].rx[b].q = Tail(@), ![w].out = @ \cup {Head(watch[w].rx[b].q)}]
    /\ Frame

\* A receiver that lagged, or that is closed and drained, ends the stream
\* with a status.
WatchError(w, b) ==
    /\ watch[w].pc = "loop"
    /\ \/ watch[w].rx[b].lagged
       \/ watch[w].rx[b].q = <<>> /\ watch[w].rx[b].gen # bus[b].gen
    /\ WatchEnds(w)
    /\ Frame

\* The client goes away: the next send fails.
WatchLeaves(w) ==
    /\ watch[w].pc \in {"tail", "events", "loop"}
    /\ WatchEnds(w)
    /\ Frame

----------------------------------------------------------------------------
StreamInit ==
    /\ wrec = [ver |-> 1, ready |-> FALSE] /\ owed = 0 /\ sweep = "none"
    /\ bus = [b \in Buses |-> [gen |-> 1, tail |-> <<>>]]
    /\ source = [s \in Sources |-> 0] /\ half = [p \in Publishers |-> NoLine]
    /\ layer = [q |-> <<>>, closed |-> FALSE]
    /\ pusher = [pc |-> "connect", call |-> 0, batch |-> <<>>]
    /\ calls = [c \in Calls |-> [open |-> FALSE, q |-> <<>>, served |-> "ended", todo |-> <<>>]]
    /\ watch = [w \in Watchers |-> NoWatch]

SupervisorNext ==
    \/ EmitLine \/ CloseLayer \/ DrainLine \/ OpenCall
    \/ TakeLine \/ FlushTimer \/ CallDone \/ PushEnds

GatewayNext ==
    \/ GatewayLine \/ KubeEvent \/ DeleteRecord \/ Notify \/ DropBuses \/ SweepBuses
    \/ \E p \in Publishers : AppendTail(p)
    \/ \E r \in BOOLEAN : WriteRecord(r)
    \/ \E c \in Calls : BreakCall(c) \/ ReceiveBatch(c) \/ PublishPushed(c)

WatchNext(w) ==
    \/ \E stop \in BOOLEAN : WatchValidate(w, stop)
    \/ WatchSubscribe(w) \/ WatchSnapshot(w) \/ WatchTail(w) \/ WatchEvents(w)
    \/ WatchStatus(w) \/ WatchLeaves(w)
    \/ \E b \in {"log", "platform"} : WatchLine(w, b)
    \/ \E b \in Buses : WatchError(w, b)

StreamNext == SupervisorNext \/ GatewayNext \/ \E w \in Watchers : WatchNext(w)

StreamSpec == StreamInit /\ [][StreamNext]_streamVars

----------------------------------------------------------------------------
\* Every variable stays in its domain, and the buffers of the push task, of
\* a call and of the tails stay within the capacities the code gives them.
StreamTypeOK ==
    /\ wrec \in [ver : 0..MaxRecVer, ready : BOOLEAN] /\ owed \in 0..MaxRecVer
    /\ sweep \in {"none", "dropped", "due", "done"}
    /\ \A b \in Buses : bus[b].gen \in 1..3 /\ Len(bus[b].tail) <= TailCap /\ Range(bus[b].tail) \subseteq Lines
    /\ source \in [Sources -> 0..MaxLines] /\ half \in [Publishers -> Lines \cup {NoLine}]
    /\ layer.closed \in BOOLEAN /\ Len(layer.q) <= ChannelCap
    /\ pusher.pc \in {"connect", "stream", "done"} /\ pusher.call \in 0..MaxPushes
    /\ Len(pusher.batch) <= MaxBuffered \/ Len(pusher.batch) < BatchSize
    /\ \A c \in Calls : calls[c].served \in {"unchecked", "checked", "ended"} /\ Len(calls[c].q) <= StreamCap
    /\ \A w \in Watchers : watch[w].pc \in {"idle", "subscribe", "snapshot", "tail", "events", "loop", "done"}

Current(w, b) == watch[w].rx[b].gen = bus[b].gen /\ ~watch[w].rx[b].lagged
Held(w) == watch[w].out \cup Range(watch[w].rx["log"].q) \cup Range(watch[w].rx["platform"].q)

\* A watcher misses nothing (handle_watch_sandbox subscribes before it reads
\* the snapshot and the tail): once it is in its loop and its receivers are
\* neither lagged nor closed, it has seen the latest version of the record
\* unless a notification is queued or owed, and every line a tail holds has
\* been passed on or is queued for it - except lines whose publication was
\* half done when it subscribed or that it asked not to be replayed.
NothingMissed ==
    \A w \in Watchers : watch[w].pc = "loop" =>
        /\ Current(w, "status") /\ watch[w].rx["status"].q = <<>> /\ owed = 0 /\ sweep # "due"
              => watch[w].seen = wrec.ver
        /\ \A b \in {"log", "platform"} : Current(w, b) =>
              Range(bus[b].tail) \subseteq Held(w) \cup watch[w].excused

\* Delivery from the supervisor is at most once (run_push_loop takes a batch
\* before it sends it): whatever reconnections and failures happen, no line
\* is in the gateway's tail twice, and none that it holds is still with the
\* supervisor.
PushedOnce ==
    LET Upstream == Range(layer.q) \cup Range(pusher.batch)
                    \cup (UNION {Range(b) : b \in UNION {Range(calls[c].q) : c \in Calls}})
                    \cup (UNION {Range(calls[c].todo) : c \in Calls})
        Arrived  == bus["log"].tail
    IN /\ \A i, j \in 1..Len(Arrived) : Arrived[i] = Arrived[j] => i = j
       /\ Range(Arrived) \cap Upstream = {}

\* However lines, pushes, reconnections and watchers interleave, the buffers
\* keep their bounds, a watcher in its loop misses nothing and no line comes twice.
StreamSound == StreamTypeOK /\ NothingMissed /\ PushedOnce
=============================================================================
