----------------------------- MODULE TuiLogView -----------------------------
(***************************************************************************)
(* The log viewer of the terminal UI (openshell-tui): the task that        *)
(* streams a sandbox's log into the event channel, the event loop that     *)
(* appends what it receives, and the keys that scroll, filter, select and  *)
(* yank lines by index.  Indices are 0-based as in the code; None is -1.   *)
(*                                                                         *)
(* A line is the sandbox and the source it comes from.  The frame is drawn *)
(* before every event: Drawn is applied to the view every step leaves.     *)
(***************************************************************************)
EXTENDS Integers, Sequences, FiniteSets

CONSTANTS
    LogSandboxes,   \* sandboxes of the dashboard's list
    BottomPad,      \* BOTTOM_PAD (3)
    Heights,        \* heights the pane may be given
    MaxLogLines,    \* bound on the lines kept
    MaxLogQueue     \* bound on LogLines events in the channel

ASSUME LogAssumption ==
    /\ BottomPad \in Nat /\ MaxLogLines \in Nat /\ MaxLogQueue \in Nat
    /\ Heights \subseteq Nat \ {0}

NoIndex == -1
Sources == {"gateway", "sandbox"}
Filters == {"all"} \cup Sources
LogLine == [of : LogSandboxes, source : Sources]

VARIABLES
    view,      \* the log pane's fields of App
    pane,      \* focus: "dashboard", "policy", "draft" or "logs"
    selected,  \* the sandbox selected_sandbox_id() names
    stream,    \* what the task behind log_stream_handle does
    inbox      \* LogLines events in the channel, oldest first

logVars == <<view, pane, selected, stream, inbox>>

FilterMatches(f, l) == f = "all" \/ l.source = f
\* The positions of the lines that are listed; the keys use their number only.
FilteredLines(v) == {i \in DOMAIN v.lines : FilterMatches(v.filter, v.lines[i])}
FilteredLen(v) == Cardinality(FilteredLines(v))

Minus(a, b) == IF a > b THEN a - b ELSE 0     \* saturating_sub
Least(a, b) == IF a < b THEN a ELSE b
Greatest(a, b) == IF a < b THEN b ELSE a

CursorAbs(v) == v.scroll + v.cursor
Visible(v) == Least(Minus(FilteredLen(v), v.scroll), v.height)

\* log_autoscroll_offset: a few empty rows are kept below the last line.
AutoscrollOffset(v) ==
    IF v.height = 0 \/ FilteredLen(v) = 0 THEN 0
    ELSE Minus(FilteredLen(v), Minus(v.height, BottomPad))

\* What drawing the pane does to the view: the height is stored, the cursor clamped.
Drawn(v, h) ==
    LET w == [v EXCEPT !.height = h]
    IN  IF Visible(w) > 0 THEN [w EXCEPT !.cursor = Least(w.cursor, Visible(w) - 1)] ELSE w

\* A step leaves v; it is drawn when the focus is on the logs.
Shown(v, p) ==
    /\ pane' = p
    /\ view' = IF p = "logs" THEN Drawn(v, v.height) ELSE v

-----------------------------------------------------------------------------
(* The stream *)

NoStream == [of |-> "none", phase |-> "none"]

\* spawn_log_stream: the previous task is aborted; its events stay in the channel.
SpawnLogStream == stream' = [of |-> selected, phase |-> "history"]
CancelLogStream == stream' = NoStream

LinesOf(s) == {<<[of |-> s, source |-> x]>> : x \in Sources}

\* Phase 1, GetSandboxLogs: the history in one event, or one line saying that it failed.
StreamHistory ==
    /\ stream.phase = "history"
    /\ Len(inbox) < MaxLogQueue
    /\ \/ \E ls \in LinesOf(stream.of) :
              /\ inbox' = Append(inbox, ls)
              /\ stream' \in {[stream EXCEPT !.phase = "watch"], NoStream}
       \/ /\ stream' = [stream EXCEPT !.phase = "watch"]
          /\ UNCHANGED inbox
    /\ UNCHANGED <<view, pane, selected>>

\* Phase 2, WatchSandbox: one event per line until the stream ends.
StreamLine ==
    /\ stream.phase = "watch"
    /\ Len(inbox) < MaxLogQueue
    /\ \/ \E ls \in LinesOf(stream.of) : inbox' = Append(inbox, ls) /\ UNCHANGED stream
       \/ stream' = NoStream /\ UNCHANGED inbox
    /\ UNCHANGED <<view, pane, selected>>

\* Event::LogLines: while following, the view is scrolled to the end and the cursor pinned.
LogLines ==
    /\ inbox # <<>>
    /\ Len(view.lines) < MaxLogLines
    /\ LET v == [view EXCEPT !.lines = @ \o Head(inbox)]
           w == [v EXCEPT !.scroll = AutoscrollOffset(v)]
       IN  Shown(IF v.autoscroll THEN [w EXCEPT !.cursor = Minus(Visible(w), 1)] ELSE v, pane)
    /\ inbox' = Tail(inbox)
    /\ UNCHANGED <<selected, stream>>

-----------------------------------------------------------------------------
(* Entering and leaving the pane *)

\* 'l' in the policy pane and in the network rules pane.
OpenLogs ==
    /\ pane \in {"policy", "draft"}
    /\ pane' = "logs"
    /\ \E h \in Heights :
           view' = Drawn([view EXCEPT !.lines = <<>>, !.scroll = 0, !.cursor = 0, !.filter = "all",
                                      !.autoscroll = TRUE, !.detail = NoIndex], h)
    /\ SpawnLogStream
    /\ UNCHANGED <<selected, inbox>>

InLogs == pane = "logs" /\ view.detail = NoIndex

\* Esc first ends a selection, then leaves for the policy and stops the stream.
LeaveLogs ==
    /\ InLogs
    /\ IF view.anchor # NoIndex
       THEN Shown([view EXCEPT !.anchor = NoIndex], "logs") /\ UNCHANGED stream
       ELSE Shown(view, "policy") /\ CancelLogStream
    /\ UNCHANGED <<selected, inbox>>

MUT_SwitchPane ==
    /\ InLogs
    /\ \E p \in {"draft", "policy"} : Shown(view, p)
    /\ UNCHANGED <<selected, stream, inbox>>

\* 'r' and 'p' leave the stream running.
SwitchPane ==
    /\ InLogs
    /\ \E p \in {"draft", "policy"} : Shown([view EXCEPT !.anchor = NoIndex], p)
    /\ UNCHANGED <<selected, stream, inbox>>

\* Moves between the other panes, as far as they touch the stream; a gateway switch
\* (reset_sandbox_state) and a deletion also end on the dashboard.
OtherPanes ==
    \/ pane = "policy" /\ Shown(view, "draft") /\ UNCHANGED <<selected, stream, inbox>>
    \/ pane = "draft" /\ Shown(view, "policy") /\ UNCHANGED <<selected, stream, inbox>>
    \/ /\ pane = "policy"
       /\ Shown(view, "dashboard") /\ CancelLogStream
       /\ UNCHANGED <<selected, inbox>>
    \/ /\ pane = "dashboard"
       /\ \E s \in LogSandboxes : selected' = s
       /\ Shown(view, "policy")
       /\ UNCHANGED <<stream, inbox>>
    \/ /\ pane = "dashboard"
       /\ Shown([view EXCEPT !.lines = <<>>, !.scroll = 0, !.cursor = 0, !.autoscroll = TRUE,
                             !.detail = NoIndex, !.anchor = NoIndex], "dashboard")
       /\ CancelLogStream
       /\ UNCHANGED <<selected, inbox>>

-----------------------------------------------------------------------------
(* Keys in the pane *)

Stay == UNCHANGED <<selected, stream, inbox>>

ScrollDown(v) ==
    LET maxScroll == Minus(FilteredLen(v), Least(v.height, FilteredLen(v)))
    IN  IF FilteredLen(v) = 0 THEN v
        ELSE IF v.cursor < Minus(Visible(v), 1) THEN [v EXCEPT !.cursor = @ + 1]
        ELSE IF v.scroll < maxScroll THEN [v EXCEPT !.scroll = @ + 1]
        ELSE v

ScrollUp(v) ==
    LET w == [v EXCEPT !.autoscroll = FALSE]
    IN  IF v.cursor > 0 THEN [w EXCEPT !.cursor = @ - 1]
        ELSE [w EXCEPT !.scroll = Minus(@, 1)]

\* 'G' and 'f': follow again.
Follow(v) ==
    LET w == [v EXCEPT !.anchor = NoIndex, !.autoscroll = TRUE, !.scroll = AutoscrollOffset(v)]
    IN  [w EXCEPT !.cursor = Least(Minus(Minus(FilteredLen(w), w.scroll), 1), Minus(w.height, 1))]

ToTop(v) == [v EXCEPT !.scroll = 0, !.cursor = 0, !.autoscroll = FALSE]

\* 's': the next source; the indices of the old list mean nothing in the new one.
NextFilter(v) ==
    LET next == [all |-> "gateway", gateway |-> "sandbox", sandbox |-> "all"]
    IN  [v EXCEPT !.filter = next[@], !.anchor = NoIndex, !.scroll = 0, !.cursor = 0]

\* 'v': start or cancel a selection at the cursor's line.
ToggleVisual(v) ==
    IF v.anchor # NoIndex THEN [v EXCEPT !.anchor = NoIndex]
    ELSE [v EXCEPT !.anchor = CursorAbs(v), !.autoscroll = FALSE]

\* Enter: details of the line under the cursor.
OpenDetail(v) ==
    IF FilteredLen(v) > 0 /\ v.anchor = NoIndex /\ CursorAbs(v) < FilteredLen(v)
    THEN [v EXCEPT !.detail = CursorAbs(v)] ELSE v

\* 'y' ends a selection; 'Y' and 'y' on one line only copy.
Yank(v) == IF FilteredLen(v) = 0 THEN v ELSE [v EXCEPT !.anchor = NoIndex]

\* scroll_logs: the mouse wheel, three lines at a time.
WheelDown(v) == [v EXCEPT !.scroll = Least(@ + 3, AutoscrollOffset(v))]
WheelUp(v) == [v EXCEPT !.scroll = Minus(@, 3), !.autoscroll = FALSE]
Wheeled(v) == [v EXCEPT !.cursor = IF Visible(v) > 0 THEN Least(@, Visible(v) - 1) ELSE 0]

LogKey ==
    /\ InLogs
    /\ \E v \in {ScrollDown(view), ScrollUp(view), Follow(view), ToTop(view), NextFilter(view),
                 ToggleVisual(view), OpenDetail(view), Yank(view)} : Shown(v, "logs")
    /\ Stay

\* The wheel scrolls whatever popup is open.
Wheel ==
    /\ pane = "logs"
    /\ \E v \in {WheelDown(view), WheelUp(view)} : Shown(Wheeled(v), "logs")
    /\ Stay

CloseDetail ==
    /\ pane = "logs" /\ view.detail # NoIndex
    /\ Shown([view EXCEPT !.detail = NoIndex], "logs")
    /\ Stay

\* A resized terminal: the next frame has another height.
Resize ==
    /\ pane = "logs"
    /\ \E h \in Heights : view' = Drawn(view, h)
    /\ UNCHANGED <<pane, selected, stream, inbox>>

-----------------------------------------------------------------------------

LogInit ==
    /\ view = [lines |-> <<>>, filter |-> "all", scroll |-> 0, cursor |-> 0, autoscroll |-> TRUE,
               anchor |-> NoIndex, detail |-> NoIndex, height |-> 0]
    /\ pane = "dashboard"
    /\ selected \in LogSandboxes
    /\ stream = NoStream
    /\ inbox = <<>>

LogNext ==
    \/ StreamHistory \/ StreamLine \/ LogLines \/ OpenLogs \/ LeaveLogs \/ SwitchPane \/ OtherPanes
    \/ LogKey \/ Wheel \/ CloseDetail \/ Resize

LogSpec == LogInit /\ [][LogNext]_logVars

-----------------------------------------------------------------------------

LogTypeOK ==
    /\ view \in [lines : Seq(LogLine), filter : Filters, scroll : Nat, cursor : Nat,
                 autoscroll : BOOLEAN, anchor : Nat \cup {NoIndex}, detail : Nat \cup {NoIndex},
                 height : Nat]
    /\ pane \in {"dashboard", "policy", "draft", "logs"}
    /\ selected \in LogSandboxes
    /\ stream \in [of : LogSandboxes \cup {"none"}, phase : {"none", "history", "watch"}]
    /\ inbox \in Seq(Seq(LogLine))

\* Yanking slices the filtered lines by stored indices, and a slice whose start lies beyond
\* its end panics in raw terminal mode.  Whatever was cleared, filtered, resized or appended
\* since the indices were stored, 'y' and 'Y' slice within the list, and a selection was
\* started on a line of the list that is shown, or on the row below its last.
YankInBounds ==
    LET n == FilteredLen(view)
        start == Least(view.anchor, CursorAbs(view))
        end == Least(Greatest(view.anchor, CursorAbs(view)), n - 1)
    IN  InLogs /\ n > 0 =>
            /\ view.anchor # NoIndex => start <= end + 1 /\ view.anchor <= n
            /\ view.scroll <= Least(view.scroll + view.height, n)

\* After any keys, batches of lines, filters and resizes the indices of the log
\* view are well formed and a yank slices within the filtered list.
LogViewSound == LogTypeOK /\ YankInBounds
=============================================================================
