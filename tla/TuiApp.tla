------------------------------- MODULE TuiApp -------------------------------
(***************************************************************************)
(* The terminal UI's event loop (openshell-tui, app.rs and lib.rs): keys   *)
(* go to the topmost modal or to the focused pane, pending_* flags set by  *)
(* a key are consumed in the same turn of the loop, and requests run in    *)
(* background tasks whose results come back as events while the user goes  *)
(* on working.                                                             *)
(*                                                                         *)
(* A task's event is handled at the moment it is sent: a later turn of the *)
(* loop is the task answering later, because the handlers read nothing but *)
(* the event and the App.  Cursors and text fields are left out, except    *)
(* the selected sandbox, which requests name.                              *)
(***************************************************************************)
EXTENDS Integers, Selecting

CONSTANTS
    Gateways,
    GatewaySandboxes,   \* [Gateways -> sandboxes that may exist there]
    MaxTasks            \* bound on background requests under way

ASSUME TuiAssumption == MaxTasks \in Nat

TuiSandboxes == UNION {GatewaySandboxes[g] : g \in Gateways}
SettingKinds == {"bool", "text"}

\* handle_key asks these in order; the first that is open takes the key.
ModalOrder == <<"confirmSet", "confirmDelete", "sbConfirmSet", "sbConfirmDelete", "sbEdit",
                "edit", "create", "provider", "detail", "update">>
Modals == {ModalOrder[i] : i \in DOMAIN ModalOrder}

\* The background requests; those of the settings have the name of their confirmation.
TaskKinds == {"confirmSet", "confirmDelete", "sbConfirmSet", "sbConfirmDelete", "create", "provider",
              "detail", "update", "deleteProvider", "approve", "reject", "approveAll"}

VARIABLES
    running,
    suspended, \* the terminal is lent to "shell" or "exec", else "no"
    nav,       \* screen, focus, command mode, the two tabs, popups of single panes
    modal,     \* [Modals -> "none" or its contents or phase]
    result,    \* create_result of the two create forms
    ticker,    \* live animation tickers; anim_handle holds the last one started
    gatewayName,   \* the gateway client and gateway_name name
    exists,    \* [Gateways -> Seq of sandboxes], the server's order
    list,      \* sandbox_names
    sel,       \* sandbox_selected, 0-based
    providers, \* provider_count > 0
    drafts,    \* whose chunks draft_chunks holds
    isGlobal,  \* sandbox_policy_is_global
    tasks,     \* [TaskKinds -> how many of these requests are under way]
    busy       \* how many there are of all kinds

tuiVars == <<running, suspended, nav, modal, result, ticker, gatewayName, exists, list, sel, providers, drafts,
             isGlobal, tasks, busy>>
shownData == <<list, sel, providers, drafts, isGlobal>>
world == <<running, suspended, gatewayName, exists>>
forms == <<result, ticker>>
requests == <<tasks, busy>>

TopModal ==
    LET open == {i \in DOMAIN ModalOrder : modal[ModalOrder[i]] # "none"}
    IN  IF open = {} THEN "none" ELSE ModalOrder[FirstAt(ModalOrder, open)]

\* The loop waits for its child process while the terminal is lent to it.
Looping == running /\ suspended = "no"
\* Key input reaches handler h: no splash screen and no modal before it.
KeyFor(h) == Looping /\ nav.screen # "splash" /\ TopModal = h
PaneKey(f) == KeyFor("none") /\ ~nav.command /\ nav.focus = f
Open(m, v) == modal' = [modal EXCEPT ![m] = v]
Close(ms) == modal' = [m \in Modals |-> IF m \in ms THEN "none" ELSE modal[m]]

\* The list without the sandbox.
Without(boxes, s) == PickAt(boxes, {i \in DOMAIN boxes : boxes[i] # s})

HasSelection == sel < Len(list)
Selected == list[sel + 1]

\* The task has its own copy of the client and of the names it was started with.
Spawn(kind) ==
    /\ busy < MaxTasks /\ busy' = busy + 1
    /\ tasks' = [tasks EXCEPT ![kind] = @ + 1]

-----------------------------------------------------------------------------
(* Refreshing, in the event loop; each request may fail or time out *)

Clamped(i, n) == IF i >= n /\ n > 0 THEN n - 1 ELSE i

\* refresh_sandboxes keeps the index, not the sandbox.
RefreshSandboxes(g) ==
    \/ list' = exists[g] /\ sel' = Clamped(sel, Len(exists[g]))
    \/ UNCHANGED <<list, sel>>

RefreshProviders == providers' \in BOOLEAN
\* fetch_sandbox_detail and refresh_sandbox_policy: GetSandboxConfig's policy source.
RefreshPolicySource == isGlobal' \in BOOLEAN
\* refresh_draft_chunks asks for the sandbox now selected in the refreshed list.
RefreshDrafts == \/ /\ sel' < Len(list')
                    /\ drafts' = list'[sel' + 1]
                 \/ UNCHANGED drafts

\* Event::Tick; on the sandbox screen the policy and the chunks are fetched too.
Tick ==
    /\ Looping
    /\ nav' \in {nav, IF nav.screen = "splash" THEN [nav EXCEPT !.screen = "dashboard"] ELSE nav}
    /\ RefreshSandboxes(gatewayName) /\ RefreshProviders
    /\ IF nav'.screen = "sandbox" THEN RefreshPolicySource /\ RefreshDrafts ELSE UNCHANGED <<isGlobal, drafts>>
    /\ UNCHANGED <<world, modal, forms, requests>>

-----------------------------------------------------------------------------
(* Navigation *)

DismissSplash ==
    /\ Looping /\ nav.screen = "splash"
    /\ nav' = [nav EXCEPT !.screen = "dashboard"]
    /\ UNCHANGED <<world, modal, forms, shownData, requests>>

Quit ==
    /\ Looping        \* Ctrl-C comes before any modal; 'q' and ':q' are further ways out
    /\ running' = FALSE
    /\ ticker' = 0
    /\ UNCHANGED <<suspended, nav, modal, result, gatewayName, exists, shownData, requests>>

\* ':' opens the command line of the dashboard; Esc and Enter leave it.
CommandLine ==
    /\ KeyFor("none")
    /\ nav.screen = "dashboard" /\ ~nav.confirmProvider
    /\ nav' = [nav EXCEPT !.command = ~@]
    /\ UNCHANGED <<world, modal, forms, shownData, requests>>

\* Tab and BackTab on the dashboard, the pane tabs, and the moves between the sandbox panes.
MoveFocus ==
    /\ KeyFor("none") /\ ~nav.command
    /\ ~nav.confirmProvider /\ ~nav.confirmSandbox /\ ~nav.approveAll /\ ~nav.draftDetail
    /\ \/ /\ nav.screen = "dashboard"
          /\ \E f \in {"gateways", "providers", "sandboxes"} : nav' = [nav EXCEPT !.focus = f]
       \/ /\ nav.focus = "providers"
          /\ nav' = [nav EXCEPT !.settingsTab = ~@]
       \/ /\ nav.focus = "policy"
          /\ nav' = [nav EXCEPT !.sandboxTab = ~@]
       \/ /\ nav.screen = "sandbox" /\ ~(nav.focus = "policy" /\ nav.sandboxTab)
          /\ \E f \in {"policy", "draft", "logs"} : nav' = [nav EXCEPT !.focus = f]
    /\ UNCHANGED <<world, modal, forms, shownData, requests>>

MoveSelection ==
    /\ PaneKey("sandboxes")
    /\ sel' \in {IF list = <<>> THEN sel ELSE Clamped(sel + 1, Len(list)), IF sel = 0 THEN 0 ELSE sel - 1}
    /\ UNCHANGED <<world, nav, modal, forms, list, providers, drafts, isGlobal, requests>>

\* Enter on a sandbox: the chunks on display stay those fetched last.
OpenSandbox ==
    /\ PaneKey("sandboxes") /\ list # <<>>
    /\ nav' = [nav EXCEPT !.screen = "sandbox", !.focus = "policy", !.confirmSandbox = FALSE]
    /\ IF HasSelection THEN RefreshPolicySource ELSE UNCHANGED isGlobal
    /\ UNCHANGED <<world, modal, forms, list, sel, providers, drafts, requests>>

LeaveSandbox ==
    /\ PaneKey("policy") /\ ~nav.confirmSandbox
    /\ nav' = [nav EXCEPT !.screen = "dashboard", !.focus = "sandboxes", !.sandboxTab = FALSE,
                          !.draftDetail = IF nav.sandboxTab THEN @ ELSE FALSE]
    /\ UNCHANGED <<world, modal, forms, shownData, requests>>

\* reset_sandbox_state after the connection to the new gateway stands; the tasks of the
\* old gateway go on.  The chunks, the sandbox settings and the modals are left as they are.
SwitchGateway ==
    /\ PaneKey("gateways")
    /\ \/ \E g \in Gateways \ {gatewayName} :
              /\ gatewayName' = g
              /\ nav' = [nav EXCEPT !.focus = "providers", !.confirmSandbox = FALSE, !.confirmProvider = FALSE]
              /\ ticker' = 0
              /\ \/ list' = exists[g] /\ sel' = 0
                 \/ list' = <<>> /\ sel' = 0
              /\ RefreshProviders
       \/ \* the gateway already in use, or a connection that failed
          /\ nav' = [nav EXCEPT !.focus = "providers"]
          /\ UNCHANGED <<gatewayName, ticker, list, sel, providers>>
    /\ UNCHANGED <<running, suspended, exists, modal, result, drafts, isGlobal, requests>>

-----------------------------------------------------------------------------
(* Settings: an edit overlay, then a confirmation on top of it *)

Scopes == [global |-> [edit |-> "edit", set |-> "confirmSet", del |-> "confirmDelete"],
           sandbox |-> [edit |-> "sbEdit", set |-> "sbConfirmSet", del |-> "sbConfirmDelete"]]

AtSettings(sc) ==
    \/ sc = "global" /\ PaneKey("providers") /\ nav.settingsTab
    \/ sc = "sandbox" /\ PaneKey("policy") /\ nav.sandboxTab /\ ~nav.confirmSandbox

\* Enter on a setting: a bool is toggled and goes straight to the confirmation.
EditSetting(sc) ==
    /\ AtSettings(sc)
    /\ \E k \in SettingKinds :
           modal' = [modal EXCEPT ![Scopes[sc].edit] = k,
                                  ![Scopes[sc].set] = IF k = "bool" THEN k ELSE @]
    /\ UNCHANGED <<world, nav, forms, shownData, requests>>

\* 'd' on a setting that has a value.
AskDelete(sc) ==
    /\ AtSettings(sc)
    /\ \E k \in SettingKinds : Open(Scopes[sc].del, k)
    /\ UNCHANGED <<world, nav, forms, shownData, requests>>

\* In the overlay: Esc closes it, Enter on a valid input asks for confirmation.
EditKey(sc) ==
    /\ KeyFor(Scopes[sc].edit)
    /\ \/ Close({Scopes[sc].edit})
       \/ Open(Scopes[sc].set, modal[Scopes[sc].edit])
    /\ UNCHANGED <<world, nav, forms, shownData, requests>>

\* The request is sent if the overlay is still open and, for a sandbox, one is selected.
SendGlobalSetting ==
    IF modal["edit"] # "none" THEN Spawn("confirmSet") ELSE UNCHANGED requests
SendSandboxSetting ==
    IF modal["sbEdit"] # "none" /\ HasSelection THEN Spawn("sbConfirmSet") ELSE UNCHANGED requests
SendGlobalDelete == Spawn("confirmDelete")
SendSandboxDelete == IF HasSelection THEN Spawn("sbConfirmDelete") ELSE UNCHANGED requests

\* 'y' closes the confirmation; the overlay stays open until the answer.  'n' closes both.
ConfirmSet(sc, send) ==
    /\ KeyFor(Scopes[sc].set)
    /\ \/ Close({Scopes[sc].set}) /\ send
       \/ Close({Scopes[sc].set, Scopes[sc].edit}) /\ UNCHANGED requests
    /\ UNCHANGED <<world, nav, forms, shownData>>

ConfirmDelete(sc, send) ==
    /\ KeyFor(Scopes[sc].del)
    /\ Close({Scopes[sc].del})
    /\ send \/ UNCHANGED requests
    /\ UNCHANGED <<world, nav, forms, shownData>>

GlobalSettingsKey == EditSetting("global") \/ AskDelete("global")
SandboxSettingsKey == EditSetting("sandbox") \/ AskDelete("sandbox")
SettingEditKey == EditKey("global")
SandboxSettingEditKey == EditKey("sandbox")
SettingConfirmKey ==
    \/ ConfirmSet("global", SendGlobalSetting)
    \/ ConfirmDelete("global", SendGlobalDelete)
SandboxSettingConfirmKey ==
    \/ ConfirmSet("sandbox", SendSandboxSetting)
    \/ ConfirmDelete("sandbox", SendSandboxDelete)

-----------------------------------------------------------------------------
(* Create forms, provider detail and update *)

OpenCreate ==
    /\ PaneKey("sandboxes")
    /\ Open("create", "form")
    /\ UNCHANGED <<world, nav, forms, shownData, requests>>

\* start_anim_ticker overwrites anim_handle.
StartTicker == ticker' = ticker + 1

\* No key but Ctrl-C does anything while the form is Creating.
CreateKey ==
    /\ KeyFor("create") /\ modal["create"] = "form"
    /\ \/ Close({"create"}) /\ UNCHANGED <<ticker, requests>>
       \/ /\ Open("create", "creating")
          /\ Spawn("create")
          /\ StartTicker
    /\ UNCHANGED <<world, nav, result, shownData>>

OpenProviderForm ==
    /\ PaneKey("providers") /\ ~nav.settingsTab /\ ~nav.confirmProvider
    /\ Open("provider", "type")
    /\ UNCHANGED <<world, nav, forms, shownData, requests>>

SubmitProvider ==
    /\ Open("provider", "creating")
    /\ Spawn("provider")
    /\ StartTicker

\* SelectType, ChooseMethod (credentials found in the environment or not), EnterKey.
ProviderFormKey ==
    /\ KeyFor("provider")
    /\ \/ /\ modal["provider"] = "type"
          /\ \E p \in {"none", "method", "key"} : Open("provider", p)
          /\ UNCHANGED <<ticker, requests>>
       \/ /\ modal["provider"] = "method"
          /\ \E p \in {"type", "key"} : Open("provider", p)
          /\ UNCHANGED <<ticker, requests>>
       \/ /\ modal["provider"] = "key"
          /\ Open("provider", "type")
          /\ UNCHANGED <<ticker, requests>>
       \/ modal["provider"] \in {"method", "key"} /\ SubmitProvider
    /\ UNCHANGED <<world, nav, result, shownData>>

\* Enter, 'u' and 'd' on a provider; 'y' on the deletion.
ProviderKey ==
    /\ PaneKey("providers") /\ ~nav.settingsTab
    /\ \/ /\ ~nav.confirmProvider /\ providers
          /\ \/ Spawn("detail") /\ UNCHANGED <<nav, modal>>
             \/ Open("update", "open") /\ UNCHANGED <<nav, requests>>
             \/ nav' = [nav EXCEPT !.confirmProvider = TRUE] /\ UNCHANGED <<modal, requests>>
       \/ /\ nav.confirmProvider
          /\ nav' = [nav EXCEPT !.confirmProvider = FALSE]
          /\ Spawn("deleteProvider") \/ UNCHANGED requests
          /\ UNCHANGED modal
    /\ UNCHANGED <<world, forms, shownData>>

DetailKey ==
    /\ KeyFor("detail")
    /\ Close({"detail"})
    /\ UNCHANGED <<world, nav, forms, shownData, requests>>

\* Esc closes the form whether or not a request is under way; Enter sends (another) one.
UpdateKey ==
    /\ KeyFor("update")
    /\ \/ Close({"update"}) /\ UNCHANGED requests
       \/ Spawn("update") /\ UNCHANGED modal
    /\ UNCHANGED <<world, nav, forms, shownData>>

-----------------------------------------------------------------------------
(* Sandbox deletion, shell and network rules *)

\* 'd', then 'y': the sandbox selected at the time of 'y' is deleted, in the event loop.
DeleteKey ==
    /\ PaneKey("policy")
    /\ \/ /\ ~nav.confirmSandbox /\ ~nav.sandboxTab
          /\ nav' = [nav EXCEPT !.confirmSandbox = TRUE]
          /\ UNCHANGED <<exists, list, sel>>
       \/ /\ nav.confirmSandbox
          /\ nav' = [nav EXCEPT !.confirmSandbox = FALSE]
          /\ UNCHANGED <<exists, list, sel>>
       \/ /\ nav.confirmSandbox /\ HasSelection
          /\ nav' = [nav EXCEPT !.confirmSandbox = FALSE, !.screen = "dashboard", !.focus = "sandboxes"]
          /\ LET left == Without(exists[gatewayName], Selected)
             IN  \/ /\ exists' = [exists EXCEPT ![gatewayName] = left]
                    /\ \/ list' = left /\ sel' = Clamped(sel, Len(left))
                       \/ UNCHANGED <<list, sel>>
                 \/ UNCHANGED <<exists, list, sel>>
    /\ UNCHANGED <<running, suspended, gatewayName, modal, forms, providers, drafts, isGlobal, requests>>

\* handle_shell_connect: no sandbox, session or executable, and it returns at once; else the
\* event reader is paused and the terminal lent to ssh.  refresh_data follows either way.
ShellConnect ==
    /\ PaneKey("policy") /\ ~nav.confirmSandbox /\ ~nav.sandboxTab /\ list # <<>>
    /\ \/ /\ RefreshSandboxes(gatewayName) /\ RefreshProviders
          /\ UNCHANGED suspended
       \/ /\ HasSelection /\ suspended' = "shell"
          /\ UNCHANGED <<list, sel, providers>>
    /\ UNCHANGED <<running, gatewayName, exists, nav, modal, forms, drafts, isGlobal, requests>>

\* ssh exits, or could not be started: the terminal is taken back and the reader resumed.
ChildExits ==
    /\ running /\ suspended # "no"
    /\ suspended' = "no"
    /\ IF suspended = "shell" THEN RefreshSandboxes(gatewayName) /\ RefreshProviders
       ELSE UNCHANGED <<list, sel, providers>>
    /\ UNCHANGED <<running, gatewayName, exists, nav, modal, forms, drafts, isGlobal, requests>>

\* The chunk shown, for the sandbox selected now.
ApproveChunk == Spawn("approve")
RejectChunk == Spawn("reject")
\* ApproveAllDraftChunks leaves the flagged chunks out; the snapshot confirmed is not sent.
ApproveAll == HasSelection /\ Spawn("approveAll")

\* 'a' and 'x' on a chunk, 'A' for all with a confirmation; none while the policy is global.
DraftKey ==
    /\ PaneKey("draft")
    /\ \/ /\ nav.approveAll
          /\ nav' = [nav EXCEPT !.approveAll = FALSE]
          /\ ApproveAll \/ UNCHANGED requests
       \/ /\ ~nav.approveAll /\ drafts # "none"
          /\ nav' = [nav EXCEPT !.draftDetail = ~@]
          /\ UNCHANGED requests
       \/ /\ ~nav.approveAll /\ ~isGlobal /\ drafts # "none" /\ HasSelection
          /\ nav' = [nav EXCEPT !.draftDetail = FALSE]
          /\ ApproveChunk \/ RejectChunk
       \/ /\ ~nav.approveAll /\ ~nav.draftDetail /\ ~isGlobal /\ drafts # "none"
          /\ nav' = [nav EXCEPT !.approveAll = TRUE]
          /\ UNCHANGED requests
    /\ UNCHANGED <<world, modal, forms, shownData>>

-----------------------------------------------------------------------------
(* Results of background tasks *)

Finish(kind) == tasks' = [tasks EXCEPT ![kind] = @ - 1] /\ busy' = busy - 1
Answers(kind, kinds) == Looping /\ kind \in kinds

\* CreateResult and ProviderCreateResult are buffered in the form that is open.
Buffer(kind, r) ==
    /\ result' = [result EXCEPT ![kind] = IF modal[kind] # "none" THEN r ELSE @]
    /\ Finish(kind)
    /\ UNCHANGED <<world, nav, modal, ticker, shownData>>

\* spawn_create_sandbox: refused, timed out, or never Ready in 150 polls is an error; port
\* forwards that cannot be started are not.
SandboxCreated(kind) == Answers(kind, {"create"}) /\ \E r \in {"ok", "err"} : Buffer(kind, r)
\* spawn_create_provider: five names are tried before a collision is an error.
ProviderCreated(kind) == Answers(kind, {"provider"}) /\ \E r \in {"ok", "err"} : Buffer(kind, r)

MUT_Redraw(f) ==
    /\ Looping /\ ticker > 0
    /\ modal[f] # "none" /\ result[f] # "none"
    /\ Open(f, IF result[f] = "ok" THEN "none" ELSE "creating")
    /\ result' = [result EXCEPT ![f] = "none"]
    /\ ticker' = ticker - 1
    /\ UNCHANGED <<world, nav, list, sel, providers, drafts, isGlobal, requests>>

\* Event::Redraw, sent by a ticker, once MIN_CREATING_DISPLAY has passed: a success closes
\* the form, a failure brings it back; the ticker is stopped either way.  With a command in
\* the form, handle_exec_command then lends the terminal to ssh.
Redraw(f) ==
    /\ Looping /\ ticker > 0
    /\ modal[f] # "none" /\ result[f] # "none"
    /\ Open(f, IF result[f] = "ok" THEN "none" ELSE IF f = "create" THEN "form" ELSE "key")
    /\ result' = [result EXCEPT ![f] = "none"]
    /\ ticker' = ticker - 1
    /\ IF f = "create" /\ result[f] = "ok"
       THEN RefreshSandboxes(gatewayName) /\ UNCHANGED providers
       ELSE /\ UNCHANGED <<list, sel>>
            /\ IF result[f] = "ok" THEN RefreshProviders ELSE UNCHANGED providers
    /\ suspended' \in IF f = "create" /\ result[f] = "ok" THEN {"no", "exec"} ELSE {"no"}
    /\ UNCHANGED <<running, gatewayName, exists, nav, drafts, isGlobal, requests>>

\* The detail popup opens whatever is on the screen by now.
DetailFetched(kind) ==
    /\ Answers(kind, {"detail"})
    /\ Open("detail", "open") \/ UNCHANGED modal
    /\ Finish(kind)
    /\ UNCHANGED <<world, nav, forms, shownData>>

\* A success closes the update form that is open, even one opened since.
ProviderUpdated(kind) ==
    /\ Answers(kind, {"update"})
    /\ \/ Close({"update"}) /\ RefreshProviders
       \/ UNCHANGED <<modal, providers>>
    /\ Finish(kind)
    /\ UNCHANGED <<world, nav, forms, list, sel, drafts, isGlobal>>

ProviderDeleted(kind) ==
    /\ Answers(kind, {"deleteProvider"})
    /\ RefreshProviders \/ UNCHANGED providers
    /\ Finish(kind)
    /\ UNCHANGED <<world, nav, modal, forms, list, sel, drafts, isGlobal>>

\* GlobalSettingSetResult and SandboxSettingSetResult close the overlay of their scope,
\* whatever it edits by now; the confirmation is not touched.
SettingAnswered(kind) ==
    \E sc \in DOMAIN Scopes :
        /\ Answers(kind, {Scopes[sc].set, Scopes[sc].del})
        /\ IF kind = Scopes[sc].set THEN Close({Scopes[sc].edit}) ELSE UNCHANGED modal
        /\ Finish(kind)
        /\ IF sc = "sandbox" /\ HasSelection THEN RefreshPolicySource ELSE UNCHANGED isGlobal
        /\ UNCHANGED <<world, nav, forms, list, sel, providers, drafts>>

DraftAnswered(kind) ==
    /\ Answers(kind, {"approve", "reject", "approveAll"})
    /\ Finish(kind)
    /\ UNCHANGED <<world, nav, modal, forms, list, sel, providers, isGlobal>>
    /\ RefreshDrafts

\* Other users create and delete sandboxes.
ServerChanges ==
    /\ \E g \in Gateways, s \in TuiSandboxes :
           /\ s \in GatewaySandboxes[g]
           /\ exists' = [exists EXCEPT ![g] = IF \E i \in DOMAIN @ : @[i] = s THEN Without(@, s)
                                              ELSE Append(@, s)]
    /\ UNCHANGED <<running, suspended, gatewayName, nav, modal, forms, shownData, requests>>

-----------------------------------------------------------------------------

TuiInit ==
    /\ running = TRUE /\ suspended = "no"
    /\ nav = [screen |-> "splash", focus |-> "gateways", command |-> FALSE, settingsTab |-> FALSE,
              sandboxTab |-> FALSE, confirmProvider |-> FALSE, confirmSandbox |-> FALSE,
              approveAll |-> FALSE, draftDetail |-> FALSE]
    /\ modal = [m \in Modals |-> "none"]
    /\ result = [f \in {"create", "provider"} |-> "none"]
    /\ ticker = 0
    /\ gatewayName \in Gateways
    /\ exists = [g \in Gateways |-> <<>>]
    /\ list = <<>> /\ sel = 0
    /\ providers = FALSE
    /\ drafts = "none"
    /\ isGlobal = FALSE
    /\ tasks = [k \in TaskKinds |-> 0] /\ busy = 0

TuiAnswer(kind) ==
    \/ SandboxCreated(kind) \/ ProviderCreated(kind) \/ DetailFetched(kind) \/ ProviderUpdated(kind)
    \/ ProviderDeleted(kind) \/ SettingAnswered(kind)
    \/ DraftAnswered(kind)

TuiNext ==
    \/ Tick \/ DismissSplash \/ Quit \/ CommandLine \/ MoveFocus \/ MoveSelection
    \/ OpenSandbox \/ LeaveSandbox \/ SwitchGateway
    \/ GlobalSettingsKey \/ SandboxSettingsKey \/ SettingEditKey \/ SandboxSettingEditKey
    \/ SettingConfirmKey \/ SandboxSettingConfirmKey
    \/ OpenCreate \/ CreateKey \/ OpenProviderForm \/ ProviderFormKey \/ ProviderKey
    \/ DetailKey \/ UpdateKey \/ DeleteKey \/ ShellConnect \/ ChildExits \/ DraftKey
    \/ \E kind \in TaskKinds : tasks[kind] > 0 /\ TuiAnswer(kind)
    \/ \E f \in {"create", "provider"} : Redraw(f)
    \/ ServerChanges

TuiSpec == TuiInit /\ [][TuiNext]_tuiVars

-----------------------------------------------------------------------------

TuiTypeOK ==
    /\ running \in BOOLEAN /\ suspended \in {"no", "shell", "exec"}
    /\ nav \in [screen : {"splash", "dashboard", "sandbox"},
                focus : {"gateways", "providers", "sandboxes", "policy", "draft", "logs"},
                command : BOOLEAN, settingsTab : BOOLEAN, sandboxTab : BOOLEAN,
                confirmProvider : BOOLEAN, confirmSandbox : BOOLEAN, approveAll : BOOLEAN,
                draftDetail : BOOLEAN]
    /\ modal \in [Modals -> {"none", "open", "form", "creating", "type", "method", "key"} \cup SettingKinds]
    /\ result \in [{"create", "provider"} -> {"none", "ok", "err"}]
    /\ ticker \in Nat
    /\ gatewayName \in Gateways
    /\ sel \in Nat /\ list \in Seq(TuiSandboxes)
    /\ drafts \in TuiSandboxes \cup {"none"}
    /\ busy <= MaxTasks

\* While a form is Creating it takes no key, and only a Redraw of the shared ticker can end
\* that: the form must have its ticker and exactly one answer, still to come or buffered,
\* whatever other requests, refreshes and gateway switches happen meanwhile.
CreatingWillEnd ==
    \A f \in {"create", "provider"} :
        /\ running /\ modal[f] = "creating" =>
               /\ ticker = 1
               /\ tasks[f] + (IF result[f] = "none" THEN 0 ELSE 1) = 1
        /\ modal[f] # "creating" => tasks[f] = 0

\* After any keys and answers the screen's state is well formed and a form that
\* shows "creating" has one answer to come and a ticker to show it.
FormsSound == TuiTypeOK /\ CreatingWillEnd
=============================================================================
