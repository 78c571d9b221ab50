------------------------------ MODULE Settings -----------------------------
(***************************************************************************)
(* Preferences in force: the settings page, the effects that tell the      *)
(* process of a change, and the session that an investigation starts with  *)
(* (SettingsView.jsx, TimeWindowPopover.jsx, App.jsx,                      *)
(* startOptionsFromPreferences).                                           *)
(*                                                                         *)
(* The calls to the process are served in the order they are made, each    *)
(* with its answer.  The settings page is open.                            *)
(***************************************************************************)
EXTENDS Integers, Sequences

CONSTANTS Refreshes,    \* refresh intervals, seconds
          WindowChoices,\* minutes a window can be asked for
          Kubeconfigs,  \* paths typed for a kubeconfig
          Proxies,      \* proxies typed
          NoPath,       \* empty: what the process finds by itself
          NoOpts,       \* no options: nothing is being started
          MaxEdits      \* changes by the user

(* what a session may be started with: the window is clamped, the interval is 10 s unless chosen *)
Options == [refresh : Refreshes \cup {10}, auto : BOOLEAN, window : 1 .. 15, kubeconfig : Kubeconfigs \cup {NoPath}]

ASSUME SettingAssumption == WindowChoices \subseteq Int /\ NoOpts \notin Options

VARIABLES
  prefs,     \* the hook's preferences
  invest,    \* [running, starting, opts (captured by the click), strayed (a change since),
             \* told (the process knew the preferences' kubeconfig at the click)]
  bridge,    \* calls to the process not served yet
  process,   \* [kubeconfig, proxy, session]
  form       \* [proxyDraft, kubeDraft, proxyBusy, kubeBusy, active, applied, edits]

settingVars == <<prefs, invest, bridge, process, form>>

Clamped(m) == IF m > 15 THEN 15 ELSE IF m < 1 THEN 1 ELSE m

(* startOptionsFromPreferences: a path of the preferences before the cluster's *)
startOptions(p, kubeconfig) ==
  [refresh |-> p.refresh, auto |-> p.auto, window |-> p.window,
   kubeconfig |-> IF p.kubeconfig = NoPath THEN kubeconfig ELSE p.kubeconfig]

-----------------------------------------------------------------------------
(* A commit with other preferences or another state of the investigation: the
   page's effects, then App's. *)

PollCalls(p) == <<[op |-> "auto", v |-> p.auto], [op |-> "poll", v |-> p.refresh]>>

When(c, calls) == IF c THEN calls ELSE <<>>

Reported(p, running, calls) ==
  calls
    \o When(p.proxy # prefs.proxy, <<[op |-> "getproxy"], [op |-> "proxy", v |-> p.proxy, page |-> FALSE]>>)
    \o When(running /\ (~invest.running \/ p.auto # prefs.auto \/ p.refresh # prefs.refresh), PollCalls(p))

Drafts(p, f) ==
  [f EXCEPT !.proxyDraft = IF p.proxy # prefs.proxy THEN p.proxy ELSE @,
            !.kubeDraft = IF p.kubeconfig # prefs.kubeconfig THEN p.kubeconfig ELSE @]

(* calls are those a handler makes before the page is rendered *)
Commit(p, f, calls) ==
  /\ prefs' = p
  /\ form' = Drafts(p, [f EXCEPT !.edits = @ + 1])
  /\ bridge' = bridge \o Reported(p, invest.running, calls)
  /\ invest' = [invest EXCEPT !.strayed = @ \/ (p # prefs /\ invest.starting)]
  /\ UNCHANGED process

MayEdit == form.edits < MaxEdits

-----------------------------------------------------------------------------
(* The rows of the page and the window's popover. *)

ChangeRefresh(v) == MayEdit /\ Commit([prefs EXCEPT !.refresh = v], form, <<>>)

ChangeAuto == MayEdit /\ Commit([prefs EXCEPT !.auto = ~@], form, <<>>)

(* the popover is open only while an investigation runs *)
ChangeWindow(m) ==
  /\ MayEdit
  /\ m <= 15 \/ invest.running
  /\ Commit([prefs EXCEPT !.window = Clamped(m)], form, <<>>)

EditProxy(v) ==
  /\ form.proxyDraft # v
  /\ form' = [form EXCEPT !.proxyDraft = v]
  /\ UNCHANGED <<prefs, invest, bridge, process>>

EditKubeconfig(v) ==
  /\ form.kubeDraft # v
  /\ form' = [form EXCEPT !.kubeDraft = v]
  /\ UNCHANGED <<prefs, invest, bridge, process>>

applyProxy ==
  /\ MayEdit /\ ~form.proxyBusy
  /\ Commit([prefs EXCEPT !.proxy = form.proxyDraft], [form EXCEPT !.proxyBusy = TRUE],
            <<[op |-> "proxy", v |-> form.proxyDraft, page |-> TRUE]>>)

(* Mutant: the path is saved and the process not told. *)
applyKubeconfigSaved ==
  /\ MayEdit /\ ~form.kubeBusy
  /\ Commit([prefs EXCEPT !.kubeconfig = form.kubeDraft], [form EXCEPT !.applied = TRUE], <<>>)

applyKubeconfig ==
  /\ MayEdit /\ ~form.kubeBusy
  /\ Commit([prefs EXCEPT !.kubeconfig = form.kubeDraft], [form EXCEPT !.kubeBusy = TRUE, !.applied = TRUE],
            <<[op |-> "kubeconfig", v |-> form.kubeDraft]>>)

(* another window's proxy arrives with a refresh of the settings *)
ProxyOfOtherWindow(v) == MayEdit /\ v # prefs.proxy /\ Commit([prefs EXCEPT !.proxy = v], form, <<>>)

-----------------------------------------------------------------------------
(* Investigations. *)

(* onStart: the handler keeps the preferences of its render *)
ClickInvestigate ==
  /\ ~invest.starting
  /\ invest' = [invest EXCEPT !.starting = TRUE, !.opts = startOptions(prefs, process.kubeconfig),
                              !.strayed = FALSE, !.told = form.applied /\ ~form.kubeBusy]
  /\ UNCHANGED <<prefs, bridge, process, form>>

(* discovery has answered; App is told that an investigation runs, and its effect
   speaks to whatever session there is, before the new one is asked for *)
runInvestigation ==
  /\ invest.starting /\ invest.opts # NoOpts
  /\ bridge' = bridge \o Reported(prefs, TRUE, <<>>) \o <<[op |-> "start", v |-> invest.opts]>>
  /\ invest' = [invest EXCEPT !.running = TRUE, !.opts = NoOpts]
  /\ UNCHANGED <<prefs, process, form>>

onStop ==
  /\ invest.running /\ ~invest.starting
  /\ bridge' = Append(bridge, [op |-> "stop"])
  /\ invest' = [invest EXCEPT !.running = FALSE, !.strayed = FALSE, !.told = FALSE]
  /\ UNCHANGED <<prefs, process, form>>

-----------------------------------------------------------------------------
(* The process serves a call and answers it. *)

Serves(op) == bridge # <<>> /\ Head(bridge).op = op

SetNetworkProxy ==
  /\ Serves("proxy")
  /\ process' = [process EXCEPT !.proxy = Head(bridge).v]
  /\ form' = IF Head(bridge).page THEN [form EXCEPT !.active = Head(bridge).v, !.proxyBusy = FALSE] ELSE form
  /\ bridge' = Tail(bridge)
  /\ UNCHANGED <<prefs, invest>>

GetNetworkProxy ==
  /\ Serves("getproxy")
  /\ form' = [form EXCEPT !.active = process.proxy]
  /\ bridge' = Tail(bridge)
  /\ UNCHANGED <<prefs, invest, process>>

SetKubeconfigPath ==
  /\ Serves("kubeconfig")
  /\ process' = [process EXCEPT !.kubeconfig = Head(bridge).v]
  /\ form' = [form EXCEPT !.kubeBusy = FALSE]
  /\ bridge' = Tail(bridge)
  /\ UNCHANGED <<prefs, invest>>

(* without a session these say nothing *)
SetPoll ==
  /\ Serves("auto") \/ Serves("poll")
  /\ LET c == Head(bridge)
     IN process' = IF process.session = NoOpts THEN process
                   ELSE IF c.op = "auto" THEN [process EXCEPT !.session.auto = c.v]
                   ELSE [process EXCEPT !.session.refresh = c.v]
  /\ bridge' = Tail(bridge)
  /\ UNCHANGED <<prefs, invest, form>>

StartInvestigation ==
  /\ Serves("start")
  /\ process' = [process EXCEPT !.session = Head(bridge).v]
  /\ invest' = [invest EXCEPT !.starting = FALSE]
  /\ bridge' = Tail(bridge)
  /\ UNCHANGED <<prefs, form>>

StopInvestigation ==
  /\ Serves("stop")
  /\ process' = [process EXCEPT !.session = NoOpts]
  /\ bridge' = Tail(bridge)
  /\ UNCHANGED <<prefs, invest, form>>

-----------------------------------------------------------------------------
(* A new launch: App's effects tell the new process of the proxy, nothing tells
   it of the kubeconfig. *)

LaunchForm(p) ==
  [proxyDraft |-> p.proxy, kubeDraft |-> p.kubeconfig, proxyBusy |-> FALSE, kubeBusy |-> FALSE,
   active |-> NoPath, applied |-> p.kubeconfig = NoPath, edits |-> 0]

LaunchCalls(p) == <<[op |-> "getproxy"], [op |-> "proxy", v |-> p.proxy, page |-> FALSE]>>

NotStarted == [running |-> FALSE, starting |-> FALSE, opts |-> NoOpts, strayed |-> FALSE, told |-> FALSE]

NextLaunch ==
  /\ MayEdit
  /\ form' = [LaunchForm(prefs) EXCEPT !.edits = form.edits + 1]
  /\ bridge' = LaunchCalls(prefs)
  /\ invest' = NotStarted
  /\ process' = [kubeconfig |-> NoPath, proxy |-> NoPath, session |-> NoOpts]
  /\ UNCHANGED prefs

SettingInit ==
  /\ prefs = [refresh |-> 10, auto |-> TRUE, window |-> 15, kubeconfig |-> NoPath, proxy |-> NoPath]
  /\ invest = NotStarted
  /\ bridge = LaunchCalls(prefs)
  /\ process = [kubeconfig |-> NoPath, proxy |-> NoPath, session |-> NoOpts]
  /\ form = LaunchForm(prefs)

SettingNext ==
  \/ \E v \in Refreshes : ChangeRefresh(v)
  \/ ChangeAuto
  \/ \E m \in WindowChoices : ChangeWindow(m)
  \/ \E v \in Proxies \cup {NoPath} : EditProxy(v) \/ ProxyOfOtherWindow(v)
  \/ \E v \in Kubeconfigs \cup {NoPath} : EditKubeconfig(v)
  \/ applyProxy
  \/ applyKubeconfig
  \/ ClickInvestigate
  \/ runInvestigation
  \/ onStop
  \/ SetNetworkProxy \/ GetNetworkProxy \/ SetKubeconfigPath \/ SetPoll
  \/ StartInvestigation \/ StopInvestigation
  \/ NextLaunch

-----------------------------------------------------------------------------
(* Properties. *)

Served == bridge = <<>>

(* Once the calls are served the process works through the proxy of the
   preferences, whoever set it and however it was launched (App.jsx:317). *)
ProxyInForce == Served => process.proxy = prefs.proxy

(* A running session is refreshed as the preferences say, those changed while it
   runs included; not those changed while it was being started (App.jsx:583). *)
PollFollows ==
  Served /\ invest.running /\ ~invest.starting /\ ~invest.strayed
    => /\ process.session.refresh = prefs.refresh
       /\ process.session.auto = prefs.auto

(* A session begins on the cluster that the window browses, once the path was
   applied in this launch (App.jsx:631, preferences.js:250). *)
SameKubeconfig ==
  [][StartInvestigation /\ invest.told /\ ~invest.strayed
       => process'.session.kubeconfig = process.kubeconfig]_settingVars

(* A running session collects what the preferences say (SettingsView.jsx:366). *)
KnobsLive ==
  Served /\ invest.running /\ ~invest.starting /\ ~invest.strayed
    => process.session.window = prefs.window

(* What the settings page saves is in force in the process (App.jsx:317, :583). *)
SettingsInForce == [](ProxyInForce /\ PollFollows) /\ SameKubeconfig
=============================================================================
