------------------------------ MODULE Console -------------------------------
(***************************************************************************)
(* The console dock of the desktop front end: which panels it shows        *)
(* (hooks/useConsoleDock.js, components/ConsoleDock.jsx), the terminal     *)
(* tabs of each kube context and their cache (hooks/useTerminalTabs.js,    *)
(* components/TerminalPanel.jsx), and the commands App.jsx launches into   *)
(* new tabs, through the shell picker the first time.                      *)
(*                                                                         *)
(* The terminal panel is mounted only while the dock shows it: its state   *)
(* is lost when it is not, except for the cache in session storage.  One   *)
(* action is one event together with the commits it leads to, each running *)
(* the hooks' effects in order (Pass) until nothing changes any more.      *)
(***************************************************************************)
EXTENDS Naturals, Sequences, FiniteSets, SequencesExt

CONSTANTS Ctxs,       \* kube contexts, with the kubeconfig they are of
          Pods,       \* pods whose logs may be opened
          NoTab, NoPod,
          MaxIds      \* bound on the tabs created

ASSUME ConsoleAssumption == NoPod \notin Pods /\ MaxIds \in Nat /\ Ctxs # {}

VARIABLES dock,      \* [view, expanded, maximized, term, stream]
          ctx,       \* the selected context
          panel,     \* the mounted terminal panel and its tabs hook
          cache,     \* per context, the cached tabs and active tab
          nextId,    \* nextTabSeq
          launch,    \* [request, action, pending, prompted, picker] of App.jsx
          left,      \* ghost: per context left since the panel was mounted, its tabs then
          count      \* ghost: [asked, made]: commands launched, tabs made for them

conVars == <<dock, ctx, panel, cache, nextId, launch, left, count>>

Ids(tabs) == {tabs[i].id : i \in 1 .. Len(tabs)}

DockViews == {"terminal", "stream", "split"}

ShowsTerminal(d) == d.expanded /\ d.view # "stream"

EmptyPanel(c) == [tabs |-> <<>>, active |-> NoTab, split |-> {}, seeded |-> FALSE, ctxRef |-> c]

EmptyCache == [tabs |-> <<>>, active |-> NoTab]

(* What a commit works on: the panel as rendered in context ctx, and what its
   effects set: cache, id, request, the next tabs and active tab.  batched says
   that an update of the tabs is queued already. *)
Batch(p, c, req) == [p |-> p, ctx |-> c, cache |-> cache, id |-> nextId, request |-> req,
                     tabs |-> p.tabs, active |-> p.active, batched |-> FALSE, made |-> 0]

(* pickActiveId *)
PickActive(saved, tabs) ==
  IF saved \in Ids(tabs) THEN saved ELSE IF tabs = <<>> THEN NoTab ELSE tabs[1].id

(* setTabs and setActiveId from the cache of the context *)
LoadFromCache(b, cached) ==
  [b EXCEPT !.tabs = cached.tabs, !.active = PickActive(cached.active, cached.tabs), !.batched = TRUE]

(* addTab: the tab's id is known to setActiveId only when React runs the updater
   at once, which it never does with an update queued before it *)
AddTab(b, pod, eager) ==
  [b EXCEPT !.tabs = Append(@, [id |-> b.id, ctx |-> b.ctx, pod |-> pod]), !.id = @ + 1,
            !.active = IF eager /\ ~b.batched THEN b.id ELSE NoTab, !.batched = TRUE,
            !.made = IF pod = NoPod THEN @ ELSE @ + 1]

CacheTabs(b, key) == [b EXCEPT !.cache[key] = [tabs |-> b.p.tabs, active |-> b.p.active]]

(* Mutant: the tabs of the context before stay. *)
ContextEffectKeepsTabs(b) ==
  IF b.p.ctxRef = b.ctx THEN b
  ELSE CacheTabs([b EXCEPT !.p.ctxRef = b.ctx], b.p.ctxRef)

(* the effect that changes the group of tabs with the context *)
ContextEffect(b) ==
  IF b.p.ctxRef = b.ctx THEN b
  ELSE LoadFromCache([CacheTabs(b, b.p.ctxRef) EXCEPT !.p.ctxRef = b.ctx,
                        !.p.seeded = b.cache[b.ctx].tabs # <<>>], b.cache[b.ctx])

(* the effect that keeps the cache in step: it writes the tabs this commit
   rendered, under the context it rendered *)
CacheEffect(b) == CacheTabs(b, b.ctx)

(* the effect that restores cached tabs, or opens a first one *)
OpenEffect(b, eager) ==
  IF b.p.tabs # <<>> THEN b
  ELSE IF b.cache[b.ctx].tabs # <<>>
  THEN LoadFromCache([b EXCEPT !.p.seeded = TRUE], b.cache[b.ctx])
  ELSE IF b.p.seeded \/ b.request # NoPod THEN b
  ELSE AddTab([b EXCEPT !.p.seeded = TRUE], NoPod, eager)

(* the effect that opens the tab App.jsx asked for and clears the request *)
LaunchEffect(b, eager) ==
  IF b.request = NoPod THEN b ELSE AddTab([b EXCEPT !.request = NoPod], b.request, eager)

(* the panel with what the effects set; one that rendered fewer than two tabs
   ends its split *)
Rerendered(b, e) == [e.p EXCEPT !.tabs = e.tabs, !.active = e.active,
                                !.split = IF Len(b.p.tabs) < 2 THEN {} ELSE @]

(* the effects of one commit, in order, and the commit of what they set *)
Pass(b, eager) ==
  LET e == LaunchEffect(OpenEffect(CacheEffect(ContextEffect(b)), eager), eager)
  IN [e EXCEPT !.p = Rerendered(b, e), !.batched = FALSE]

(* three commits reach the last one of every event *)
Commits(b, eager) == Pass(Pass(Pass(b, eager), eager), eager)

(* An event leaves the dock d, the context c and the launch state l, and the
   panel p if the terminal is shown before and after it. *)
DockCommit(d, c, l, p) ==
  LET mounting == ShowsTerminal(d) /\ ~ShowsTerminal(dock)
      from == IF mounting THEN EmptyPanel(c) ELSE p
  IN /\ dock' = d /\ ctx' = c
     /\ IF ShowsTerminal(d)
        THEN \E eager \in IF mounting THEN {TRUE} ELSE BOOLEAN :
               \E b \in {Commits(Batch(from, c, l.request), eager)} :
                 /\ b.id <= MaxIds + 1
                 /\ panel' = b.p /\ cache' = b.cache /\ nextId' = b.id
                 /\ launch' = [l EXCEPT !.request = b.request]
                 /\ count' = [asked |-> count.asked + (IF l.request # launch.request THEN 1 ELSE 0),
                              made |-> count.made + b.made]
        ELSE panel' = EmptyPanel(c) /\ launch' = l /\ UNCHANGED <<cache, nextId, count>>
     /\ left' = IF ~ShowsTerminal(d) \/ mounting THEN <<>>
                ELSE [k \in (DOMAIN left \cup {ctx}) \ {c} |->
                        IF k = ctx THEN Ids(panel.tabs) ELSE left[k]]

Opened(view) == [dock EXCEPT !.view = view, !.expanded = TRUE, !.maximized = FALSE,
                             !.term = @ \/ view # "stream", !.stream = @ \/ view # "terminal"]

ConInit == /\ dock = [view |-> "stream", expanded |-> FALSE, maximized |-> FALSE,
                      term |-> FALSE, stream |-> TRUE]
           /\ ctx = CHOOSE c \in Ctxs : TRUE
           /\ panel = EmptyPanel(ctx)
           /\ cache = [c \in Ctxs |-> EmptyCache]
           /\ nextId = 1
           /\ launch = [request |-> NoPod, action |-> "none", pending |-> NoPod,
                        prompted |-> FALSE, picker |-> FALSE]
           /\ left = <<>>
           /\ count = [asked |-> 0, made |-> 0]

(* selectView: openTerminal, openStream or openSplit *)
SelectView(view) == DockCommit(Opened(view), ctx, launch, panel)

CollapseDock ==
  /\ dock.expanded
  /\ DockCommit([dock EXCEPT !.expanded = FALSE, !.maximized = FALSE], ctx, launch, panel)

CloseAll ==
  /\ dock.expanded
  /\ DockCommit([dock EXCEPT !.expanded = FALSE, !.maximized = FALSE, !.term = FALSE, !.stream = FALSE],
            ctx, launch, panel)

Maximize ==
  /\ dock.expanded
  /\ DockCommit([dock EXCEPT !.maximized = ~@], ctx, launch, panel)

SwitchContext(c) == c # ctx /\ DockCommit(dock, c, launch, panel)

(* "+": a tab added by hand *)
NewTab ==
  /\ ShowsTerminal(dock) /\ nextId <= MaxIds
  /\ \E eager \in BOOLEAN :
       \E b \in {AddTab(Batch(panel, ctx, NoPod), NoPod, eager)} :
         /\ nextId' = b.id
         /\ panel' = [panel EXCEPT !.tabs = b.tabs, !.active = b.active]
         /\ cache' = [cache EXCEPT ![ctx] = [tabs |-> b.tabs, active |-> b.active]]
  /\ UNCHANGED <<dock, ctx, launch, left, count>>

(* closeTab, with handleCloseTab: the neighbour becomes active, a split that
   shows the tab ends *)
TabClosed(p, i) ==
  LET rest == RemoveAt(p.tabs, i)
  IN [p EXCEPT !.tabs = rest,
               !.active = IF @ # p.tabs[i].id THEN @
                          ELSE IF rest = <<>> THEN NoTab
                          ELSE rest[IF i <= Len(rest) THEN i ELSE Len(rest)].id,
               !.seeded = @ \/ rest = <<>>,
               !.split = IF p.tabs[i].id \in @ \/ Len(rest) < 2 THEN {} ELSE @]

CloseTab(i) ==
  /\ ShowsTerminal(dock) /\ i \in 1 .. Len(panel.tabs)
  /\ panel' = TabClosed(panel, i)
  /\ cache' = [cache EXCEPT ![ctx] = [tabs |-> panel'.tabs, active |-> panel'.active]]
  /\ UNCHANGED <<dock, ctx, nextId, launch, left, count>>

(* handleSelectTab *)
SelectTab(i) ==
  /\ ShowsTerminal(dock) /\ i \in 1 .. Len(panel.tabs)
  /\ panel' = [panel EXCEPT !.active = panel.tabs[i].id, !.split = {}]
  /\ cache' = [cache EXCEPT ![ctx].active = panel'.active]
  /\ UNCHANGED <<dock, ctx, nextId, launch, left, count>>

(* resolveSplitPartner and createSplitView: beside the active tab, or the first
   other one *)
OpenSplit(i) ==
  /\ ShowsTerminal(dock) /\ i \in 1 .. Len(panel.tabs) /\ Len(panel.tabs) > 1
  /\ LET anchor == panel.tabs[i].id
         other == SelectSeq(panel.tabs, LAMBDA t : t.id # anchor)[1].id
     IN panel' = [panel EXCEPT !.split = {anchor, IF panel.active \in {NoTab, anchor} THEN other
                                                  ELSE panel.active}]
  /\ UNCHANGED <<dock, ctx, cache, nextId, launch, left, count>>

CloseSplit ==
  /\ panel.split # {}
  /\ panel' = [panel EXCEPT !.split = {}]
  /\ UNCHANGED <<dock, ctx, cache, nextId, launch, left, count>>

OpenPicker(l, action) == [l EXCEPT !.action = action, !.picker = TRUE]

(* toggleTerminal *)
ToggleTerminal ==
  IF launch.prompted THEN DockCommit(Opened("terminal"), ctx, launch, panel)
  ELSE DockCommit(dock, ctx, OpenPicker(launch, "openTerminal"), panel)

(* handleOpenPodLogs *)
OpenPodLogs(pod) ==
  IF launch.prompted THEN DockCommit(Opened("terminal"), ctx, [launch EXCEPT !.request = pod], panel)
  ELSE DockCommit(dock, ctx, OpenPicker([launch EXCEPT !.pending = pod], "openPodLogs"), panel)

(* launchTerminalCommand: without the shell picker *)
LaunchCommand(pod) == DockCommit(Opened("terminal"), ctx, [launch EXCEPT !.request = pod], panel)

(* handleOpenTerminalShellPicker *)
OpenShellPicker == DockCommit(dock, ctx, OpenPicker(launch, "none"), panel)

(* applyTerminalShell; with the terminal open every tab's session restarts *)
ShellConfirm ==
  /\ launch.picker
  /\ LET l == [launch EXCEPT !.prompted = TRUE, !.picker = FALSE, !.action = "none"]
     IN CASE launch.action = "none" -> DockCommit(dock, ctx, l, panel)
          [] launch.action = "openTerminal" -> DockCommit(Opened("terminal"), ctx, l, panel)
          [] launch.action = "openPodLogs" ->
               DockCommit(Opened("terminal"), ctx, [l EXCEPT !.request = launch.pending, !.pending = NoPod], panel)

(* the modal's onCancel *)
ShellCancel ==
  /\ launch.picker
  /\ DockCommit(dock, ctx, [launch EXCEPT !.picker = FALSE, !.action = "none"], panel)

ConNext == \/ \E view \in DockViews : SelectView(view)
           \/ CollapseDock \/ CloseAll \/ Maximize
           \/ \E c \in Ctxs : SwitchContext(c)
           \/ NewTab
           \/ \E i \in 1 .. MaxIds : CloseTab(i) \/ SelectTab(i) \/ OpenSplit(i)
           \/ CloseSplit
           \/ ToggleTerminal
           \/ \E pod \in Pods : OpenPodLogs(pod) \/ LaunchCommand(pod)
           \/ OpenShellPicker \/ ShellConfirm \/ ShellCancel
-----------------------------------------------------------------------------
(* The terminal never shows a shell of another cluster: the tabs of the panel,
   and those cached for a context, were opened in it, although the commit that
   changes the context still renders the tabs of the one before and caches them. *)
TabsOwnContext ==
  /\ \A i \in 1 .. Len(panel.tabs) : panel.tabs[i].ctx = ctx
  /\ \A c \in Ctxs : \A i \in 1 .. Len(cache[c].tabs) : cache[c].tabs[i].ctx = c

(* "terminal tabs restore per kube context", while the panel stays on screen: the
   tabs of a context that was left are the ones cached for it. *)
SwitchKeeps == \A c \in DOMAIN left : Ids(cache[c].tabs) = left[c]

(* The active tab is one of those on screen, or none: never one that was closed
   or that belongs to another context. *)
ActiveOwn == panel.active = NoTab \/ panel.active \in Ids(panel.tabs)

(* Every command launched into the terminal gets one tab, whatever the dock was
   showing, and a request never stays behind to open another. *)
LaunchedOnce == count.made = count.asked /\ launch.request = NoPod

(* A tab's id names one tab: not two of the panel's, and no cached tab of another
   context has the id of one of them. *)
TabIdsUnique ==
  /\ Cardinality(Ids(panel.tabs)) = Len(panel.tabs)
  /\ \A c \in Ctxs \ {ctx} : Ids(cache[c].tabs) \cap Ids(panel.tabs) = {}

(* The tabs of the terminal stay their context's own, each command's own, and
   restored, whatever the dock shows meanwhile (TerminalPanel.jsx). *)
TabsKept == TabsOwnContext /\ SwitchKeeps /\ ActiveOwn /\ LaunchedOnce /\ TabIdsUnique
=============================================================================
