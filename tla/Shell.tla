------------------------------- MODULE Shell -------------------------------
(***************************************************************************)
(* The window's panes: activity rail, explorer, workspace and inspector    *)
(* (AppShell.jsx, useShellLayout.js, shellLayout.js, paneDragResize.js,    *)
(* inspectorDismiss.js).                                                   *)
(*                                                                         *)
(* Sizes are pixels.  A drag ends at one of the pointer positions Drags.   *)
(* The layout is saved in localStorage on every patch and loaded when the  *)
(* window starts.                                                          *)
(***************************************************************************)
EXTENDS Integers, FiniteSetsExt

CONSTANTS Viewports,   \* sizes of the window: [w, h]
          Drags,       \* sizes a pointer pulls a pane to
          ShellTabs    \* the tabs that are visited

(* the window opens in this size, and is never smaller than its minimum (main.go:35) *)
FirstSize == [w |-> 1280, h |-> 860]

ASSUME ShellAssumption ==
  /\ FirstSize \in Viewports /\ Viewports \subseteq [w : Nat, h : Nat] /\ Drags \subseteq Nat
  /\ \A v \in Viewports : v.w >= 960 /\ v.h >= 640

VARIABLES
  layout,   \* the hook's layout
  saved,    \* what localStorage holds
  screen    \* [tab, shown (an investigation shows its explorer), vp, byHand, auto]

shellVars == <<layout, saved, screen>>

ExplorerMin == 180
InspectorMin == 280
InspectorBottomMin == 200
WorkspaceMin == 480
Gutters == 24
Hysteresis == 48

DefaultLayout ==
  [exWidth |-> 260, inSize |-> 440, exPinned |-> FALSE, inPinned |-> FALSE, place |-> "right",
   exCollapsed |-> FALSE, inCollapsed |-> TRUE, rail |-> "auto"]

ExplorerDefaultCollapsed(tab) == tab \in {"incident", "terminal"}

(* the inspector starts collapsed in every session *)
LoadLayout(s) == [s EXCEPT !.inCollapsed = TRUE]

-----------------------------------------------------------------------------
(* What the shell shows. *)

Clamp(v, lo, hi) == Min({hi, Max({lo, v})})

MaxInspector(place, vp) == IF place = "bottom" THEN (vp.h * 7) \div 10 ELSE (vp.w * 7) \div 10

MinInspector(place) == IF place = "bottom" THEN InspectorBottomMin ELSE InspectorMin

MaxExplorer(vp) == Max({ExplorerMin, Min({560, (vp.w * 42) \div 100})})

OpenPaneSize(place, vp) ==
  IF place = "bottom" THEN Min({Max({260, (vp.h * 4) \div 10}), MaxInspector(place, vp)})
  ELSE Min({Clamp((vp.w * 4) \div 10, 440, 720), MaxInspector(place, vp)})

HasExplorer(s) ==
  (s.shown \/ s.tab \in {"resources", "patterns", "failures", "evidence", "graph"})
    /\ s.tab \notin {"settings", "incident", "nodes"}

ShowsInspector(s) == s.tab = "resources"

RailCollapsed(l, s) == l.rail = "collapsed" \/ (l.rail = "auto" /\ HasExplorer(s))

NextRailMode(l, s) ==
  LET collapse == ~RailCollapsed(l, s)
  IN  IF collapse = HasExplorer(s) THEN "auto" ELSE IF collapse THEN "collapsed" ELSE "expanded"

InspectorOpenRight(l, s) == ShowsInspector(s) /\ ~l.inCollapsed /\ l.place = "right"

FreeWidth(l, s) ==
  s.vp.w - (IF RailCollapsed(l, s) THEN 52 ELSE 156) - l.exWidth - l.inSize - Gutters

(* Mutant: no extra room is asked for before the explorer comes back. *)
AutoCollapsedTight(l, s) ==
  /\ HasExplorer(s) /\ InspectorOpenRight(l, s) /\ ~l.exCollapsed /\ ~s.byHand
  /\ FreeWidth(l, s) < WorkspaceMin

(* the explorer yields to an open inspector; s.auto is the render before *)
AutoCollapsed(l, s) ==
  /\ HasExplorer(s) /\ InspectorOpenRight(l, s) /\ ~l.exCollapsed /\ ~s.byHand
  /\ FreeWidth(l, s) < WorkspaceMin + (IF s.auto THEN Hysteresis ELSE 0)

ExplorerCollapsed(l, s) == l.exCollapsed \/ s.auto

-----------------------------------------------------------------------------
(* the panes are kept within the window *)
ClampEffect(l, s) ==
  [l EXCEPT !.inSize = IF @ > MaxInspector(l.place, s.vp)
                       THEN Max({MinInspector(l.place), MaxInspector(l.place, s.vp)}) ELSE @,
            !.exWidth = IF @ > MaxExplorer(s.vp) THEN MaxExplorer(s.vp) ELSE @]

HandEffect(l, s) == IF InspectorOpenRight(l, s) THEN s ELSE [s EXCEPT !.byHand = FALSE]

(* patch() saves what it merges, and so do the effects' own patches *)
Patch(l, s) ==
  /\ layout' = ClampEffect(l, s)
  /\ saved' = LoadLayout(ClampEffect(l, s))

(* a render and its effects, then the render they cause *)
Screen(l, s) ==
  LET shown == [s EXCEPT !.auto = AutoCollapsed(l, s)]
      hand  == HandEffect(l, shown)
  IN  [hand EXCEPT !.auto = AutoCollapsed(l, hand)]

ShellCommit(l, s) == Patch(l, s) /\ screen' = Screen(ClampEffect(l, s), s)

ShellInit ==
  /\ layout = DefaultLayout /\ saved = LoadLayout(DefaultLayout)
  /\ screen = [tab |-> "resources", shown |-> FALSE, vp |-> FirstSize, byHand |-> FALSE, auto |-> FALSE]

(* the tab's own default decides on the explorer; nothing is saved for it *)
ShellSelectTab ==
  \E t \in ShellTabs, v \in BOOLEAN :
    LET l == [layout EXCEPT !.exCollapsed = ExplorerDefaultCollapsed(t)]
        s == [screen EXCEPT !.tab = t, !.shown = v]
    IN  /\ screen.tab # t /\ layout' = l /\ screen' = Screen(l, s) /\ UNCHANGED saved

ToggleExplorer ==
  /\ HasExplorer(screen)
  /\ IF screen.auto
     THEN LET s == [screen EXCEPT !.byHand = TRUE] IN screen' = Screen(layout, s) /\ UNCHANGED <<layout, saved>>
     ELSE ShellCommit([layout EXCEPT !.exCollapsed = ~@], screen)

ToggleRail == ShellCommit([layout EXCEPT !.rail = NextRailMode(layout, screen)], screen)

ToggleInspector == ShowsInspector(screen) /\ ShellCommit([layout EXCEPT !.inCollapsed = ~@], screen)

(* a selection opens a collapsed inspector, at the user's own size if set *)
OpenSize(l, s) ==
  IF l.inPinned
  THEN Clamp(l.inSize, MinInspector(l.place), Max({MinInspector(l.place), MaxInspector(l.place, s.vp)}))
  ELSE OpenPaneSize(l.place, s.vp)

ExpandInspector ==
  /\ ShowsInspector(screen) /\ layout.inCollapsed
  /\ ShellCommit([layout EXCEPT !.inCollapsed = FALSE, !.inSize = OpenSize(layout, screen)], screen)

(* a click in the workspace, or the inspector's close *)
DismissInspector ==
  /\ ShowsInspector(screen) /\ ~layout.inCollapsed
  /\ ShellCommit([layout EXCEPT !.inCollapsed = TRUE], screen)

PlaceInspector(l, p) ==
  [l EXCEPT !.place = p, !.inCollapsed = FALSE, !.inPinned = FALSE,
            !.inSize = IF p = "bottom" /\ @ > 320 THEN 280 ELSE @]

SetInspectorPlacement ==
  /\ ShowsInspector(screen) /\ ~layout.inCollapsed
  /\ \E p \in {"right", "bottom"} : ShellCommit(PlaceInspector(layout, p), screen)

DragExplorer ==
  /\ HasExplorer(screen) /\ ~ExplorerCollapsed(layout, screen)
  /\ \E d \in Drags : ShellCommit([layout EXCEPT !.exPinned = TRUE, !.exWidth = Clamp(d, ExplorerMin, MaxExplorer(screen.vp))], screen)

(* labels that need more room, while the user has not sized the explorer *)
FitExplorer ==
  /\ ~layout.exPinned /\ HasExplorer(screen) /\ ~ExplorerCollapsed(layout, screen)
  /\ \E d \in Drags : ShellCommit([layout EXCEPT !.exWidth = Clamp(d, ExplorerMin, MaxExplorer(screen.vp))], screen)

(* a double click on the edge fits the labels again *)
RefitExplorer ==
  /\ HasExplorer(screen) /\ ~ExplorerCollapsed(layout, screen)
  /\ \E d \in Drags : ShellCommit([layout EXCEPT !.exPinned = FALSE, !.exWidth = Clamp(d, ExplorerMin, MaxExplorer(screen.vp))], screen)

(* the handle, or the shutter of a collapsed inspector *)
DragInspector ==
  /\ ShowsInspector(screen)
  /\ \E d \in Drags :
       ShellCommit([layout EXCEPT !.inCollapsed = FALSE, !.inPinned = TRUE,
                              !.inSize = Clamp(d, MinInspector(layout.place),
                                               Max({MinInspector(layout.place), MaxInspector(layout.place, screen.vp)}))],
               screen)

RefitInspector ==
  /\ ShowsInspector(screen) /\ ~layout.inCollapsed
  /\ ShellCommit([layout EXCEPT !.inPinned = FALSE, !.inSize = OpenPaneSize(layout.place, screen.vp)], screen)

ResizeWindow ==
  \E vp \in Viewports \ {screen.vp} :
    LET s == [screen EXCEPT !.vp = vp]
    IN  IF ClampEffect(layout, s) = layout
        THEN screen' = Screen(layout, s) /\ UNCHANGED <<layout, saved>>
        ELSE ShellCommit(layout, s)

Restart ==
  LET l == [LoadLayout(saved) EXCEPT !.exCollapsed = ExplorerDefaultCollapsed("resources")]
      s == [screen EXCEPT !.tab = "resources", !.shown = FALSE, !.byHand = FALSE, !.auto = FALSE]
  IN  ShellCommit(l, s)

ShellNext ==
  \/ ShellSelectTab \/ ToggleExplorer \/ ToggleRail \/ ToggleInspector \/ ExpandInspector \/ DismissInspector
  \/ SetInspectorPlacement \/ DragExplorer \/ FitExplorer \/ RefitExplorer \/ DragInspector \/ RefitInspector
  \/ ResizeWindow \/ Restart

-----------------------------------------------------------------------------
(* Whatever was dragged, loaded or moved to the other edge, and however the
   window was resized since, no pane is larger than the window allows. *)
PanesFit ==
  /\ layout.exWidth \in ExplorerMin..MaxExplorer(screen.vp)
  /\ layout.inSize <= Max({MinInspector(layout.place), MaxInspector(layout.place, screen.vp)})

(* The explorer that yields to the inspector does not flicker: it comes back
   only for a reason, or for as much room as the hysteresis asks for. *)
NoFlicker ==
  [][screen.auto /\ ~screen'.auto /\ InspectorOpenRight(layout', screen') /\ HasExplorer(screen')
       => screen'.byHand \/ layout'.exCollapsed \/ FreeWidth(layout', screen') >= WorkspaceMin + Hysteresis]_shellVars

(* An explorer expanded by hand stays as long as the inspector is open, and no
   longer: the next time it opens, the explorer yields again. *)
HandWins ==
  /\ screen.byHand => InspectorOpenRight(layout, screen) /\ ~screen.auto
  /\ ~screen.byHand /\ HasExplorer(screen) /\ InspectorOpenRight(layout, screen) /\ ~ExplorerCollapsed(layout, screen)
       => FreeWidth(layout, screen) >= WorkspaceMin

(* A rail set by hand to what the automatic mode shows anyway adapts again: in
   a fixed mode the rail differs from the automatic one on some tab only
   because the user chose it where it differed. *)
RailAdapts ==
  [][layout'.rail # layout.rail
       => /\ RailCollapsed(layout', screen') # RailCollapsed(layout, screen)
          /\ layout'.rail # "auto" => RailCollapsed(layout', screen') # HasExplorer(screen')]_shellVars

(* A window that starts again has the sizes, the placement and the rail that
   the last one had. *)
SavedCurrent ==
  \A k \in {"exWidth", "inSize", "exPinned", "inPinned", "place", "rail"} : saved[k] = layout[k]

(* The panes of the window fit it, do as they were told by hand, and are so again
   after a restart (useShellLayout.js). *)
LayoutHolds == [](PanesFit /\ HandWins /\ SavedCurrent) /\ NoFlicker /\ RailAdapts
=============================================================================
