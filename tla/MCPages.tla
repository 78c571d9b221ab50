------------------------------ MODULE MCPages ------------------------------
(***************************************************************************)
(* Instance for TLC of what lies around the lists of a window: its panes,  *)
(* the investigation pages, the log tail and log templates, the            *)
(* preferences, their copy on disk, the settings page and the inspector.   *)
(* One of them runs in each behaviour.                                     *)
(***************************************************************************)
EXTENDS Shell, Pages, Stream, LogPatterns, Preferences, SettingsCache, Settings,
        Inspect

CONSTANTS ta, tb, tc, td, lp1, lp2

MCViewports == {[w |-> 960, h |-> 640], [w |-> 1280, h |-> 860], [w |-> 1600, h |-> 900]}

MCTemplates ==
  {[id |-> 1, events |-> FALSE, count |-> 3, up |-> FALSE, signal |-> "memory"],
   [id |-> 2, events |-> FALSE, count |-> 1, up |-> TRUE, signal |-> "other"],
   [id |-> 3, events |-> TRUE, count |-> 5, up |-> TRUE, signal |-> "restart"]}
Box(r, l) == [ready |-> r, last |-> l]
Pod(n, ph, r, k, boxes) == [name |-> n, phase |-> ph, ready |-> r, restarts |-> k, boxes |-> boxes]
MCAllPods ==
  {Pod(1, "running", TRUE, 0, <<Box(TRUE, "none"), Box(TRUE, "oom")>>),
   Pod(1, "running", FALSE, 30, <<Box(FALSE, "error")>>),
   Pod(2, "pending", FALSE, 0, <<>>),
   Pod(2, "running", TRUE, 0, <<Box(TRUE, "crash")>>)}

Line(m, p, v, n, g) == [tokens |-> m, pod |-> p, sev |-> v, count |-> n, gap |-> g]
MCLogLines ==
  {Line(<<ta, tb>>, lp1, 1, 1, 0), Line(<<ta, tc>>, lp1, 5, 1, 1), Line(<<ta, tc>>, lp2, 2, 20, 5),
   Line(<<tb, tb, W>>, lp1, 1, 2, 0), Line(<<ta, tb, tc, W>>, lp1, 4, 1, 3), Line(<<W, W>>, lp2, 1, 1, 1),
   Line(<<W, W>>, lp1, 5, 9, 1), Line(<<ta, tc, tb, td>>, lp1, 1, 1, 1),
   Line(<<ta, tb, tc, td, td, W>>, lp2, 1, 2, 5), Line(<<tc>>, lp1, 1, 50, 0)}
MCLogEvents == [pod : {lp1, lp2}, sev : {1, 4}, change : BOOLEAN, ts : {1, 6}, words : {{}, {ta, tb}}]
MCKin == {<<lp1, lp2>>, <<lp2, lp1>>}

MCKindOf == [d |-> "Deployment", s |-> "Secret", t |-> "Secret"]
MCEntityLists ==
  {[kind |-> "Secret", keys |-> <<Full("s"), Full("t")>>], [kind |-> "Secret", keys |-> <<>>]}
MCInspectRows == {{}, {"d"}}

VARIABLE area   \* the part that runs

Runs(x) == area = x /\ UNCHANGED area

PagesInit ==
  /\ area \in {"shell", "pages", "stream", "patterns", "preferences", "copy", "settings", "inspect"}
  /\ ShellInit /\ PageInit /\ StreamInit /\ PatternInit /\ PrefsInit /\ SettingsInit /\ SettingInit /\ InspectInit

PagesNext ==
  \/ /\ Runs("shell") /\ ShellNext
     /\ UNCHANGED <<pageVars, streamVars, patternVars, prefsVars, settingsVars, settingVars, inspectVars>>
  \/ /\ Runs("pages") /\ PageNext
     /\ UNCHANGED <<shellVars, streamVars, patternVars, prefsVars, settingsVars, settingVars, inspectVars>>
  \/ /\ Runs("stream") /\ StreamNext
     /\ UNCHANGED <<shellVars, pageVars, patternVars, prefsVars, settingsVars, settingVars, inspectVars>>
  \/ /\ Runs("patterns") /\ PatternNext
     /\ UNCHANGED <<shellVars, pageVars, streamVars, prefsVars, settingsVars, settingVars, inspectVars>>
  \/ /\ Runs("preferences") /\ PrefsNext
     /\ UNCHANGED <<shellVars, pageVars, streamVars, patternVars, settingsVars, settingVars, inspectVars>>
  \/ /\ Runs("copy") /\ SettingsNext
     /\ UNCHANGED <<shellVars, pageVars, streamVars, patternVars, prefsVars, settingVars, inspectVars>>
  \/ /\ Runs("settings") /\ SettingNext
     /\ UNCHANGED <<shellVars, pageVars, streamVars, patternVars, prefsVars, settingsVars, inspectVars>>
  \/ /\ Runs("inspect") /\ InspectNext
     /\ UNCHANGED <<shellVars, pageVars, streamVars, patternVars, prefsVars, settingsVars, settingVars>>

PagesSpec == PagesInit /\ [][PagesNext]_<<area, shellVars, pageVars, streamVars, patternVars, prefsVars, settingsVars, settingVars, inspectVars>>

(* The pages and the templates they show are of the lines and pods of now
   (Pages.tla, LogPatterns.tla). *)
ViewsTrue == PagesTrue /\ PatternsTrue

(* The panes yield and return as chosen, and a paused tail shows what it showed
   (AppShell.jsx, LiveStreamPanel.jsx). *)
PanelsHold == LayoutHolds /\ LogsHold
=============================================================================
