CONSTANTS
  Refreshes = {10, 30}
  WindowChoices = {5, 60}
  Kubeconfigs = {kc}
  Proxies = {px}
  NoPath = NoPath
  NoOpts = NoOpts
  MaxEdits = 3
INIT SettingInit
NEXT SettingNext
INVARIANT KnobsLive
