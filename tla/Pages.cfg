SPECIFICATION PagesSpec
CONSTANTS
  Viewports <- MCViewports
  Drags = {100, 450, 900}
  ShellTabs = {"resources", "patterns", "settings", "home"}
  AllTemplates <- MCTemplates
  AllPods <- MCAllPods
  NoPick = 0
  Pods = {p1}
  PodSets = {{p1, p2}}
  ErrorPods = {p1}
  HitPods = {p2}
  MatchedPods = {p1}
  MaxGathers = 1
  MaxOwn = 1
  MaxChosen = 2
  W = W
  ta = ta
  tb = tb
  tc = tc
  td = td
  lp1 = lp1
  lp2 = lp2
  LogLines <- MCLogLines
  LogEvents <- MCLogEvents
  Kin <- MCKin
  MaxChildren = 2
  MaxLines = 3
  Windows = {w1, w2}
  Prefs = {f1}
  Themes = {dark, light}
  DefaultTheme = dark
  NoSettings = NoSettings
  MaxChanges = 2
  MaxCloses = 2
  MaxLosses = 1
  Refreshes = {10, 30}
  WindowChoices = {5, 60}
  Kubeconfigs = {kc}
  Proxies = {px}
  NoPath = NoPath
  NoOpts = NoOpts
  MaxEdits = 2
  KindOf <- MCKindOf
  EntityLists <- MCEntityLists
  InspectRows <- MCInspectRows
  MaxDetails = 2
  NoKey = NoKey
INVARIANTS  PreferencesKept 
PROPERTIES PanelsHold SettingsInForce InspectHolds
CHECK_DEADLOCK FALSE
