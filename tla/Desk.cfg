SPECIFICATION DeskSpec
CONSTANTS
  ConnContexts = {c1, c2}
  MaxAutoRetries = 2
  MaxPending = 2
  NavTabs = {home, resources, evidence}
  NavSections = {general, help}
  HomeTab = home
  HomeSection = general
  MaxStack = 4
  Namespaces = {n1, n2, n3, n4}
  NoNs = NoNs
  MaxBrowseNamespaces = 2
  Matches = {m1, m2, m3}
  Roots = {m1, m2}
  SmallList = 2
  Precheck = 1
  NoShell = NoShell
  MaxShells = 3
  MaxStarts = 2
  Resources = {po, jobs}
  Answers <- MCAnswers
  ListScopes = {ns}
  ReadyScopes = {ns}
  NoKey = NoKey
  NoData = NoData
  MaxEntries = 1
  MaxFetches = 2
  MaxCalls = 2
  MaxEvents = 1
  InOrder = TRUE
INVARIANTS ConnectionHonest BrowseTrue
PROPERTIES Reconnects NavIsHistory ShellsOwned ShellsEnd EventuallyListed
CHECK_DEADLOCK FALSE
