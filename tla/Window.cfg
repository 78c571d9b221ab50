INIT WindowInit
NEXT WindowNext
SYMMETRY Symmetry
CONSTANTS
  Queries = {qa, qb}
  Blank = blank
  Namespaces = {n1}
  NoNs = none
  NoSession = nosession
  EmptyView = empty
  Contexts = {c1, c2}
  MaxCalls = 2
  Ctxs = {k1, k2}
  Pods = {p1}
  NoTab = NoTab
  NoPod = NoPod
  MaxIds = 3
  Hooks <- MCHooks
  Targets = {ka, kb}
  NoTarget = NoTarget
  NoData = NoData
  Gens <- MCGens
  MaxEntries = 3
  MaxFetches = 3
INVARIANTS SessionHolds TabsKept 
CHECK_DEADLOCK FALSE
