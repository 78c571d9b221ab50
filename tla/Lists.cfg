SPECIFICATION ListsSpec
CONSTANTS
  Presentation <- MCPresentation
  Discoveries <- MCDiscoveries
  CountAnswers <- MCCountAnswers
  TreeRows <- MCTreeRows
  TreePods <- MCTreePods
  MaxListed = 1
  NoCatalog = NoCatalog
  NoKind = NoKind
  SectionPool <- MCSectionPool
  InspectTargets <- MCInspectTargets
  PodFacts <- MCPodFacts
  ServiceFacts <- MCServiceFacts
  EngineSignals <- MCEngineSignals
  MaxSections = 3
  NoRef = NoRef
  Facts <- MCFacts
  Nobody = Nobody
  Pinnable = {"pod", "svc"}
  Counts = {0, 1, 2, 10}
  Null = Null
  Schemas <- MCSchemas
  None = None
  PaneKinds = {pk1, pk2}
  RowNames = {o1, o2}
  FoundNames = {o1}
  TableCols = {"name", "age"}
  MatchRefs <- MCMatchRefs
  MatchLoads <- MCMatchLoads
  MatchPods <- MCMatchPods
  MatchServices <- MCMatchServices
  MatchNs = {"ns"}
  NoSpace = NoSpace
  EvidencePool <- MCEvidencePool
  BusSize = 1
  RingSize = 2
  Structurals = {}
  ClusterHealth <- MCClusterHealth
  MaxEvidence = 4
  MaxNoted = 2
  MaxRefreshFails = 0
  NoEvidence = NoEvidence
INVARIANTS MatchesTrue ObjectsTrue TableTrue EvidenceHolds
 
CHECK_DEADLOCK FALSE
