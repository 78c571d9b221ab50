SPECIFICATION EngineSpec
CONSTANTS
  n1 = n1
  Uids = {a}
  Namespaces = {n1}
  Cluster = Cluster
  NsOf <- MCNsOf
  Warnings = {a}
  Apis = {"v1"}
  QueueCap = 1
  FlushRows = 2
  MaxPendingRows = 1
  MaxRV = 2
  MaxFaults = 1
  MaxReplans = 1
  TailPods = {p1, p2, p3}
  TailContainers = {main}
  MaxLogRequests = 1
  pendingMultiplier = 1
  NoPod = NoPod
  MaxPodSteps = 2
  EvidencePool <- MCEvidencePool
  BusSize = 1
  RingSize = 2
  Structurals = {s1}
  ClusterHealth <- MCClusterHealth
  MaxEvidence = 1
  MaxNoted = 1
  MaxRefreshFails = 1
  NoEvidence = NoEvidence
INVARIANT FollowsHold
PROPERTIES EveryEventSettles StopReturns TailEnds CatchesUp
CHECK_DEADLOCK FALSE
