SPECIFICATION Spec
CONSTANTS
    a = a
    b = b
    n1 = n1
    n2 = n2
    Uids = {a, b}
    Namespaces <- TwoNs
    Cluster = Cluster
    NsOf <- NsOfTwo
    Warnings <- WarningsA
    Apis = {"v1"}
    QueueCap = 1
    FlushRows = 2
    MaxPendingRows = 1
    MaxRV = 2
    MaxFaults = 2
    MaxReplans = 1
INVARIANT ResumePointCovers
INVARIANT PointExactWithinPlan
 
CONSTRAINT OneKindOfTrouble
CHECK_DEADLOCK FALSE
