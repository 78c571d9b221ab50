SPECIFICATION Spec
CONSTANTS
    a = a
    b = b
    n1 = n1
    n2 = n2
    Uids = {a}
    Namespaces <- OneNs
    Cluster = Cluster
    NsOf <- NsOfOne
    Warnings <- AllWarnings
    Apis = {"v1"}
    QueueCap = 1
    FlushRows = 2
    MaxPendingRows = 1
    MaxRV = 3
    MaxFaults = 0
    MaxReplans = 1
INVARIANT ResumePointExact
CHECK_DEADLOCK FALSE
