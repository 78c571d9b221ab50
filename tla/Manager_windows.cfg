SPECIFICATION FairSpec
CONSTANTS
    Windows = {w1, w2}
    Contexts = {c1}
    None = None
    MaxChanges = 2
    MaxOps = 1
    MaxExits = 1
INVARIANTS OneRecorder NoLeakedLock ClearAlone
PROPERTIES Converges CloseReturns
