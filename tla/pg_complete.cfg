SPECIFICATION FairSpec
CONSTANTS
    Nodes <- MCNodes
    Tasks <- MCNodes
    Root = 0
    Info <- MCInfo
    Neighbours <- MCNeighbours
    Threads = {t1, t2, t3}
    None = None
    SpuriousWakeups = FALSE
INVARIANTS CompletenessInv PrintedSum CompleteAfterJoin
PROPERTIES TraversalSpec StatusOnlyAdvances OneWorkerSuffices ExitsUnlessAsleep
CHECK_DEADLOCK FALSE
