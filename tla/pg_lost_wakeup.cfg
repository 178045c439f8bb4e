SPECIFICATION FairSpec
CONSTANTS
    Nodes <- MCNodes
    Tasks <- MCNodes
    Root = 0
    Info <- MCInfo
    Neighbours <- MCNeighbours
    Threads = {t1, t2}
    None = None
    SpuriousWakeups = FALSE
PROPERTIES CompletionIsReached
CHECK_DEADLOCK FALSE
