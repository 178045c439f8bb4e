SPECIFICATION Spec
CONSTANTS
    Nodes <- MCNodes
    Tasks <- MCNodes
    Root = 0
    Info <- MCInfo
    Neighbours <- MCNeighbours
    Threads = {t1, t2, t3, t4}
    None = None
    SpuriousWakeups = TRUE
SYMMETRY Symmetry
INVARIANTS SafetyInv OneOwner FreedExactlyOnce
CHECK_DEADLOCK FALSE
