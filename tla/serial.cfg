SPECIFICATION FairSpec
CONSTANTS
    NumNodes = 4
    EdgeLists <- MCEdgeLists
    Info <- MCInfo
INVARIANTS ListsMatchEdges SerialInv PrintedSum
PROPERTIES Terminates
CHECK_DEADLOCK FALSE
