SPECIFICATION FairSpec
CONSTANTS
    Handles = {h1, h2, h3}
    Sizes <- MCSizes
    Operations = {"malloc", "calloc", "realloc"}
    MetaSize = 4
    Align = 2
    MmapThreshold = 32
    PageSize = 16
    MaxBrk <- MCMaxBrk
    MapAddrs <- MCMapAddrs
INVARIANTS TypeOK HeapInv CoalescedForSearch CopyKeepsContents PrevLeadsIntoPredecessor
PROPERTIES MemorySpec GrowsOnlyWhenFull CallsReturn
CHECK_DEADLOCK FALSE
