SPECIFICATION Spec
CONSTANTS
    Threads = {t1}
    Requests = {1, 4, 7, 10}
    TagSize = 1
    PageSize = 4
    PageCount = 2
    MinExp = 1
    MaxExp = 4
    MaxComplete = 1
    KernelStart = 5
    HeapStart = 10
    HeapEnd = 46
    TableEnd = 36
INVARIANTS Tiling Coalesced FreeListsSound CompleteCount StopsExplained
PROPERTY GrowsOnlyWhenFull
CHECK_DEADLOCK FALSE
