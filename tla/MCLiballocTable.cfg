SPECIFICATION Spec
CONSTANTS
    Threads = {t1}
    Requests = {4}
    TagSize = 1
    PageSize = 4
    PageCount = 2
    MinExp = 1
    MaxExp = 4
    MaxComplete = 5
    KernelStart = 5
    HeapStart = 10
    HeapEnd = 30
    TableEnd = 20
INVARIANT NeverHalts
CHECK_DEADLOCK FALSE
