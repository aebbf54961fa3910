SPECIFICATION FairSpec
CONSTANTS
    Threads = {t1, t2}
    Requests = {1, 4, 12}
    TagSize = 1
    PageSize = 4
    PageCount = 3
    MinExp = 1
    MaxExp = 4
    MaxComplete = 2
    KernelStart = 5
    HeapStart = 13
    HeapEnd = 41
    TableEnd = 28
PROPERTY SomeCallReturns
CHECK_DEADLOCK FALSE
