SPECIFICATION Spec
CONSTANTS
    Threads = {t1}
    Requests = {1, 4, 12}
    TagSize = 1
    PageSize = 4
    PageCount = 2
    MinExp = 1
    MaxExp = 4
    MaxComplete = 2
    KernelStart = 5
    HeapStart = 10
    HeapEnd = 42
    TableEnd = 32
INVARIANT ReallocKeepsOnFailure
CHECK_DEADLOCK FALSE
