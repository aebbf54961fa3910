SPECIFICATION Spec
CONSTANTS
    Threads = {t1}
    Requests = {4}
    TagSize = 1
    PageSize = 4
    PageCount = 2
    MinExp = 1
    MaxExp = 4
    MaxComplete = 1
    KernelStart = 5
    HeapStart = 10
    HeapEnd = 46
    TableEnd = 36
PROPERTY FreesThatManyPages
CHECK_DEADLOCK FALSE
