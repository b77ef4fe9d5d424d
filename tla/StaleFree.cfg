\* Two threads free the same address while its slot is handed out again.
SPECIFICATION Spec
CONSTANTS
    GuardedPagePool = 8
    PageSize = 4
    MaxSimultaneousAllocations = 1
    DefaultAlignment = 2
    Threads = {t1, t2}
    NoThread = NoThread
    Requests <- OneRequest
    HeapAddresses = {}
    WildPointers <- OneWild
    StoresInOrder = TRUE
INVARIANT DeallocationIsOfPresentAllocation
