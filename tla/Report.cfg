\* Two threads that race in the handler and with the pool.
SPECIFICATION ReportSpec
CONSTANTS
    GuardedPagePool = 8
    PageSize = 4
    MaxSimultaneousAllocations = 1
    DefaultAlignment = 2
    Threads = {t1, t2}
    NoThread = NoThread
    Requests <- OneRequest
    HeapAddresses = {}
    WildPointers <- OneWild
    StoresInOrder = TRUE
INVARIANT TrapIsReported
PROPERTIES
    PoolSpec
    FaultIsFatal
    ErrorIsFatal
    MutexIsReleased
    UseAfterFreeIsReported
