\* One thread, two slots, every address of the guard pages.
SPECIFICATION ReportSpec
CONSTANTS
    GuardedPagePool = 8
    PageSize = 4
    MaxSimultaneousAllocations = 2
    DefaultAlignment = 2
    Threads = {t1}
    NoThread = NoThread
    Requests <- TwoRequests
    HeapAddresses = {}
    WildPointers <- AllGuards
    StoresInOrder = TRUE
PROPERTY OutOfBoundsIsReported
