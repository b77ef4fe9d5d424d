\* Correct clients; the stores of RecordAllocation may be reordered.
SPECIFICATION OwnerSpec
CONSTANTS
    GuardedPagePool = 8
    PageSize = 4
    MaxSimultaneousAllocations = 2
    DefaultAlignment = 2
    Threads = {t1, t2}
    NoThread = NoThread
    Requests <- AllRequests
    HeapAddresses <- OneHeapBlock
    WildPointers = {}
    StoresInOrder = FALSE
SYMMETRY ThreadSymmetry
INVARIANTS
    NoFalseAlarm
    LiveIsUsable
    SlotsAreConserved
PROPERTY HeapSpec
