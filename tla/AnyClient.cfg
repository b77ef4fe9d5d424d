\* Two threads, two slots, clients that also free twice, free by mistake and
\* use freed memory.
SPECIFICATION Spec
CONSTANTS
    GuardedPagePool = 8
    PageSize = 4
    MaxSimultaneousAllocations = 2
    DefaultAlignment = 2
    Threads = {t1, t2}
    NoThread = NoThread
    Requests <- OneRequest
    HeapAddresses = {}
    WildPointers <- Wild
    StoresInOrder = TRUE
INVARIANTS
    TypeOK
    SlotExclusive
    FreeListHasRoom
    UnmappedIsRecorded
    FreePagesAreInaccessible
SYMMETRY ThreadSymmetry
PROPERTY FirstErrorIsKept
