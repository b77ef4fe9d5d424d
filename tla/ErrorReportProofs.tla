--------------------------- MODULE ErrorReportProofs ---------------------------
(***************************************************************************)
(* The SIGSEGV handler tells the truth, for any number of threads and      *)
(* slots and any client: the thread that detected an error reports it, and *)
(* a use after free or an access out of bounds is reported as what it is,  *)
(* although the handler reads the pool without a lock.                     *)
(***************************************************************************)
EXTENDS ErrorReport, GuardedPoolProofs

-------------------------------------------------------------------------------
(***************************************************************************)
(* Pool and handler together behave as the pool does: a step of a handler  *)
(* ends the process, as Die does, or changes nothing of the pool.          *)
(***************************************************************************)
LEMMA HandlerRefines ==
    ASSUME NEW t \in Threads, HandlerStep(t)
    PROVE  /\ pc[t] = "fault"
           /\ Die(t) \/ UNCHANGED vars
<1> USE DEF InHandler, Killed, vars, errorVars
<1>1. UNCHANGED << poolVars, failureType, failureAddress, localVars, clientVars >>
  BY DEF HandlerStep
<1>2. CASE DefaultAction(t) \/ Raise(t)
  BY <1>1, <1>2 DEF DefaultAction, Raise, Die, At
<1>3. CASE ChooseErrorPtr(t)
  BY <1>1, <1>3 DEF ChooseErrorPtr, Die, At
<1>4. CASE PrintReport(t) \/ ResetDisposition(t)
  BY <1>1, <1>4 DEF PrintReport, ResetDisposition
<1> QED
  BY <1>2, <1>3, <1>4 DEF HandlerStep

LEMMA StepRefines == [ReportNext]_allVars => [Next]_vars
<1> SUFFICES ASSUME [ReportNext]_allVars PROVE [Next]_vars
  OBVIOUS
<1>1. CASE UNCHANGED allVars
  BY <1>1 DEF allVars
<1>2. ASSUME NEW t \in Threads, HandlerStep(t) PROVE [Next]_vars
  BY <1>2, HandlerRefines DEF Next
<1>3. ASSUME NEW t \in Threads, InCall(t) \/ OwnerCall(t) \/ Misuse(t) PROVE [Next]_vars
  BY <1>3 DEF Next
<1>4. CASE ProcessIsDead
  BY <1>4 DEF Next
<1> QED
  BY <1>1, <1>2, <1>3, <1>4 DEF ReportNext

\* The handler does to the pool nothing that the pool alone may not do: what is
\* proved of every behaviour of the pool holds when a handler runs beside it.
THEOREM ReportRefinesPool == ReportSpec => Init /\ [][Next]_vars
<1> QED
  BY StepRefines, PTL DEF ReportSpec, ReportInit

\* What the pool's proofs know of a state.
PoolInv == AnyOrderInv /\ ErrorInv

LEMMA PoolInvHolds == ReportSpec => []PoolInv
<1>1. Init => PoolInv
  BY InitAny DEF PoolInv, Init, ErrorInv
<1>2. PoolInv /\ [Next]_vars => PoolInv'
  BY NextAny, ErrorInvNext DEF PoolInv, AnyOrderInv
<1> QED
  BY <1>1, <1>2, ReportRefinesPool, PTL

-------------------------------------------------------------------------------
(***************************************************************************)
(* The thread that detected an error.                                      *)
(***************************************************************************)
ReportTypes ==
    {"none", "UNKNOWN", "INVALID_FREE", "DOUBLE_FREE", "BUFFER_OVERFLOW",
     "BUFFER_UNDERFLOW", "USE_AFTER_FREE"}

HandlerTypes ==
    /\ handler \in [Threads -> {"none", "diagnose", "reset", "raise"}]
    /\ errorPtr \in [Threads -> PoolAddresses \cup {NULL}]
    /\ report \in [Threads -> [type : ReportTypes, addr : PoolAddresses \cup {NULL}]]

\* Who is in the handler has faulted, and who holds the mutex is in a critical
\* section or has trapped.
PlaceInv ==
    \A t \in Threads :
        /\ handler[t] # "none" \/ report[t] # NoReport => pc[t] = "fault"
        /\ mutex = t => pc[t] \in CriticalSection \cup {"fault"}

\* A thread that faults with the mutex has trapped, and its handler looks at the
\* error on record.
TrapInv ==
    \A t \in Threads : mutex = t =>
        /\ pc[t] = "fault" => failureType # "UNKNOWN" /\ failureAddress # NULL
        /\ handler[t] = "diagnose" => errorPtr[t] = failureAddress
        /\ report[t] # NoReport => report[t] = [type |-> failureType, addr |-> failureAddress]

\* The handler of any other thread looks at the address its thread accessed.
AccessInv ==
    \A t \in Threads : handler[t] = "diagnose" /\ failureType = "UNKNOWN" =>
        errorPtr[t] = ptr[t] /\ PointerIsMine(ptr[t])

ReportInv == HandlerTypes /\ PlaceInv /\ TrapInv /\ AccessInv

\* A step of t in the pool: only t moves, the mutex passes through no hands but
\* t's, and with the mutex t faults at the end of trapOnAddress only.
PoolStep(t) ==
    /\ pc[t] # "fault"
    /\ \A u \in Threads : u # t =>
          pc'[u] = pc[u] /\ ptr'[u] = ptr[u] /\ (mutex' = u => mutex = u)
    /\ mutex' = t => pc'[t] \in CriticalSection \cup {"fault"}
    /\ mutex' = t /\ pc'[t] = "fault" => StoreFailureAddress(t)

LEMMA CallIsPoolStep ==
    ASSUME PoolInv, NEW t \in Threads, InCall(t),
           mutex = t => pc[t] \in CriticalSection \cup {"fault"}
    PROVE  PoolStep(t)
<1>1. /\ TypeOK
      /\ pc[t] \in CriticalSection <=> mutex = t /\ pc[t] # "fault"
      /\ t # NoThread /\ NoThread \notin Threads
  BY ClientAssumption DEF PoolInv, AnyOrderInv, MutexInv, CriticalSection
<1> USE <1>1 DEF PoolStep, At, Goto, poolVars, errorVars, clientVars, CriticalSection, TypeOK
<1>2. CASE LockReserve(t) \/ LockInvalidFree(t) \/ LockDeallocate(t) \/ LockFreeSlot(t)
  BY <1>2 DEF LockReserve, LockInvalidFree, LockDeallocate, LockFreeSlot, Lock
<1>3. CASE ReserveSlot(t)
  BY <1>3 DEF ReserveSlot, Unlock
<1>4. CASE RemoveSlot(t) \/ RecordDeallocation(t)
  BY <1>4 DEF RemoveSlot, RecordDeallocation, Unlock
<1>5. CASE FreeSlot(t)
  BY <1>5 DEF FreeSlot, Unlock, ReturnFromCall
<1>6. CASE MapSlot(t)
  BY <1>6 DEF MapSlot
<1>7. CASE StoreAddr(t) \/ StoreFlag(t)
  BY <1>7 DEF StoreAddr, StoreFlag
<1>8. CASE Return(t) \/ Malloc(t)
  BY <1>8 DEF Return, Malloc, ReturnFromCall
<1>9. CASE CheckAddr(t) \/ CheckDeallocated(t) \/ Unmap(t)
  BY <1>9 DEF CheckAddr, CheckDeallocated, Unmap
<1>10. CASE StoreFailureType(t)
  BY <1>10 DEF StoreFailureType
<1>11. CASE StoreFailureAddress(t)
  BY <1>11 DEF StoreFailureAddress
<1> QED
  BY <1>2, <1>3, <1>4, <1>5, <1>6, <1>7, <1>8, <1>9, <1>10, <1>11, Zenon
  DEF InCall, AllocateStep, DeallocateStep

LEMMA ClientIsPoolStep ==
    ASSUME PoolInv, NEW t \in Threads, OwnerCall(t) \/ Misuse(t),
           mutex = t => pc[t] \in CriticalSection \cup {"fault"}
    PROVE  PoolStep(t)
<1>1. TypeOK
  BY DEF PoolInv, AnyOrderInv
<1> USE <1>1 DEF PoolStep, At, Goto, poolVars, CriticalSection, TypeOK
<1>2. ASSUME NEW r, Allocate(t, r) PROVE PoolStep(t)
  BY <1>2 DEF Allocate
<1>3. ASSUME NEW p, Deallocate(t, p) PROVE PoolStep(t)
  BY <1>3 DEF Deallocate
<1>4. ASSUME NEW p, Access(t, p) PROVE PoolStep(t)
  BY <1>4 DEF Access
<1> QED
  BY <1>2, <1>3, <1>4 DEF OwnerCall, Misuse

\* No step changes an error on record.
LEMMA ErrorKept ==
    ASSUME PoolInv, [Next]_vars
    PROVE  /\ failureType # "UNKNOWN" => failureType' = failureType
           /\ failureAddress # NULL => failureAddress' = failureAddress
BY ErrorInvNext DEF PoolInv, AnyOrderInv

LEMMA PoolKeepsReport ==
    ASSUME PoolInv, PoolInv', ReportInv, NEW t \in Threads,
           InCall(t) \/ OwnerCall(t) \/ Misuse(t), UNCHANGED handlerVars
    PROVE  ReportInv'
<1>1. PoolStep(t)
  BY CallIsPoolStep, ClientIsPoolStep DEF ReportInv, PlaceInv
<1>2. UNCHANGED << handler, errorPtr, report >>
  BY DEF handlerVars
<1>3. /\ failureType # "UNKNOWN" => failureType' = failureType
      /\ failureAddress # NULL => failureAddress' = failureAddress
  BY ErrorKept DEF Next
<1>4. handler[t] = "none" /\ report[t] = NoReport
  BY <1>1 DEF PoolStep, ReportInv, PlaceInv
<1>5. HandlerTypes'
  BY <1>2 DEF ReportInv, HandlerTypes
<1>6. PlaceInv'
  BY <1>1, <1>2, <1>4 DEF ReportInv, PlaceInv, PoolStep
<1>7. TrapInv'
  <2>1. ASSUME NEW u \in Threads, u # t, mutex' = u
        PROVE  /\ pc'[u] = "fault" => failureType' # "UNKNOWN" /\ failureAddress' # NULL
               /\ handler[u] = "diagnose" => errorPtr[u] = failureAddress'
               /\ report[u] # NoReport =>
                      report[u] = [type |-> failureType', addr |-> failureAddress']
    BY <1>1, <1>3, <2>1 DEF PoolStep, ReportInv, PlaceInv, TrapInv
  <2>2. ASSUME mutex' = t, pc'[t] = "fault"
        PROVE  failureType' # "UNKNOWN" /\ failureAddress' # NULL
    <3>1. StoreFailureAddress(t)
      BY <1>1, <2>2 DEF PoolStep
    <3>2. failureAddress' = ptr[t] /\ failureType' = failureType /\ pc[t] = "storeAddress"
      BY <3>1 DEF StoreFailureAddress, At
    <3>3. failureType # "UNKNOWN"
      BY <3>2 DEF PoolInv, ErrorInv
    <3>4. ptr[t] \in PoolAddresses
      BY <3>2 DEF PoolInv, AnyOrderInv, LocalsInv, FreesAt
    <3> QED
      BY <3>2, <3>3, <3>4, PoolAssumption DEF NULL, PoolAddresses, GuardedPagePoolEnd
  <2> QED
    BY <1>2, <1>4, <2>1, <2>2 DEF TrapInv
<1>8. AccessInv'
  BY <1>1, <1>2, <1>3, <1>4 DEF ReportInv, AccessInv, PoolStep
<1> QED
  BY <1>5, <1>6, <1>7, <1>8 DEF ReportInv

\* The thread that trapped is told what it trapped for.
LEMMA TrapDiagnosed ==
    ASSUME NEW p, failureType # "UNKNOWN", failureAddress # NULL
    PROVE  Diagnose(p) = failureType
BY DEF Diagnose, ErrorIsMine

LEMMA DiagnosisType ==
    ASSUME TypeOK, NEW p
    PROVE  Diagnose(p) \in ReportTypes
<1>1. failureType \in ReportTypes
  BY DEF TypeOK, ReportTypes
<1>2. CASE ~ ErrorIsMine(p)
  BY <1>2 DEF Diagnose, ReportTypes
<1>3. CASE ErrorIsMine(p) /\ failureType # "UNKNOWN"
  BY <1>1, <1>3 DEF Diagnose
<1>4. CASE ErrorIsMine(p) /\ failureType = "UNKNOWN" /\ IsGuardPage(p)
  BY <1>4 DEF Diagnose, ReportTypes
<1>5. CASE ErrorIsMine(p) /\ failureType = "UNKNOWN" /\ ~ IsGuardPage(p)
  BY <1>5 DEF Diagnose, ReportTypes
<1> QED
  BY <1>2, <1>3, <1>4, <1>5

LEMMA HandlerKeepsReport ==
    ASSUME PoolInv, ReportInv, NEW t \in Threads, HandlerStep(t)
    PROVE  ReportInv'
<1> USE DEF ReportInv, InHandler, Killed
<1>1. TypeOK
  BY DEF PoolInv, AnyOrderInv
<1>2. /\ UNCHANGED << poolVars, failureType, failureAddress, localVars, clientVars >>
      /\ pc[t] = "fault"
  BY HandlerRefines DEF HandlerStep
<1>3. UNCHANGED << mutex, pc, ptr, failureType, failureAddress >>
  BY <1>2 DEF poolVars, localVars
<1>4. CASE UNCHANGED << handler, errorPtr, report >>
  BY <1>3, <1>4 DEF HandlerTypes, PlaceInv, TrapInv, AccessInv
<1>5. CASE /\ errorPtr' = [errorPtr EXCEPT ![t] =
                              IF failureAddress # NULL THEN failureAddress ELSE ptr[t]]
           /\ handler' = [handler EXCEPT ![t] =
                              IF ErrorIsMine(ptr[t]) THEN "diagnose" ELSE "reset"]
           /\ report' = report
  <2>1. /\ errorPtr'[t] = IF failureAddress # NULL THEN failureAddress ELSE ptr[t]
        /\ handler'[t] \in {"diagnose", "reset"}
        /\ handler'[t] = "diagnose" => ErrorIsMine(ptr[t])
        /\ \A u \in Threads : u # t => errorPtr'[u] = errorPtr[u] /\ handler'[u] = handler[u]
    BY <1>5 DEF HandlerTypes
  <2>2. HandlerTypes'
    BY <1>1, <1>5 DEF HandlerTypes, TypeOK
  <2>3. PlaceInv'
    BY <1>2, <1>3, <1>5, <2>1 DEF PlaceInv
  <2>4. TrapInv'
    BY <1>2, <1>3, <1>5, <2>1 DEF TrapInv
  <2>5. ASSUME failureType = "UNKNOWN", ErrorIsMine(ptr[t])
        PROVE  errorPtr'[t] = ptr[t] /\ PointerIsMine(ptr[t])
    BY <2>1, <2>5 DEF PoolInv, ErrorInv, ErrorIsMine
  <2>6. AccessInv'
    BY <1>3, <2>1, <2>5 DEF AccessInv
  <2> QED
    BY <2>2, <2>3, <2>4, <2>6
<1>6. CASE PrintReport(t)
  <2> DEFINE r == [type |-> Diagnose(errorPtr[t]), addr |-> errorPtr[t]]
  <2>1. /\ report' = [report EXCEPT ![t] = r] /\ handler' = [handler EXCEPT ![t] = "reset"]
        /\ errorPtr' = errorPtr /\ handler[t] = "diagnose"
    BY <1>6 DEF PrintReport
  <2>2. r \in [type : ReportTypes, addr : PoolAddresses \cup {NULL}]
    BY <1>1, DiagnosisType DEF HandlerTypes
  <2>3. mutex = t => r = [type |-> failureType, addr |-> failureAddress]
    BY <1>2, <2>1, TrapDiagnosed DEF TrapInv
  <2> HIDE DEF r
  <2>4. /\ report'[t] = r /\ handler'[t] = "reset"
        /\ \A u \in Threads : u # t => report'[u] = report[u] /\ handler'[u] = handler[u]
    BY <2>1 DEF HandlerTypes
  <2>5. HandlerTypes'
    BY <2>1, <2>2 DEF HandlerTypes
  <2>6. PlaceInv'
    BY <1>2, <1>3, <2>4 DEF PlaceInv
  <2>7. TrapInv'
    BY <1>2, <1>3, <2>1, <2>3, <2>4 DEF TrapInv
  <2>8. AccessInv'
    BY <1>3, <2>1, <2>4 DEF AccessInv
  <2> QED
    BY <2>5, <2>6, <2>7, <2>8
<1>7. CASE ResetDisposition(t)
  <2>1. /\ handler' = [handler EXCEPT ![t] = "raise"]
        /\ errorPtr' = errorPtr /\ report' = report
    BY <1>7 DEF ResetDisposition
  <2>2. /\ handler'[t] = "raise"
        /\ \A u \in Threads : u # t => handler'[u] = handler[u]
    BY <2>1 DEF HandlerTypes
  <2> QED
    BY <1>2, <1>3, <2>1, <2>2 DEF HandlerTypes, PlaceInv, TrapInv, AccessInv
<1> QED
  BY <1>4, <1>5, <1>6, <1>7 DEF HandlerStep, DefaultAction, ChooseErrorPtr, Raise

LEMMA ReportInvNext == PoolInv /\ PoolInv' /\ ReportInv /\ [ReportNext]_allVars => ReportInv'
<1> SUFFICES ASSUME PoolInv, PoolInv', ReportInv, [ReportNext]_allVars PROVE ReportInv'
  OBVIOUS
<1>1. CASE UNCHANGED << vars, handlerVars >>
  BY <1>1 DEF vars, poolVars, errorVars, localVars, handlerVars,
     ReportInv, HandlerTypes, PlaceInv, TrapInv, AccessInv
<1> QED
  BY <1>1, PoolKeepsReport, HandlerKeepsReport DEF ReportNext, ProcessIsDead, allVars

LEMMA ReportInvHolds == ReportSpec => []ReportInv
<1>1. ReportInit => ReportInv
  <2> SUFFICES ASSUME ReportInit PROVE ReportInv
    OBVIOUS
  <2>1. mutex = NoThread /\ NoThread \notin Threads
    BY ClientAssumption DEF ReportInit, Init
  <2> QED
    BY <2>1 DEF ReportInit, ReportInv, HandlerTypes, PlaceInv, TrapInv, AccessInv,
       NoReport, ReportTypes
<1> QED
  BY <1>1, ReportInvNext, PoolInvHolds, PTL DEF ReportSpec

\* The thread that detected a double or invalid free reports that error, with the
\* address it was given, whatever the other threads do and however the stores of
\* RecordAllocation are ordered.
THEOREM TrapsAreReported == ReportSpec => []TrapIsReported
<1>1. ReportInv => TrapIsReported
  BY DEF ReportInv, TrapInv, TrapIsReported
<1> QED
  BY <1>1, ReportInvHolds, PTL

-------------------------------------------------------------------------------
(***************************************************************************)
(* What is reported for an access.                                         *)
(***************************************************************************)

\* A report comes to be known when its thread prints it, for the address the
\* thread accessed.
LEMMA ReportMoment ==
    ASSUME PoolInv, ReportInv, [ReportNext]_allVars, NEW t \in Threads,
           ~ ReportedAccess(t), ReportedAccess(t)'
    PROVE  /\ report'[t].type = Diagnose(ptr[t])
           /\ failureType = "UNKNOWN" /\ PointerIsMine(ptr[t])
<1>1. failureType = "UNKNOWN" /\ report[t] = NoReport /\ report'[t] # NoReport
  BY StepRefines, ErrorKept DEF ReportedAccess
<1>2. PICK u \in Threads : HandlerStep(u) /\ report' # report
  BY <1>1 DEF ReportNext, allVars, handlerVars
<1>3. PrintReport(u)
  BY <1>2 DEF HandlerStep, DefaultAction, ChooseErrorPtr, ResetDisposition, Raise
<1>4. report' = [report EXCEPT ![u] = [type |-> Diagnose(errorPtr[u]), addr |-> errorPtr[u]]]
      /\ handler[u] = "diagnose"
  BY <1>3 DEF PrintReport, InHandler
<1>5. u = t
  BY <1>1, <1>4 DEF ReportInv, HandlerTypes
<1>6. errorPtr[t] = ptr[t] /\ PointerIsMine(ptr[t])
  BY <1>1, <1>4, <1>5 DEF ReportInv, AccessInv
<1>7. report'[t].type = Diagnose(ptr[t])
  BY <1>4, <1>5, <1>6 DEF ReportInv, HandlerTypes
<1> QED
  BY <1>1, <1>6, <1>7

LEMMA UseAfterFreeDiagnosed ==
    ASSUME NEW n \in Slots, NEW p \in SlotToAddr(n) .. SlotToAddr(n) + PageSize - 1,
           metadata[n].IsDeallocated, failureType = "UNKNOWN", PointerIsMine(p)
    PROVE  Diagnose(p) = "USE_AFTER_FREE"
<1>1. ~ IsGuardPage(p) /\ GetNearestSlot(p) = n
  BY NearestInSlot
<1> QED
  BY <1>1 DEF Diagnose, ErrorIsMine, NearestMetadata

LEMMA IndInvHolds == StoresInOrder => (ReportSpec => []IndInv)
<1> SUFFICES ASSUME StoresInOrder PROVE ReportSpec => []IndInv
  OBVIOUS
<1>1. IndInv /\ [Next]_vars => IndInv'
  BY NextInd
<1> QED
  BY InitInd, <1>1, ReportRefinesPool, PTL

(***************************************************************************)
(* An allocation on record that is in nobody's hands is recorded as given  *)
(* back.                                                                   *)
(***************************************************************************)
HandsPlaces ==
    {"recordFlag", "return", "checkAddr", "lockDeallocate", "checkDeallocated",
     "recordDeallocation"}

HandsInv ==
    /\ \A t \in Threads : pc[t] = "recordFlag" => metadata[slot[t]].Addr = ptr[t]
    /\ \A n \in Slots : metadata[n].Addr # NULL /\ ~ InHands(n) => metadata[n].IsDeallocated

\* A step that stores nothing in the metadata, and after which every allocation
\* is still in the hands it was in, or in others.
LEMMA HandsKept ==
    ASSUME HandsInv, NEW t \in Threads, Others(t), metadata' = metadata,
           pc'[t] # "recordFlag",
           \A n \in Slots : metadata[n].Addr # NULL /\ InHands(n) =>
               metadata[n].IsDeallocated \/ InHands(n)'
    PROVE  HandsInv'
BY DEF HandsInv, Others

\* ... for instance because it changes nothing but what the thread does that is
\* none of those holding an allocation.
LEMMA HandsUntouched ==
    ASSUME HandsInv, NEW t \in Threads, Others(t), metadata' = metadata, live \subseteq live',
           pc'[t] # "recordFlag",
           pc[t] \in HandsPlaces => pc'[t] \in HandsPlaces /\ ptr'[t] = ptr[t]
    PROVE  HandsInv'
<1>1. \A n \in Slots : InHands(n) => InHands(n)'
  BY DEF InHands, Others, HandsPlaces
<1> QED
  BY <1>1, HandsKept

\* What is given back at an address on record is the allocation of the slot
\* nearest to it.
LEMMA AddrOfNearest ==
    ASSUME AddrInv, NEW n \in Slots, metadata[n].Addr # NULL
    PROVE  /\ GetNearestSlot(metadata[n].Addr) = n
           /\ metadata[n].Addr \in PoolAddresses /\ PointerIsMine(metadata[n].Addr)
<1>1. metadata[n].Addr \in SlotToAddr(n) .. SlotToAddr(n) + PageSize - 1
  BY DEF AddrInv
<1>2. metadata[n].Addr \in PoolAddresses /\ GetNearestSlot(metadata[n].Addr) = n
  BY <1>1, SlotPageInPool, NearestInSlot
<1> QED
  BY <1>2, PoolAssumption DEF PoolAddresses, PointerIsMine, GuardedPagePoolEnd, Slots

LEMMA StoresKeepHands ==
    ASSUME IndInv, AddrInv, HandsInv, StoresInOrder, NEW t \in Threads,
           StoreAddr(t) \/ StoreFlag(t) \/ RecordDeallocation(t)
    PROVE  HandsInv'
<1> USE DEF At, Goto
<1>1. TypeOK /\ live' = live /\ ptr' = ptr /\ slot' = slot
  BY DEF IndInv, StoreAddr, StoreFlag, RecordDeallocation, clientVars
<1>2. CASE StoreAddr(t)
  <2>1. pc[t] = "record" /\ pc' = [pc EXCEPT ![t] = "recordFlag"]
    BY <1>2 DEF StoreAddr, IndInv, FlagInv
  <2>2. slot[t] \in Slots /\ ptr[t] \in Nat
    BY <1>1, <2>1, SlotTypes, PoolAssumption
    DEF IndInv, RequestInv, TypeOK, Slots, PoolAddresses, GuardedPagePoolEnd, NULL
  <2>3. metadata' = [metadata EXCEPT ![slot[t]].Addr = ptr[t]]
    BY <1>2, <2>2, NearestOfSlotStart DEF StoreAddr, SlotMeta
  <2>4. /\ metadata'[slot[t]].Addr = ptr[t]
        /\ \A n \in Slots : n # slot[t] => metadata'[n] = metadata[n]
    BY <1>1, <2>2, <2>3, AddrStored
  <2>5. pc'[t] = "recordFlag" /\ \A u \in Threads : u # t => pc'[u] = pc[u]
    BY <1>1, <2>1 DEF TypeOK
  <2>6. ASSUME NEW u \in Threads, u # t, pc[u] = "recordFlag"
        PROVE  metadata'[slot[u]].Addr = ptr[u]
    <3>1. slot[u] # slot[t]
      BY <2>1, <2>6 DEF IndInv, SlotExclusive, InTransit, Acquiring
    <3>2. slot[u] \in Slots
      BY <1>1, <2>6, SlotTypes DEF IndInv, RequestInv, TypeOK, Slots
    <3> QED
      BY <2>4, <2>6, <3>1, <3>2 DEF HandsInv
  <2>7. ASSUME NEW n \in Slots, metadata'[n].Addr # NULL, ~ InHands(n)'
        PROVE  metadata'[n].IsDeallocated
    <3>1. n # slot[t]
      BY <1>1, <2>4, <2>5, <2>7 DEF InHands
    <3>2. metadata'[n] = metadata[n] /\ ~ InHands(n)
      BY <1>1, <2>1, <2>4, <2>5, <2>7, <3>1 DEF InHands
    <3> QED
      BY <2>7, <3>2 DEF HandsInv
  <2> QED
    BY <1>1, <2>4, <2>5, <2>6, <2>7 DEF HandsInv
<1>3. CASE StoreFlag(t)
  <2>1. pc[t] = "recordFlag" /\ pc' = [pc EXCEPT ![t] = "return"]
    BY <1>3 DEF StoreFlag
  <2>2. slot[t] \in Slots
    BY <1>1, <2>1, SlotTypes DEF IndInv, RequestInv, TypeOK, Slots
  <2>3. metadata' = [metadata EXCEPT ![slot[t]].IsDeallocated = FALSE]
    BY <1>3, <2>2, NearestOfSlotStart DEF StoreFlag, SlotMeta
  <2>4. /\ metadata'[slot[t]].Addr = metadata[slot[t]].Addr
        /\ \A n \in Slots : n # slot[t] => metadata'[n] = metadata[n]
    BY <1>1, <2>2, <2>3, FlagStored
  <2>5. pc'[t] = "return" /\ \A u \in Threads : u # t => pc'[u] = pc[u]
    BY <1>1, <2>1 DEF TypeOK
  <2>6. ASSUME NEW u \in Threads, pc'[u] = "recordFlag"
        PROVE  metadata'[slot[u]].Addr = ptr[u]
    <3>1. pc[u] = "recordFlag" /\ metadata[slot[u]].Addr = ptr[u]
      BY <2>5, <2>6 DEF HandsInv
    <3>2. slot[u] \in Slots
      BY <1>1, <3>1, SlotTypes DEF IndInv, RequestInv, TypeOK, Slots
    <3> QED
      BY <2>4, <3>1, <3>2
  <2>7. ASSUME NEW n \in Slots, metadata'[n].Addr # NULL, ~ InHands(n)'
        PROVE  metadata'[n].IsDeallocated
    <3>1. n # slot[t]
      BY <1>1, <2>1, <2>4, <2>5, <2>7 DEF InHands, HandsInv
    <3>2. metadata'[n] = metadata[n] /\ ~ InHands(n)
      BY <1>1, <2>1, <2>4, <2>5, <2>7, <3>1 DEF InHands
    <3> QED
      BY <2>7, <3>2 DEF HandsInv
  <2> QED
    BY <1>1, <2>6, <2>7 DEF HandsInv
<1>4. CASE RecordDeallocation(t)
  <2>1. pc[t] = "recordDeallocation" /\ pc' = [pc EXCEPT ![t] = "unmap"]
    BY <1>4 DEF RecordDeallocation
  <2>2. slot[t] \in Slots /\ GetNearestSlot(ptr[t]) = slot[t]
    BY <1>1, <2>1, DeallocatingSlot DEF IndInv
  <2>3. metadata' = [metadata EXCEPT ![slot[t]].IsDeallocated = TRUE]
    BY <1>4, <2>2 DEF RecordDeallocation
  <2>4. /\ metadata'[slot[t]].IsDeallocated
        /\ metadata'[slot[t]].Addr = metadata[slot[t]].Addr
        /\ \A n \in Slots : n # slot[t] => metadata'[n] = metadata[n]
    BY <1>1, <2>2, <2>3, FlagStored
  <2>5. pc'[t] = "unmap" /\ \A u \in Threads : u # t => pc'[u] = pc[u]
    BY <1>1, <2>1 DEF TypeOK
  <2>6. ASSUME NEW u \in Threads, pc'[u] = "recordFlag"
        PROVE  metadata'[slot[u]].Addr = ptr[u]
    <3>1. pc[u] = "recordFlag" /\ metadata[slot[u]].Addr = ptr[u]
      BY <2>5, <2>6 DEF HandsInv
    <3>2. slot[u] \in Slots
      BY <1>1, <3>1, SlotTypes DEF IndInv, RequestInv, TypeOK, Slots
    <3> QED
      BY <2>4, <3>1, <3>2
  <2>7. ASSUME NEW n \in Slots, n # slot[t], metadata'[n].Addr # NULL, ~ InHands(n)'
        PROVE  metadata'[n].IsDeallocated
    <3>1. metadata'[n] = metadata[n]
      BY <2>4, <2>7
    <3>2. ptr[t] # metadata[n].Addr
      BY <2>2, <2>7, <3>1, AddrOfNearest
    <3>3. ~ InHands(n)
      BY <1>1, <2>5, <2>7, <3>1, <3>2 DEF InHands
    <3> QED
      BY <2>7, <3>1, <3>3 DEF HandsInv
  <2> QED
    BY <1>1, <2>4, <2>6, <2>7 DEF HandsInv
<1> QED
  BY <1>2, <1>3, <1>4

LEMMA CallsKeepHands ==
    ASSUME IndInv, AddrInv, HandsInv, StoresInOrder, NEW t \in Threads, InCall(t)
    PROVE  HandsInv'
<1>1. TypeOK
  BY DEF IndInv
<1> USE <1>1 DEF At, Goto, Lock, Unlock, ReturnFromCall, poolVars, errorVars, clientVars
<1>2. CASE \/ LockReserve(t) \/ LockInvalidFree(t) \/ LockDeallocate(t) \/ LockFreeSlot(t)
           \/ RemoveSlot(t) \/ MapSlot(t) \/ Unmap(t) \/ FreeSlot(t) \/ Malloc(t)
           \/ StoreFailureType(t) \/ StoreFailureAddress(t)
  <2>1. metadata' = metadata /\ live \subseteq live'
    BY <1>2 DEF LockReserve, LockInvalidFree, LockDeallocate, LockFreeSlot, RemoveSlot, MapSlot,
       Unmap, FreeSlot, Malloc, StoreFailureType, StoreFailureAddress
  <2>2. /\ Others(t) /\ pc'[t] # "recordFlag"
        /\ pc[t] \in HandsPlaces => pc'[t] \in HandsPlaces /\ ptr'[t] = ptr[t]
    BY <1>2 DEF LockReserve, LockInvalidFree, LockDeallocate, LockFreeSlot, RemoveSlot, MapSlot,
       Unmap, FreeSlot, Malloc, StoreFailureType, StoreFailureAddress, TypeOK, Others, HandsPlaces
  <2> QED
    BY <2>1, <2>2, HandsUntouched
<1>3. CASE ReserveSlot(t)
  <2>1. /\ metadata' = metadata /\ live' = live /\ ptr' = ptr /\ req' = req
        /\ pc[t] = "reserveSlot" /\ slot' \in [Threads -> Slots \cup {0}]
        /\ \A u \in Threads : u # t => slot'[u] = slot[u] /\ index'[u] = index[u]
    BY <1>3, SlotTypes DEF ReserveSlot, TypeOK
  <2>2. PICK place \in {"removeSlot", "malloc"} : pc' = [pc EXCEPT ![t] = place]
    BY <1>3 DEF ReserveSlot
  <2>3. Others(t) /\ pc'[t] # "recordFlag" /\ pc[t] \notin HandsPlaces
    BY <2>1, <2>2 DEF Others, HandsPlaces, TypeOK
  <2> QED
    BY <2>1, <2>3, HandsUntouched
<1>4. CASE Return(t)
  <2>1. /\ metadata' = metadata /\ Others(t) /\ pc'[t] # "recordFlag" /\ pc[t] = "return"
        /\ live \subseteq live'
    BY <1>4 DEF Return, TypeOK, Others
  <2>2. \E b \in live' : b.addr = ptr[t]
    <3>1. Block(ptr[t], req[t]).addr = ptr[t]
      BY DEF Block
    <3> QED
      BY <1>4, <3>1 DEF Return
  <2>3. \A n \in Slots : InHands(n) => InHands(n)'
    BY <2>1, <2>2 DEF InHands, Others
  <2> QED
    BY <2>1, <2>3, HandsKept
<1>5. CASE CheckAddr(t)
  <2>1. /\ metadata' = metadata /\ Others(t) /\ pc'[t] # "recordFlag"
        /\ live' = live /\ ptr' = ptr
        /\ metadata[GetNearestSlot(ptr[t])].Addr = ptr[t] => pc'[t] = "lockDeallocate"
    BY <1>5 DEF CheckAddr, TypeOK, Others
  <2>2. \A n \in Slots : metadata[n].Addr # NULL /\ InHands(n) => InHands(n)'
    BY <2>1, AddrOfNearest DEF InHands, Others
  <2> QED
    BY <2>1, <2>2, HandsKept
<1>6. CASE CheckDeallocated(t)
  <2>1. /\ metadata' = metadata /\ Others(t) /\ pc'[t] # "recordFlag"
        /\ live' = live /\ ptr' = ptr
        /\ metadata[GetNearestSlot(ptr[t])].IsDeallocated \/ pc'[t] = "recordDeallocation"
    BY <1>6 DEF CheckDeallocated, TypeOK, Others
  <2>2. \A n \in Slots : metadata[n].Addr # NULL /\ InHands(n) =>
            metadata[n].IsDeallocated \/ InHands(n)'
    BY <2>1, AddrOfNearest DEF InHands, Others
  <2> QED
    BY <2>1, <2>2, HandsKept
<1>7. CASE StoreAddr(t) \/ StoreFlag(t) \/ RecordDeallocation(t)
  BY <1>7, StoresKeepHands
<1> QED
  BY <1>2, <1>3, <1>4, <1>5, <1>6, <1>7 DEF InCall, AllocateStep, DeallocateStep

LEMMA ClientsKeepHands ==
    ASSUME IndInv, AddrInv, HandsInv, NEW t \in Threads, OwnerCall(t) \/ Misuse(t)
    PROVE  HandsInv'
<1>1. TypeOK
  BY DEF IndInv
<1> USE <1>1 DEF At, Goto, poolVars, errorVars, clientVars
<1>2. ASSUME NEW r, Allocate(t, r) PROVE HandsInv'
  <2>1. /\ metadata' = metadata /\ live' = live /\ Others(t) /\ pc[t] \notin HandsPlaces
        /\ pc'[t] # "recordFlag"
    BY <1>2 DEF Allocate, TypeOK, Others, HandsPlaces
  <2> QED
    BY <2>1, HandsUntouched
<1>3. ASSUME NEW p, Access(t, p) PROVE HandsInv'
  <2>1. /\ metadata' = metadata /\ live' = live /\ Others(t) /\ pc[t] \notin HandsPlaces
        /\ pc'[t] # "recordFlag"
    BY <1>3 DEF Access, TypeOK, Others, HandsPlaces
  <2> QED
    BY <2>1, HandsUntouched
<1>4. ASSUME NEW p, Deallocate(t, p) PROVE HandsInv'
  <2>1. /\ metadata' = metadata /\ live' = { b \in live : b.addr # p } /\ pc[t] = "idle"
    BY <1>4 DEF Deallocate
  <2>2. /\ Others(t) /\ pc'[t] # "recordFlag"
        /\ PointerIsMine(p) => pc'[t] = "checkAddr" /\ ptr'[t] = p
    BY <1>4 DEF Deallocate, TypeOK, Others
  <2>3. ASSUME NEW n \in Slots, metadata[n].Addr # NULL, InHands(n)
        PROVE  InHands(n)'
    <3>1. PointerIsMine(metadata[n].Addr)
      BY <2>3, AddrOfNearest
    <3>2. CASE metadata[n].Addr = p
      BY <2>1, <2>2, <3>1, <3>2 DEF InHands
    <3>3. CASE metadata[n].Addr # p
      BY <2>1, <2>2, <2>3, <3>3 DEF InHands, Others
    <3> QED
      BY <3>2, <3>3
  <2> QED
    BY <2>1, <2>2, <2>3, HandsKept
<1> QED
  BY <1>2, <1>3, <1>4 DEF OwnerCall, Misuse

LEMMA HandsInvHolds == StoresInOrder => (ReportSpec => []HandsInv)
<1> SUFFICES ASSUME StoresInOrder PROVE ReportSpec => []HandsInv
  OBVIOUS
<1>1. Init => HandsInv
  BY DEF Init, HandsInv
<1>2. IndInv /\ PoolInv /\ HandsInv /\ [Next]_vars => HandsInv'
  <2> SUFFICES ASSUME IndInv, AddrInv, HandsInv, [Next]_vars PROVE HandsInv'
    BY DEF PoolInv, AnyOrderInv
  <2>1. CASE UNCHANGED << metadata, live, pc, ptr, slot >>
    BY <2>1 DEF HandsInv, InHands
  <2> QED
    BY <2>1, CallsKeepHands, ClientsKeepHands
    DEF Next, Die, ProcessIsDead, vars, poolVars, localVars, clientVars
<1> QED
  BY <1>1, <1>2, IndInvHolds, PoolInvHolds, ReportRefinesPool, PTL

\* An access to the page of a free slot, or of one whose recorded allocation is in
\* nobody's hands, is reported as a use after free, whatever the other threads are
\* allocating and freeing meanwhile.
THEOREM UsesAfterFreeAreReported == StoresInOrder => (ReportSpec => UseAfterFreeIsReported)
<1> SUFFICES ASSUME StoresInOrder PROVE ReportSpec => UseAfterFreeIsReported
  OBVIOUS
<1> DEFINE Told ==
        \A t \in Threads, n \in Slots :
            LET page == SlotToAddr(n)
            IN  /\ ~ ReportedAccess(t) /\ ReportedAccess(t)'
                /\ ptr[t] \in page .. page + PageSize - 1
                /\ \/ \E i \in 1 .. Len(freeSlots) : freeSlots[i] = n
                   \/ metadata[n].Addr # NULL /\ ~ InHands(n)
                => report'[t].type = "USE_AFTER_FREE"
<1>1. ASSUME PoolInv, ReportInv, IndInv, HandsInv, [ReportNext]_allVars
      PROVE  Told
  <2> SUFFICES ASSUME NEW t \in Threads, NEW n \in Slots,
                      ~ ReportedAccess(t), ReportedAccess(t)',
                      ptr[t] \in SlotToAddr(n) .. SlotToAddr(n) + PageSize - 1,
                      \/ \E i \in 1 .. Len(freeSlots) : freeSlots[i] = n
                      \/ metadata[n].Addr # NULL /\ ~ InHands(n)
               PROVE  report'[t].type = "USE_AFTER_FREE"
    OBVIOUS
  <2>1. metadata[n].IsDeallocated
    BY <1>1 DEF IndInv, FlagInv, HandsInv
  <2>2. /\ report'[t].type = Diagnose(ptr[t])
        /\ failureType = "UNKNOWN" /\ PointerIsMine(ptr[t])
    BY <1>1, ReportMoment
  <2> QED
    BY <2>1, <2>2, UseAfterFreeDiagnosed
<1>2. PoolInv /\ ReportInv /\ IndInv /\ HandsInv /\ [ReportNext]_allVars => [Told]_allVars
  BY <1>1
<1> QED
  BY <1>2, HandsInvHolds, IndInvHolds, PoolInvHolds, ReportInvHolds, PTL
  DEF ReportSpec, UseAfterFreeIsReported

LEMMA OutOfBoundsDiagnosed ==
    ASSUME AddrInv, NEW n \in Slots, NEW p \in Nat, failureType = "UNKNOWN", PointerIsMine(p),
           metadata[n].Addr # NULL
    PROVE  /\ p \in SlotToAddr(n) + PageSize .. SlotToAddr(n) + PageSize + PageSize \div 2
              => Diagnose(p) = "BUFFER_OVERFLOW"
           /\ p \in SlotToAddr(n) - PageSize \div 2 + 1 .. SlotToAddr(n) - 1
              => Diagnose(p) = "BUFFER_UNDERFLOW"
<1>1. /\ metadata[n].Addr \in SlotToAddr(n) .. SlotToAddr(n) + PageSize - 1
      /\ SlotToAddr(n) \in Nat /\ PageSize \in Nat
  BY SlotInPool, PoolAssumption DEF AddrInv
<1>2. ErrorIsMine(p)
  BY DEF ErrorIsMine
<1>3. ASSUME p \in SlotToAddr(n) + PageSize .. SlotToAddr(n) + PageSize + PageSize \div 2
      PROVE  Diagnose(p) = "BUFFER_OVERFLOW"
  <2>1. IsGuardPage(p) /\ GetNearestSlot(SlotToAddr(GetNearestSlot(p))) = n
    BY <1>3, NearestAfterSlot, NearestOfSlotStart
  <2>2. metadata[n].Addr < p
    BY <1>1, <1>3
  <2> QED
    BY <1>2, <2>1, <2>2 DEF Diagnose, NearestMetadata
<1>4. ASSUME p \in SlotToAddr(n) - PageSize \div 2 + 1 .. SlotToAddr(n) - 1
      PROVE  Diagnose(p) = "BUFFER_UNDERFLOW"
  <2>1. IsGuardPage(p) /\ GetNearestSlot(SlotToAddr(GetNearestSlot(p))) = n
    BY <1>4, NearestBeforeSlot, NearestOfSlotStart
  <2>2. ~ (metadata[n].Addr < p)
    BY <1>1, <1>4
  <2> QED
    BY <1>2, <2>1, <2>2 DEF Diagnose, NearestMetadata
<1> QED
  BY <1>3, <1>4

\* An access next to a used slot is reported as an overflow or an underflow of
\* that slot, however the stores of RecordAllocation are ordered.
THEOREM OutOfBoundsAccessesAreReported == ReportSpec => OutOfBoundsIsReported
<1> DEFINE Told ==
        \A t \in Threads, n \in Slots :
            LET page == SlotToAddr(n)
                end  == SlotToAddr(n) + PageSize
            IN  /\ ~ ReportedAccess(t) /\ ReportedAccess(t)'
                /\ metadata[n].Addr # NULL
                => /\ ptr[t] \in end .. end + PageSize \div 2
                      => report'[t].type = "BUFFER_OVERFLOW"
                   /\ ptr[t] \in page - PageSize \div 2 + 1 .. page - 1
                      => report'[t].type = "BUFFER_UNDERFLOW"
<1>1. ASSUME PoolInv, ReportInv, [ReportNext]_allVars
      PROVE  Told
  <2>1. AddrInv /\ \A t \in Threads : ptr[t] \in Nat
    BY <1>1, PoolAssumption DEF PoolInv, AnyOrderInv, TypeOK, PoolAddresses, GuardedPagePoolEnd,
       NULL
  <2> SUFFICES ASSUME NEW t \in Threads, NEW n \in Slots,
                      ~ ReportedAccess(t), ReportedAccess(t)', metadata[n].Addr # NULL
               PROVE  /\ ptr[t] \in SlotToAddr(n) + PageSize
                                        .. SlotToAddr(n) + PageSize + PageSize \div 2
                         => report'[t].type = "BUFFER_OVERFLOW"
                      /\ ptr[t] \in SlotToAddr(n) - PageSize \div 2 + 1 .. SlotToAddr(n) - 1
                         => report'[t].type = "BUFFER_UNDERFLOW"
    OBVIOUS
  <2>2. /\ report'[t].type = Diagnose(ptr[t])
        /\ failureType = "UNKNOWN" /\ PointerIsMine(ptr[t])
    BY <1>1, ReportMoment
  <2> QED
    BY <2>1, <2>2, OutOfBoundsDiagnosed
<1>2. PoolInv /\ ReportInv /\ [ReportNext]_allVars => [Told]_allVars
  BY <1>1
<1> QED
  BY <1>2, PoolInvHolds, ReportInvHolds, PTL DEF ReportSpec, OutOfBoundsIsReported

===============================================================================
