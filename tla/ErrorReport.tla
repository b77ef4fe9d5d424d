------------------------------ MODULE ErrorReport ------------------------------
(***************************************************************************)
(* The SIGSEGV handler of remniw's runtime (error_report.cpp) composed     *)
(* with the pool it reports on.  A thread that faults enters the handler,  *)
(* which reads the pool's state and metadata without any lock while the    *)
(* other threads go on, prints a report, restores the default action and   *)
(* raises SIGSEGV again.                                                   *)
(***************************************************************************)
EXTENDS GuardedPool

VARIABLES
    handler,      \* each thread's place in sigSegvHandler
    errorPtr,     \* dumpReport's ErrorPtr
    report,       \* what each thread printed
    disposition,  \* the process's action for SIGSEGV
    signal        \* the signal that killed the process

handlerVars == <<handler, errorPtr, report, disposition, signal>>
allVars     == <<vars, handlerVars>>

NoReport == [type |-> "none", addr |-> NULL]

\* installSegvSignalHandler, whether the pool is enabled or not.
ReportInit ==
    /\ Init
    /\ handler = [t \in Threads |-> "none"]
    /\ errorPtr = [t \in Threads |-> NULL]
    /\ report = [t \in Threads |-> NoReport]
    /\ disposition = "handler"
    /\ signal = "none"

-------------------------------------------------------------------------------
\* __aphotic_shield_error_is_mine
ErrorIsMine(p) ==
    \/ failureType # "UNKNOWN" /\ failureAddress # NULL
    \/ PointerIsMine(p)

\* addrToMetadata of the slot nearest to p
NearestMetadata(p) == metadata[GetNearestSlot(p)]

\* Slip: the recorded failure is not looked at.
DiagnoseAccess(p) ==
    IF IsGuardPage(p)
    THEN IF NearestMetadata(p).Addr < p THEN "BUFFER_OVERFLOW" ELSE "BUFFER_UNDERFLOW"
    ELSE IF NearestMetadata(p).IsDeallocated THEN "USE_AFTER_FREE" ELSE "UNKNOWN"

Diagnose(p) ==
    LET guarded == NearestMetadata(SlotToAddr(GetNearestSlot(p)))
    IN  IF ~ ErrorIsMine(p)                 THEN "UNKNOWN"
        ELSE IF failureType # "UNKNOWN"     THEN failureType
        ELSE IF IsGuardPage(p)
        THEN IF guarded.Addr = NULL         THEN "UNKNOWN"
             ELSE IF guarded.Addr < p       THEN "BUFFER_OVERFLOW"
             ELSE "BUFFER_UNDERFLOW"
        ELSE IF NearestMetadata(p).IsDeallocated THEN "USE_AFTER_FREE"
        ELSE "UNKNOWN"

InHandler(t, place) == ~ crashed /\ pc[t] = "fault" /\ handler[t] = place

Killed(sig) == crashed' = TRUE /\ signal' = sig

\* The kernel delivers SIGSEGV.  The handler is gone once another thread has
\* reset it.
DefaultAction(t) ==
    /\ InHandler(t, "none")
    /\ disposition = "default"
    /\ Killed("SIGSEGV")
    /\ UNCHANGED <<handler, errorPtr, report, disposition>>

\* dumpReport up to the choice of ErrorPtr.  Its assertion on Metadata fails
\* when the pool is disabled: init maps the metadata of an enabled one only.
ChooseErrorPtr(t) ==
    /\ InHandler(t, "none")
    /\ disposition = "handler"
    /\ IF MaxSimultaneousAllocations = 0
       THEN Killed("SIGABRT") /\ UNCHANGED <<handler, errorPtr>>
       ELSE /\ errorPtr' = [errorPtr EXCEPT ![t] =
                               IF failureAddress # NULL THEN failureAddress ELSE ptr[t]]
            /\ handler' = [handler EXCEPT ![t] =
                               IF ErrorIsMine(ptr[t]) THEN "diagnose" ELSE "reset"]
            /\ UNCHANGED <<signal, crashed>>
    /\ UNCHANGED <<report, disposition>>

PrintReport(t) ==
    /\ InHandler(t, "diagnose")
    /\ report' = [report EXCEPT ![t] = [type |-> Diagnose(errorPtr[t]),
                                        addr |-> errorPtr[t]]]
    /\ handler' = [handler EXCEPT ![t] = "reset"]
    /\ UNCHANGED <<errorPtr, disposition, signal, crashed>>

\* Slip: the handler returns, and the access is made again.
ReturnToFault(t) ==
    /\ InHandler(t, "reset")
    /\ handler' = [handler EXCEPT ![t] = "none"]
    /\ UNCHANGED <<errorPtr, report, disposition, signal, crashed>>

ResetDisposition(t) ==
    /\ InHandler(t, "reset")
    /\ disposition' = "default"
    /\ handler' = [handler EXCEPT ![t] = "raise"]
    /\ UNCHANGED <<errorPtr, report, signal, crashed>>

\* raise(SIGSEGV): pending until the handler returns, then fatal.
Raise(t) ==
    /\ InHandler(t, "raise")
    /\ Killed("SIGSEGV")
    /\ UNCHANGED <<handler, errorPtr, report, disposition>>

HandlerStep(t) ==
    /\ \/ DefaultAction(t) \/ ChooseErrorPtr(t)
       \/ PrintReport(t) \/ ResetDisposition(t) \/ Raise(t)
    /\ UNCHANGED <<poolVars, failureType, failureAddress, localVars, clientVars>>

ReportNext ==
    \/ \E t \in Threads :
          \/ (InCall(t) \/ OwnerCall(t) \/ Misuse(t)) /\ UNCHANGED handlerVars
          \/ HandlerStep(t)
    \/ ProcessIsDead /\ UNCHANGED handlerVars

ReportFairness ==
    \A t \in Threads :
        /\ WF_allVars(InCall(t) /\ UNCHANGED handlerVars)
        /\ WF_allVars(HandlerStep(t))

ReportSpec == ReportInit /\ [][ReportNext]_allVars /\ ReportFairness

-------------------------------------------------------------------------------
\* The handler is a way to die: pool and handler together behave as the pool
\* does, where a fault is followed by the end of the process.
PoolSpec == Spec

\* A fault kills the process, whoever else is in the handler or holds the mutex.
FaultIsFatal == \A t \in Threads : pc[t] = "fault" ~> crashed

\* The thread that detected a double or invalid free (it holds the mutex for
\* ever) reports that error and the address it was given, whatever other
\* threads do meanwhile.
TrapIsReported ==
    \A t \in Threads : report[t] # NoReport /\ mutex = t =>
        report[t] = [type |-> failureType, addr |-> failureAddress]

\* What a thread reports for an access of its own, when nobody has trapped.
ReportedAccess(t) == report[t] # NoReport /\ failureType = "UNKNOWN"

\* The allocation on record for slot n is still somebody's: a client owns it, a
\* call is about to return it, or a call has been given it back and has not yet
\* recorded that.
InHands(n) ==
    \/ \E b \in live : b.addr = metadata[n].Addr
    \/ \E t \in Threads :
          /\ ptr[t] = metadata[n].Addr
          /\ pc[t] \in {"recordFlag", "return", "checkAddr", "lockDeallocate",
                        "checkDeallocated", "recordDeallocation"}

\* The comment in deallocate: "a racy use-after-free will have [consistent]
\* metadata".  An access to the page of a slot that is in the free list, or whose
\* recorded allocation is in nobody's hands, is reported as a use after free,
\* whatever the other threads are allocating and freeing: also when the slot is
\* on its way back to the pool, or has been reserved again, between the fault
\* and the report.  Only a thread that has recorded a new allocation of the slot
\* by then hides the error.
UseAfterFreeIsReported ==
    [][\A t \in Threads, n \in Slots :
          LET page == SlotToAddr(n)
          IN  /\ ~ ReportedAccess(t) /\ ReportedAccess(t)'
              /\ ptr[t] \in page .. page + PageSize - 1
              /\ \/ \E i \in 1 .. Len(freeSlots) : freeSlots[i] = n
                 \/ metadata[n].Addr # NULL /\ ~ InHands(n)
              => report'[t].type = "USE_AFTER_FREE"]_allVars

\* An access to the half of a guard page next to a used slot is reported as an
\* overflow of that slot when the page follows it, an underflow when it
\* precedes it, whatever the other threads are allocating and freeing.
OutOfBoundsIsReported ==
    [][\A t \in Threads, n \in Slots :
          LET page == SlotToAddr(n)
              end  == SlotToAddr(n) + PageSize
          IN  /\ ~ ReportedAccess(t) /\ ReportedAccess(t)'
              /\ metadata[n].Addr # NULL
              => /\ ptr[t] \in end .. end + PageSize \div 2
                    => report'[t].type = "BUFFER_OVERFLOW"
                 /\ ptr[t] \in page - PageSize \div 2 + 1 .. page - 1
                    => report'[t].type = "BUFFER_UNDERFLOW"]_allVars

===============================================================================
