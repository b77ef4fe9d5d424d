------------------------------ MODULE GuardedPool ------------------------------
(***************************************************************************)
(* The guarded pool allocator of remniw's runtime and the two entry points *)
(* that wrap it (aphotic_shield_allocator.cpp).  Threads call              *)
(* AphoticShieldAllocate and AphoticShieldDeallocate concurrently; every   *)
(* action below is one step of one thread between two points where another *)
(* thread can interleave: the lock and unlock of PoolMutex, the stores     *)
(* made outside it, and the mprotect / mmap calls.                         *)
(*                                                                         *)
(* A thread that touches an inaccessible page faults; the fault's handling *)
(* is the single step Die here and is refined by module ErrorReport.       *)
(*                                                                         *)
(* The operators whose comment starts with "Slip" are no part of the       *)
(* model: each is the operator after it with a mistake somebody could      *)
(* make, and shows that a property would notice.                           *)
(***************************************************************************)
EXTENDS PoolGeometry, Sequences, FiniteSets

CONSTANTS
    Threads,
    Requests,        \* the [size, alignment] records clients ask for
    HeapAddresses,   \* where malloc, the fallback, puts its blocks
    WildPointers,    \* pool addresses that are no allocation's address
    StoresInOrder,   \* the stores of RecordAllocation become visible in order
    NoThread

ASSUME ClientAssumption ==
    /\ Requests \subseteq [size : Nat, alignment : Nat]
    /\ WildPointers \subseteq PoolAddresses
    /\ \A n \in Slots, r \in Requests :
          Servable(r) => UserPointers(n, r) \cap WildPointers = {}
    /\ HeapAddresses \subseteq Nat \ {0}
    /\ HeapAddresses \cap PoolAddresses = {}
    /\ StoresInOrder \in BOOLEAN
    /\ NoThread \notin Threads

VARIABLES
    numAllocations,  \* NumAllocations: slots handed out at least once
    freeSlots,       \* FreeSlots[0 .. FreeSlotsLength-1]
    metadata,        \* Metadata: slot -> [Addr, IsDeallocated]
    mutex,           \* the holder of PoolMutex, or NoThread
    accessible,      \* the pages of the pool mapped PROT_READ | PROT_WRITE
    failureType,     \* State.FailureType
    failureAddress,  \* State.FailureAddress
    pc, req, slot, index, ptr,   \* each thread's program point and locals
    live,            \* blocks the clients own: returned and not yet given back
    issued,          \* pool addresses returned to a client at least once
    crashed          \* the process is dead

poolVars   == <<numAllocations, freeSlots, metadata, mutex, accessible>>
errorVars  == <<failureType, failureAddress, crashed>>
localVars  == <<pc, req, slot, index, ptr>>
clientVars == <<live, issued>>
vars       == <<poolVars, errorVars, localVars, clientVars>>

NULL == 0

NoRequest == [size |-> 0, alignment |-> 0]

\* A block has the size and the alignment the client asked for.
Blocks == [addr : Nat, size : Nat, alignment : Nat]

PCs == {"idle", "malloc", "lockReserve", "reserveSlot", "removeSlot", "mapSlot",
        "record", "recordAddr", "recordFlag", "return",
        "checkAddr", "lockInvalid", "invalidFree", "lockDeallocate",
        "checkDeallocated", "doubleFree", "recordDeallocation", "unmap",
        "lockFreeSlot", "freeSlot", "storeAddress", "fault"}

TypeOK ==
    /\ numAllocations \in 0 .. MaxSimultaneousAllocations
    /\ freeSlots \in Seq(Slots)
    /\ metadata \in [Slots -> [Addr : Nat, IsDeallocated : BOOLEAN]]
    /\ mutex \in Threads \cup {NoThread}
    /\ accessible \subseteq PoolAddresses
    /\ failureType \in {"UNKNOWN", "INVALID_FREE", "DOUBLE_FREE"}
    /\ failureAddress \in PoolAddresses \cup {NULL}
    /\ crashed \in BOOLEAN
    /\ pc \in [Threads -> PCs]
    /\ req \in [Threads -> Requests \cup {NoRequest}]
    /\ slot \in [Threads -> Slots \cup {0}]
    /\ index \in [Threads -> Nat]
    /\ ptr \in [Threads -> PoolAddresses \cup {NULL}]
    /\ live \subseteq Blocks
    /\ issued \subseteq PoolAddresses

\* init: the pool is reserved PROT_NONE and the metadata is zero.
Init ==
    /\ numAllocations = 0
    /\ freeSlots = <<>>
    /\ metadata = [n \in Slots |-> [Addr |-> NULL, IsDeallocated |-> FALSE]]
    /\ mutex = NoThread
    /\ accessible = {}
    /\ failureType = "UNKNOWN"
    /\ failureAddress = NULL
    /\ crashed = FALSE
    /\ pc = [t \in Threads |-> "idle"]
    /\ req = [t \in Threads |-> NoRequest]
    /\ slot = [t \in Threads |-> 0]
    /\ index = [t \in Threads |-> 0]
    /\ ptr = [t \in Threads |-> NULL]
    /\ live = {}
    /\ issued = {}

-------------------------------------------------------------------------------
At(t, label) == ~ crashed /\ pc[t] = label

Goto(t, label) == pc' = [pc EXCEPT ![t] = label]

\* The end of a call: the locals are dead.
ReturnFromCall(t) ==
    /\ Goto(t, "idle")
    /\ req' = [req EXCEPT ![t] = NoRequest]
    /\ slot' = [slot EXCEPT ![t] = 0]
    /\ index' = [index EXCEPT ![t] = 0]
    /\ ptr' = [ptr EXCEPT ![t] = NULL]

\* Slip: the lock does not wait.
LockWithoutWaiting(t, label) == mutex' = t /\ Goto(t, label)

\* ScopedLock's constructor, then the code at label.
Lock(t, label) ==
    /\ mutex = NoThread
    /\ mutex' = t
    /\ Goto(t, label)

\* ScopedLock's destructor.
Unlock(t) == mutex' = NoThread

Block(a, r) ==
    [addr |-> a, size |-> EffectiveSize(r), alignment |-> EffectiveAlignment(r)]

Bytes(b) == b.addr .. b.addr + b.size - 1

(***************************************************************************)
(* AphoticShieldAllocate.                                                  *)
(***************************************************************************)
Allocate(t, r) ==
    /\ At(t, "idle")
    /\ Goto(t, IF Servable(r) THEN "lockReserve" ELSE "malloc")
    /\ req' = [req EXCEPT ![t] = r]
    /\ UNCHANGED <<poolVars, errorVars, slot, index, ptr, clientVars>>

LockReserve(t) ==
    /\ At(t, "lockReserve")
    /\ Lock(t, "reserveSlot")
    /\ UNCHANGED <<numAllocations, freeSlots, metadata, accessible, errorVars,
                   req, slot, index, ptr, clientVars>>

\* Slip: one slot too many.
ReserveSlotPastTheEnd(t) ==
    /\ At(t, "reserveSlot")
    /\ numAllocations <= MaxSimultaneousAllocations
    /\ slot' = [slot EXCEPT ![t] = numAllocations]
    /\ Goto(t, "removeSlot")
    /\ UNCHANGED <<poolVars, errorVars, req, index, ptr, clientVars>>

\* reserveSlot chooses: a slot never used (index 0), a random entry of the
\* free list, or none.
ReserveSlot(t) ==
    /\ At(t, "reserveSlot")
    /\ \/ /\ numAllocations < MaxSimultaneousAllocations
          /\ slot' = [slot EXCEPT ![t] = numAllocations]
          /\ index' = [index EXCEPT ![t] = 0]
          /\ Goto(t, "removeSlot")
          /\ UNCHANGED mutex
       \/ /\ numAllocations = MaxSimultaneousAllocations
          /\ \E i \in 1 .. Len(freeSlots) :
                /\ slot' = [slot EXCEPT ![t] = freeSlots[i]]
                /\ index' = [index EXCEPT ![t] = i]
          /\ Goto(t, "removeSlot")
          /\ UNCHANGED mutex
       \/ /\ numAllocations = MaxSimultaneousAllocations
          /\ freeSlots = <<>>
          /\ Goto(t, "malloc")
          /\ Unlock(t)
          /\ UNCHANGED <<slot, index>>
    /\ UNCHANGED <<numAllocations, freeSlots, metadata, accessible, errorVars,
                   req, ptr, clientVars>>

\* Slip: FreeSlotsLength is not decremented.
SwapWithoutRemoving(s, i) == [s EXCEPT ![i] = s[Len(s)]]

\* FreeSlots[i] = FreeSlots[--FreeSlotsLength]
SwapRemove(s, i) ==
    [j \in 1 .. Len(s) - 1 |-> IF j = i THEN s[Len(s)] ELSE s[j]]

\* ... and updates the list, or NumAllocations, before the unlock.
RemoveSlot(t) ==
    /\ At(t, "removeSlot")
    /\ IF index[t] = 0
       THEN numAllocations' = slot[t] + 1 /\ UNCHANGED freeSlots
       ELSE freeSlots' = SwapRemove(freeSlots, index[t]) /\ UNCHANGED numAllocations
    /\ Unlock(t)
    /\ index' = [index EXCEPT ![t] = 0]
    /\ Goto(t, "mapSlot")
    /\ UNCHANGED <<metadata, accessible, errorVars, req, slot, ptr, clientVars>>

MapSlot(t) ==
    /\ At(t, "mapSlot")
    /\ \E p \in UserPointers(slot[t], req[t]) :
          /\ ptr' = [ptr EXCEPT ![t] = p]
          /\ accessible' = accessible \cup PagesOf(p, req[t])
    /\ Goto(t, "record")
    /\ UNCHANGED <<numAllocations, freeSlots, metadata, mutex, errorVars,
                   req, slot, index, clientVars>>

\* addrToMetadata(SlotStart)
SlotMeta(t) == GetNearestSlot(SlotToAddr(slot[t]))

\* RecordAllocation's two stores that are read again.  Nothing orders them
\* for the other threads: they are made without the mutex.
StoreAddr(t) ==
    /\ \/ At(t, "record")     /\ Goto(t, "recordFlag")
       \/ At(t, "recordAddr") /\ Goto(t, "return")
    /\ metadata' = [metadata EXCEPT ![SlotMeta(t)].Addr = ptr[t]]
    /\ UNCHANGED <<numAllocations, freeSlots, mutex, accessible, errorVars,
                   req, slot, index, ptr, clientVars>>

\* Slip: the flag of the slot's previous allocation stays set.
FlagNotReset(t) ==
    /\ At(t, "record") \/ At(t, "recordFlag")
    /\ Goto(t, IF pc[t] = "record" THEN "recordAddr" ELSE "return")
    /\ UNCHANGED <<poolVars, errorVars, req, slot, index, ptr, clientVars>>

StoreFlag(t) ==
    /\ \/ At(t, "record")     /\ Goto(t, "recordAddr") /\ ~ StoresInOrder
       \/ At(t, "recordFlag") /\ Goto(t, "return")
    /\ metadata' = [metadata EXCEPT ![SlotMeta(t)].IsDeallocated = FALSE]
    /\ UNCHANGED <<numAllocations, freeSlots, mutex, accessible, errorVars,
                   req, slot, index, ptr, clientVars>>

Return(t) ==
    /\ At(t, "return")
    /\ live' = live \cup {Block(ptr[t], req[t])}
    /\ issued' = issued \cup {ptr[t]}
    /\ ReturnFromCall(t)
    /\ UNCHANGED <<poolVars, errorVars>>

\* The fallback: malloc finds room outside the pool and apart from every block
\* it has handed out, or returns NULL.  It is not told of the alignment.
Malloc(t) ==
    /\ At(t, "malloc")
    /\ \/ \E a \in HeapAddresses :
             LET b == Block(a, req[t]) IN
             /\ Bytes(b) \cap PoolAddresses = {}
             /\ \A c \in live : Bytes(b) \cap Bytes(c) = {}
             /\ live' = live \cup {b}
       \/ UNCHANGED live
    /\ ReturnFromCall(t)
    /\ UNCHANGED <<poolVars, errorVars, issued>>

(***************************************************************************)
(* AphoticShieldDeallocate.                                                *)
(***************************************************************************)
Deallocate(t, p) ==
    /\ At(t, "idle")
    /\ live' = { b \in live : b.addr # p }
    /\ IF PointerIsMine(p)
       THEN /\ ptr' = [ptr EXCEPT ![t] = p]
            /\ slot' = [slot EXCEPT ![t] = GetNearestSlot(p)]
            /\ Goto(t, "checkAddr")
       ELSE UNCHANGED <<pc, slot, ptr>>
    /\ UNCHANGED <<poolVars, errorVars, req, index, issued>>

\* Read without the mutex.
CheckAddr(t) ==
    /\ At(t, "checkAddr")
    /\ Goto(t, IF metadata[GetNearestSlot(ptr[t])].Addr # ptr[t]
               THEN "lockInvalid" ELSE "lockDeallocate")
    /\ UNCHANGED <<poolVars, errorVars, req, slot, index, ptr, clientVars>>

\* Slip: no ScopedLock before the trap.
TrapWithoutLock(t) ==
    /\ At(t, "lockInvalid")
    /\ Goto(t, "invalidFree")
    /\ UNCHANGED <<poolVars, errorVars, req, slot, index, ptr, clientVars>>

LockInvalidFree(t) ==
    /\ At(t, "lockInvalid")
    /\ Lock(t, "invalidFree")
    /\ UNCHANGED <<numAllocations, freeSlots, metadata, accessible, errorVars,
                   req, slot, index, ptr, clientVars>>

LockDeallocate(t) ==
    /\ At(t, "lockDeallocate")
    /\ Lock(t, "checkDeallocated")
    /\ UNCHANGED <<numAllocations, freeSlots, metadata, accessible, errorVars,
                   req, slot, index, ptr, clientVars>>

\* Slip: double frees are not looked for.
NoCheck(t) ==
    /\ At(t, "checkDeallocated")
    /\ Goto(t, "recordDeallocation")
    /\ UNCHANGED <<poolVars, errorVars, req, slot, index, ptr, clientVars>>

CheckDeallocated(t) ==
    /\ At(t, "checkDeallocated")
    /\ Goto(t, IF metadata[GetNearestSlot(ptr[t])].IsDeallocated
               THEN "doubleFree" ELSE "recordDeallocation")
    /\ UNCHANGED <<poolVars, errorVars, req, slot, index, ptr, clientVars>>

\* Slip: the deallocation is not recorded.
RecordNothing(t) ==
    /\ At(t, "recordDeallocation")
    /\ Unlock(t)
    /\ Goto(t, "unmap")
    /\ UNCHANGED <<numAllocations, freeSlots, metadata, accessible, errorVars,
                   req, slot, index, ptr, clientVars>>

\* Slip: the slot is released in the first critical section, before its page
\* is unmapped.
RecordAndRelease(t) ==
    /\ At(t, "recordDeallocation")
    /\ metadata' = [metadata EXCEPT ![GetNearestSlot(ptr[t])].IsDeallocated = TRUE]
    /\ freeSlots' = Append(freeSlots, slot[t])
    /\ Unlock(t)
    /\ Goto(t, "unmap")
    /\ UNCHANGED <<numAllocations, accessible, errorVars,
                   req, slot, index, ptr, clientVars>>

\* Slip: the mutex is kept.
RecordWithoutUnlock(t) ==
    /\ At(t, "recordDeallocation")
    /\ metadata' = [metadata EXCEPT ![GetNearestSlot(ptr[t])].IsDeallocated = TRUE]
    /\ Goto(t, "unmap")
    /\ UNCHANGED <<numAllocations, freeSlots, mutex, accessible, errorVars,
                   req, slot, index, ptr, clientVars>>

RecordDeallocation(t) ==
    /\ At(t, "recordDeallocation")
    /\ metadata' = [metadata EXCEPT ![GetNearestSlot(ptr[t])].IsDeallocated = TRUE]
    /\ Unlock(t)
    /\ Goto(t, "unmap")
    /\ UNCHANGED <<numAllocations, freeSlots, accessible, errorVars,
                   req, slot, index, ptr, clientVars>>

\* Slip: the page stays mapped.
LeaveMapped(t) ==
    /\ At(t, "unmap")
    /\ Goto(t, "lockFreeSlot")
    /\ UNCHANGED <<poolVars, errorVars, req, slot, index, ptr, clientVars>>

Unmap(t) ==
    /\ At(t, "unmap")
    /\ accessible' = accessible \ {SlotToAddr(slot[t])}
    /\ Goto(t, "lockFreeSlot")
    /\ UNCHANGED <<numAllocations, freeSlots, metadata, mutex, errorVars,
                   req, slot, index, ptr, clientVars>>

LockFreeSlot(t) ==
    /\ At(t, "lockFreeSlot")
    /\ Lock(t, "freeSlot")
    /\ UNCHANGED <<numAllocations, freeSlots, metadata, accessible, errorVars,
                   req, slot, index, ptr, clientVars>>

\* Slip: the slot is not put back.
LoseSlot(t) ==
    /\ At(t, "freeSlot")
    /\ Unlock(t)
    /\ ReturnFromCall(t)
    /\ UNCHANGED <<numAllocations, freeSlots, metadata, accessible, errorVars, clientVars>>

FreeSlot(t) ==
    /\ At(t, "freeSlot")
    /\ freeSlots' = Append(freeSlots, slot[t])
    /\ Unlock(t)
    /\ ReturnFromCall(t)
    /\ UNCHANGED <<numAllocations, metadata, accessible, errorVars, clientVars>>

(***************************************************************************)
(* trapOnAddress: two stores, then a write to the first guard page.  The   *)
(* mutex is never released.                                                *)
(***************************************************************************)
StoreFailureType(t) ==
    /\ \/ At(t, "invalidFree") /\ failureType' = "INVALID_FREE"
       \/ At(t, "doubleFree")  /\ failureType' = "DOUBLE_FREE"
    /\ Goto(t, "storeAddress")
    /\ UNCHANGED <<poolVars, failureAddress, crashed, req, slot, index, ptr, clientVars>>

\* Slip: the trap returns.
TrapReturns(t) ==
    /\ At(t, "storeAddress")
    /\ failureAddress' = ptr[t]
    /\ ReturnFromCall(t)
    /\ UNCHANGED <<poolVars, failureType, crashed, clientVars>>

StoreFailureAddress(t) ==
    /\ At(t, "storeAddress")
    /\ failureAddress' = ptr[t]
    /\ ptr' = [ptr EXCEPT ![t] = GuardedPagePool]
    /\ Goto(t, "fault")
    /\ UNCHANGED <<poolVars, failureType, crashed, req, slot, index, clientVars>>

\* A client's load or store through p, when its page is inaccessible.
Access(t, p) ==
    /\ At(t, "idle")
    /\ PageAddr(p) \notin accessible
    /\ ptr' = [ptr EXCEPT ![t] = p]
    /\ Goto(t, "fault")
    /\ UNCHANGED <<poolVars, errorVars, req, slot, index, clientVars>>

\* The SIGSEGV handler ends by raising the default action.
Die(t) ==
    /\ At(t, "fault")
    /\ crashed' = TRUE
    /\ UNCHANGED <<poolVars, failureType, failureAddress, localVars, clientVars>>

-------------------------------------------------------------------------------
AllocateStep(t) ==
    \/ LockReserve(t) \/ ReserveSlot(t) \/ RemoveSlot(t) \/ MapSlot(t)
    \/ StoreAddr(t) \/ StoreFlag(t) \/ Return(t) \/ Malloc(t)

DeallocateStep(t) ==
    \/ CheckAddr(t) \/ LockInvalidFree(t) \/ LockDeallocate(t)
    \/ CheckDeallocated(t) \/ RecordDeallocation(t) \/ Unmap(t)
    \/ LockFreeSlot(t) \/ FreeSlot(t)
    \/ StoreFailureType(t) \/ StoreFailureAddress(t)

\* What a thread inside a call does next.
InCall(t) == AllocateStep(t) \/ DeallocateStep(t)

\* A correct client gives back the blocks it owns, each once.
OwnerCall(t) ==
    \/ \E r \in Requests : Allocate(t, r)
    \/ \E b \in live : Deallocate(t, b.addr)

\* Any other client also gives back an address twice, gives back an address
\* no allocation returned, and uses addresses it does not own.
Misuse(t) ==
    \/ \E p \in issued \cup WildPointers : Deallocate(t, p) \/ Access(t, p)
    \/ Access(t, NULL)

ProcessIsDead == crashed /\ UNCHANGED vars

OwnerNext ==
    \/ \E t \in Threads : InCall(t) \/ OwnerCall(t)
    \/ ProcessIsDead

Next ==
    \/ \E t \in Threads : InCall(t) \/ OwnerCall(t) \/ Misuse(t) \/ Die(t)
    \/ ProcessIsDead

\* The scheduler runs every thread that can take a step.  Nothing is assumed
\* about who gets a contended mutex.
Fairness == \A t \in Threads : WF_vars(InCall(t)) /\ WF_vars(Die(t))

Spec      == Init /\ [][Next]_vars /\ Fairness
OwnerSpec == Init /\ [][OwnerNext]_vars /\ Fairness

-------------------------------------------------------------------------------
(***************************************************************************)
(* Properties for every client, correct or not.                            *)
(***************************************************************************)

\* A slot some thread has taken out of the pool and not yet put to use, and one
\* that some thread is putting back.
Acquiring(t) == pc[t] \in {"mapSlot", "record", "recordAddr", "recordFlag"}
Releasing(t) == pc[t] \in {"unmap", "lockFreeSlot", "freeSlot"}
InTransit(t) == Acquiring(t) \/ Releasing(t)

\* A slot is in one place only: at most once in FreeSlots, never there while a
\* thread is acquiring or releasing it, and in the hands of one such thread.
\* reserveSlot could otherwise hand the same page to two clients.
SlotExclusive ==
    /\ \A i, j \in 1 .. Len(freeSlots) : i # j => freeSlots[i] # freeSlots[j]
    /\ \A i \in 1 .. Len(freeSlots) : freeSlots[i] < numAllocations
    /\ \A t \in Threads : InTransit(t) =>
          /\ slot[t] < numAllocations
          /\ \A i \in 1 .. Len(freeSlots) : freeSlots[i] # slot[t]
    /\ \A t, u \in Threads :
          t # u /\ InTransit(t) /\ InTransit(u) => slot[t] # slot[u]

\* freeSlot's assertion: the free list has room for the slot being released,
\* whatever was freed twice or freed by mistake before.
FreeListHasRoom ==
    \A t \in Threads :
        pc[t] = "freeSlot" => Len(freeSlots) < MaxSimultaneousAllocations

\* The comment in deallocate: a page that has been used is inaccessible only
\* when its deallocation is on record, so a racing use after free finds
\* metadata that explains the fault.
UnmappedIsRecorded ==
    \A n \in Slots :
        /\ metadata[n].Addr # NULL
        /\ SlotToAddr(n) \notin accessible
        => metadata[n].IsDeallocated

\* Pages of the free list cannot be read or written: a dangling pointer into one
\* of them faults.
FreePagesAreInaccessible ==
    \A i \in 1 .. Len(freeSlots) : SlotToAddr(freeSlots[i]) \notin accessible

\* "If multiple errors occur at the same time, use the first one": no later
\* error replaces the failure that is on record.
FirstErrorIsKept ==
    [][/\ failureType # "UNKNOWN" => failureType' = failureType
       /\ failureAddress # NULL => failureAddress' = failureAddress]_vars

\* A detected error kills the process, although the thread that found it holds
\* the mutex for ever.
ErrorIsFatal == failureType # "UNKNOWN" ~> crashed

\* Nobody but a thread that has trapped keeps the mutex.
MutexIsReleased ==
    \A t \in Threads : mutex = t ~> mutex # t \/ crashed

\* What the checks of deallocate are for, and what the comment on PoolMutex
\* ("protect the guarded slot and metadata pool") asks: the deallocation that is
\* recorded is that of the slot's present allocation.
DeallocationIsOfPresentAllocation ==
    \A t \in Threads :
        pc[t] = "recordDeallocation" => metadata[slot[t]].Addr = ptr[t]

(***************************************************************************)
(* Properties for clients that give back each block they own once.         *)
(***************************************************************************)

\* No false alarm: the pool never accuses a correct client.
NoFalseAlarm ==
    /\ failureType = "UNKNOWN"
    /\ ~ crashed
    /\ \A t \in Threads :
          pc[t] \notin {"lockInvalid", "invalidFree", "doubleFree", "fault"}

\* Every block of the pool a client owns lies in an accessible slot page, aligned
\* as the client asked, and the metadata of its slot is its own.
LiveIsUsable ==
    \A b \in live : PointerIsMine(b.addr) =>
        LET n == GetNearestSlot(b.addr) IN
        /\ SlotToAddr(n) \in accessible
        /\ Bytes(b) \subseteq SlotToAddr(n) .. SlotToAddr(n) + PageSize - 1
        /\ b.addr % b.alignment = 0
        /\ metadata[n].Addr = b.addr
        /\ ~ metadata[n].IsDeallocated

LivePoolBlocks == { b \in live : PointerIsMine(b.addr) }

\* The threads inside a call that hold a slot no block of live accounts for.
SlotHolders ==
    { t \in Threads : \/ InTransit(t)
                      \/ pc[t] \in {"return", "checkAddr", "lockDeallocate",
                                    "checkDeallocated", "recordDeallocation"} }

\* No slot is lost or invented: a slot used once is in the free list, holds a
\* client's block, or is in the hands of a thread inside a call (a slot between
\* reserveSlot's two steps is counted where it still is).
SlotsAreConserved ==
    numAllocations = Len(freeSlots) + Cardinality(LivePoolBlocks)
                                    + Cardinality(SlotHolders)

\* The pool and malloc together are a heap: blocks that are live at the same
\* time never overlap.
Heap == INSTANCE BlockHeap
HeapSpec == Heap!Spec

===============================================================================
