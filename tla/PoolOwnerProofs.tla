---------------------------- MODULE PoolOwnerProofs ----------------------------
(***************************************************************************)
(* What the guarded pool does for correct clients, for any number of       *)
(* threads and slots, any requests, and whichever order the stores of      *)
(* RecordAllocation become visible in: no false alarm, blocks that can be  *)
(* used, no slot lost, and no two blocks that overlap.                     *)
(*                                                                         *)
(* The invariant says where each slot is (PlacesInv), what its page and    *)
(* its metadata hold there (ContentInv); what the threads inside a call    *)
(* know is in AnyOrderInv.                                                 *)
(***************************************************************************)
EXTENDS GuardedPoolProofs

\* The points of deallocate before it has recorded anything.
StillValidAt == {"checkAddr", "lockDeallocate", "checkDeallocated", "recordDeallocation"}

AlarmAt == {"lockInvalid", "invalidFree", "doubleFree", "storeAddress", "fault"}

HolderAt == {"mapSlot"} \cup PlacedAt \cup DeallocatesAt

\* No thread is on the way to the trap.
ControlInv ==
    /\ AnyOrderInv
    /\ failureType = "UNKNOWN"
    /\ ~ crashed
    /\ \A t \in Threads : pc[t] \notin AlarmAt

\* A slot is in one place: in the free list, with a client, or with a thread.
PlacesInv ==
    /\ \A i, j \in 1 .. Len(freeSlots) : i # j => freeSlots[i] # freeSlots[j]
    /\ \A i \in 1 .. Len(freeSlots) : freeSlots[i] < numAllocations
    /\ \A t \in SlotHolders :
          /\ slot[t] \in Slots /\ slot[t] < numAllocations
          /\ \A i \in 1 .. Len(freeSlots) : freeSlots[i] # slot[t]
    /\ \A t, u \in SlotHolders : t # u => slot[t] # slot[u]
    /\ \A b \in LivePoolBlocks :
          /\ GetNearestSlot(b.addr) \in Slots
          /\ GetNearestSlot(b.addr) < numAllocations
          /\ \A i \in 1 .. Len(freeSlots) : freeSlots[i] # GetNearestSlot(b.addr)
          /\ \A t \in SlotHolders : slot[t] # GetNearestSlot(b.addr)
    /\ \A b, c \in LivePoolBlocks :
          b # c => GetNearestSlot(b.addr) # GetNearestSlot(c.addr)

CountInv ==
    /\ IsFiniteSet(LivePoolBlocks)
    /\ IsFiniteSet(SlotHolders)
    /\ SlotsAreConserved

\* What the page and the metadata of a slot hold.
UsableBlock(b) ==
    LET n == GetNearestSlot(b.addr) IN
    /\ SlotToAddr(n) \in accessible
    /\ Bytes(b) \subseteq SlotToAddr(n) .. SlotToAddr(n) + PageSize - 1
    /\ b.addr % b.alignment = 0
    /\ metadata[n].Addr = b.addr
    /\ ~ metadata[n].IsDeallocated

SlotContent(t) ==
    /\ pc[t] \in PlacedAt => SlotToAddr(slot[t]) \in accessible
    /\ pc[t] \in {"recordFlag", "return"} \cup StillValidAt
       => metadata[slot[t]].Addr = ptr[t]
    /\ pc[t] \in {"recordAddr", "return"} \cup StillValidAt
       => ~ metadata[slot[t]].IsDeallocated

ContentInv ==
    /\ \A b \in LivePoolBlocks : UsableBlock(b)
    /\ \A t \in Threads : SlotContent(t)

\* malloc's blocks are apart from the pool and from each other.
HeapInv ==
    /\ \A b \in live : b.addr > 0 /\ b.size > 0
    /\ \A b \in live \ LivePoolBlocks : Bytes(b) \cap PoolAddresses = {}
    /\ \A b, c \in live \ LivePoolBlocks : b # c => Bytes(b) \cap Bytes(c) = {}

OwnerInv == ControlInv /\ PlacesInv /\ CountInv /\ ContentInv /\ HeapInv

-------------------------------------------------------------------------------
(***************************************************************************)
(* Steps keep what they do not touch.                                      *)
(***************************************************************************)

LEMMA ControlKept ==
    ASSUME OwnerInv, AnyOrderInv', NEW t \in Threads, Others(t), UNCHANGED errorVars,
           pc'[t] \notin AlarmAt
    PROVE  ControlInv'
BY DEF OwnerInv, ControlInv, Others, errorVars

\* The threads that hold a slot, by where they are.
LEMMA HoldersByPlace ==
    /\ SlotHolders = { t \in Threads : pc[t] \in HolderAt }
    /\ SlotHolders' = { t \in Threads : pc'[t] \in HolderAt }
BY DEF SlotHolders, InTransit, Acquiring, Releasing, HolderAt, PlacedAt, DeallocatesAt

\* No slot changes its place.
LEMMA PlacesKept ==
    ASSUME OwnerInv, NEW t \in Threads, Others(t),
           UNCHANGED << numAllocations, freeSlots, live >>,
           pc'[t] \in HolderAt <=> pc[t] \in HolderAt,
           pc[t] \in HolderAt => slot'[t] = slot[t]
    PROVE  PlacesInv' /\ CountInv' /\ HeapInv'
<1>1. SlotHolders' = SlotHolders
  BY HoldersByPlace DEF Others
<1>2. \A u \in SlotHolders : slot'[u] = slot[u]
  BY HoldersByPlace DEF Others
<1>3. LivePoolBlocks' = LivePoolBlocks
  BY DEF LivePoolBlocks
<1>4. PlacesInv'
  BY <1>1, <1>2, <1>3 DEF OwnerInv, PlacesInv
<1>5. CountInv'
  BY <1>1, <1>3 DEF OwnerInv, CountInv, SlotsAreConserved
<1>6. HeapInv'
  BY <1>3 DEF OwnerInv, HeapInv
<1> QED
  BY <1>4, <1>5, <1>6

\* Slot n keeps its metadata, and its page stays accessible.
Keeps(n) ==
    /\ metadata'[n] = metadata[n]
    /\ SlotToAddr(n) \in accessible => SlotToAddr(n) \in accessible'

\* A block, and a thread, whose slot is kept.
LEMMA BlockKept ==
    ASSUME NEW b, UsableBlock(b), Keeps(GetNearestSlot(b.addr))
    PROVE  UsableBlock(b)'
BY DEF UsableBlock, Keeps

LEMMA ContentKept ==
    ASSUME NEW t, NEW u \in Threads, u # t, SlotContent(u), Others(t),
           pc[u] \in HolderAt => Keeps(slot[u])
    PROVE  SlotContent(u)'
<1>1. pc'[u] = pc[u] /\ slot'[u] = slot[u] /\ ptr'[u] = ptr[u]
  BY DEF Others
<1>2. CASE pc[u] \in HolderAt
  BY <1>1, <1>2 DEF SlotContent, Keeps
<1>3. CASE pc[u] \notin HolderAt
  BY <1>1, <1>3 DEF SlotContent, HolderAt, PlacedAt, DeallocatesAt, StillValidAt
<1> QED
  BY <1>2, <1>3

\* A step of t that changes no page and no metadata, and brings t to no point
\* at which more is known of its slot.
LEMMA QuietKeeps ==
    ASSUME OwnerInv, NEW t \in Threads, Others(t),
           UNCHANGED << numAllocations, freeSlots, live, metadata, accessible >>,
           pc'[t] \in HolderAt <=> pc[t] \in HolderAt,
           pc[t] \in HolderAt => slot'[t] = slot[t] /\ ptr'[t] = ptr[t],
           pc'[t] \notin PlacedAt,
           pc'[t] \in StillValidAt => pc[t] \in StillValidAt
    PROVE  PlacesInv' /\ CountInv' /\ HeapInv' /\ ContentInv'
<1>1. PlacesInv' /\ CountInv' /\ HeapInv'
  BY PlacesKept
<1>2. \A n : Keeps(n)
  BY DEF Keeps
<1>3. LivePoolBlocks' = LivePoolBlocks
  BY DEF LivePoolBlocks
<1>4. \A b \in LivePoolBlocks : UsableBlock(b)'
  BY <1>2, BlockKept DEF OwnerInv, ContentInv
<1>5. \A u \in Threads : u # t => SlotContent(u)'
  BY <1>2, ContentKept DEF OwnerInv, ContentInv
<1>6. SlotContent(t)'
  BY DEF OwnerInv, ContentInv, SlotContent, PlacedAt, StillValidAt, HolderAt, DeallocatesAt
<1> QED
  BY <1>1, <1>3, <1>4, <1>5, <1>6 DEF ContentInv

-------------------------------------------------------------------------------
(***************************************************************************)
(* The steps that touch no slot.                                           *)
(***************************************************************************)
LEMMA AllocateOwner ==
    ASSUME OwnerInv, AnyOrderInv', NEW t \in Threads, NEW r \in Requests, Allocate(t, r)
    PROVE  OwnerInv'
<1> USE DEF Allocate, At, Goto, poolVars, errorVars, clientVars
<1>1. Others(t)
  BY DEF Others, OwnerInv, ControlInv, AnyOrderInv, TypeOK
<1>2. pc[t] = "idle" /\ pc'[t] \in {"lockReserve", "malloc"}
  BY DEF OwnerInv, ControlInv, AnyOrderInv, TypeOK
<1>3. ControlInv'
  BY <1>1, ControlKept DEF AlarmAt
<1>4. PlacesInv' /\ CountInv' /\ HeapInv' /\ ContentInv'
  BY <1>1, <1>2, QuietKeeps DEF HolderAt, PlacedAt, DeallocatesAt, StillValidAt
<1> QED
  BY <1>3, <1>4 DEF OwnerInv

LEMMA LockReserveOwner ==
    ASSUME OwnerInv, AnyOrderInv', NEW t \in Threads, LockReserve(t)
    PROVE  OwnerInv'
<1> USE DEF LockReserve, Lock, At, Goto, poolVars, errorVars, clientVars
<1>1. Others(t)
  BY DEF Others, OwnerInv, ControlInv, AnyOrderInv, TypeOK
<1>2. pc[t] = "lockReserve" /\ pc'[t] = "reserveSlot"
  BY DEF OwnerInv, ControlInv, AnyOrderInv, TypeOK
<1>3. ControlInv'
  BY <1>1, <1>2, ControlKept DEF AlarmAt
<1>4. PlacesInv' /\ CountInv' /\ HeapInv' /\ ContentInv'
  BY <1>1, <1>2, QuietKeeps DEF HolderAt, PlacedAt, DeallocatesAt, StillValidAt
<1> QED
  BY <1>3, <1>4 DEF OwnerInv

LEMMA LockDeallocateOwner ==
    ASSUME OwnerInv, AnyOrderInv', NEW t \in Threads, LockDeallocate(t)
    PROVE  OwnerInv'
<1> USE DEF LockDeallocate, Lock, At, Goto, poolVars, errorVars, clientVars
<1>1. Others(t)
  BY DEF Others, OwnerInv, ControlInv, AnyOrderInv, TypeOK
<1>2. pc[t] = "lockDeallocate" /\ pc'[t] = "checkDeallocated"
  BY DEF OwnerInv, ControlInv, AnyOrderInv, TypeOK
<1>3. ControlInv'
  BY <1>1, <1>2, ControlKept DEF AlarmAt
<1>4. PlacesInv' /\ CountInv' /\ HeapInv' /\ ContentInv'
  BY <1>1, <1>2, QuietKeeps DEF HolderAt, PlacedAt, DeallocatesAt, StillValidAt
<1> QED
  BY <1>3, <1>4 DEF OwnerInv

LEMMA LockFreeSlotOwner ==
    ASSUME OwnerInv, AnyOrderInv', NEW t \in Threads, LockFreeSlot(t)
    PROVE  OwnerInv'
<1> USE DEF LockFreeSlot, Lock, At, Goto, poolVars, errorVars, clientVars
<1>1. Others(t)
  BY DEF Others, OwnerInv, ControlInv, AnyOrderInv, TypeOK
<1>2. pc[t] = "lockFreeSlot" /\ pc'[t] = "freeSlot"
  BY DEF OwnerInv, ControlInv, AnyOrderInv, TypeOK
<1>3. ControlInv'
  BY <1>1, <1>2, ControlKept DEF AlarmAt
<1>4. PlacesInv' /\ CountInv' /\ HeapInv' /\ ContentInv'
  BY <1>1, <1>2, QuietKeeps DEF HolderAt, PlacedAt, DeallocatesAt, StillValidAt
<1> QED
  BY <1>3, <1>4 DEF OwnerInv

\* The metadata of a block that is given back is its own.
LEMMA CheckAddrOwner ==
    ASSUME OwnerInv, AnyOrderInv', NEW t \in Threads, CheckAddr(t)
    PROVE  OwnerInv'
<1> USE DEF CheckAddr, At, Goto, poolVars, errorVars, clientVars
<1>1. Others(t)
  BY DEF Others, OwnerInv, ControlInv, AnyOrderInv, TypeOK
<1>2. pc[t] = "checkAddr" /\ pc'[t] = "lockDeallocate"
  <2>1. metadata[GetNearestSlot(ptr[t])].Addr = ptr[t]
    BY DEF OwnerInv, ControlInv, AnyOrderInv, LocalsInv, DeallocatesAt, FreesAt, ContentInv,
       SlotContent, StillValidAt
  <2> QED
    BY <2>1 DEF OwnerInv, ControlInv, AnyOrderInv, TypeOK
<1>3. ControlInv'
  BY <1>1, <1>2, ControlKept DEF AlarmAt
<1>4. PlacesInv' /\ CountInv' /\ HeapInv' /\ ContentInv'
  BY <1>1, <1>2, QuietKeeps DEF HolderAt, PlacedAt, DeallocatesAt, StillValidAt
<1> QED
  BY <1>3, <1>4 DEF OwnerInv

\* ... and not marked.
LEMMA CheckDeallocatedOwner ==
    ASSUME OwnerInv, AnyOrderInv', NEW t \in Threads, CheckDeallocated(t)
    PROVE  OwnerInv'
<1> USE DEF CheckDeallocated, At, Goto, poolVars, errorVars, clientVars
<1>1. Others(t)
  BY DEF Others, OwnerInv, ControlInv, AnyOrderInv, TypeOK
<1>2. pc[t] = "checkDeallocated" /\ pc'[t] = "recordDeallocation"
  <2>1. ~ metadata[GetNearestSlot(ptr[t])].IsDeallocated
    BY DEF OwnerInv, ControlInv, AnyOrderInv, LocalsInv, DeallocatesAt, FreesAt, ContentInv,
       SlotContent, StillValidAt
  <2> QED
    BY <2>1 DEF OwnerInv, ControlInv, AnyOrderInv, TypeOK
<1>3. ControlInv'
  BY <1>1, <1>2, ControlKept DEF AlarmAt
<1>4. PlacesInv' /\ CountInv' /\ HeapInv' /\ ContentInv'
  BY <1>1, <1>2, QuietKeeps DEF HolderAt, PlacedAt, DeallocatesAt, StillValidAt
<1> QED
  BY <1>3, <1>4 DEF OwnerInv

LEMMA ReserveSlotOwner ==
    ASSUME OwnerInv, AnyOrderInv', NEW t \in Threads, ReserveSlot(t)
    PROVE  OwnerInv'
<1> USE DEF ReserveSlot, At, Goto, Unlock, poolVars, errorVars, clientVars
<1>1. /\ TypeOK
      /\ pc[t] = "reserveSlot"
      /\ UNCHANGED << numAllocations, freeSlots, metadata, accessible, errorVars,
                      req, ptr, clientVars >>
      /\ mutex' \in {mutex, NoThread} /\ mutex = t
  BY DEF OwnerInv, ControlInv, AnyOrderInv, MutexInv, CriticalSection
<1>2. \E n \in Slots \cup {0}, i \in Nat, place \in {"removeSlot", "malloc"} :
          /\ slot' = [slot EXCEPT ![t] = n]
          /\ index' = [index EXCEPT ![t] = i]
          /\ pc' = [pc EXCEPT ![t] = place]
          /\ place = "removeSlot" => mutex' = mutex
          /\ place = "removeSlot" =>
                 \/ i = 0 /\ n = numAllocations /\ numAllocations < MaxSimultaneousAllocations
                 \/ i \in 1 .. Len(freeSlots) /\ n = freeSlots[i]
  <2>1. CASE /\ numAllocations < MaxSimultaneousAllocations
             /\ slot' = [slot EXCEPT ![t] = numAllocations]
             /\ index' = [index EXCEPT ![t] = 0]
             /\ pc' = [pc EXCEPT ![t] = "removeSlot"] /\ mutex' = mutex
    BY <1>1, <2>1, SlotTypes
  <2>2. CASE /\ \E i \in 1 .. Len(freeSlots) :
                   /\ slot' = [slot EXCEPT ![t] = freeSlots[i]]
                   /\ index' = [index EXCEPT ![t] = i]
             /\ pc' = [pc EXCEPT ![t] = "removeSlot"] /\ mutex' = mutex
    <3>1. PICK i \in 1 .. Len(freeSlots) :
             slot' = [slot EXCEPT ![t] = freeSlots[i]] /\ index' = [index EXCEPT ![t] = i]
      BY <2>2
    <3>2. i \in Nat /\ freeSlots[i] \in Slots
      BY <1>1, SlotTypes
    <3> QED
      BY <2>2, <3>1, <3>2
  <2>3. CASE pc' = [pc EXCEPT ![t] = "malloc"] /\ slot' = slot /\ index' = index
    <3>1. /\ slot' = [slot EXCEPT ![t] = slot[t]]
          /\ index' = [index EXCEPT ![t] = index[t]]
          /\ slot[t] \in Slots \cup {0} /\ index[t] \in Nat
      BY <1>1, <2>3 DEF TypeOK
    <3> QED
      BY <2>3, <3>1
  <2> QED
    BY <2>1, <2>2, <2>3
<1>3. PICK n \in Slots \cup {0}, i \in Nat, place \in {"removeSlot", "malloc"} :
          /\ slot' = [slot EXCEPT ![t] = n]
          /\ index' = [index EXCEPT ![t] = i]
          /\ pc' = [pc EXCEPT ![t] = place]
          /\ place = "removeSlot" => mutex' = mutex
          /\ place = "removeSlot" =>
                 \/ i = 0 /\ n = numAllocations /\ numAllocations < MaxSimultaneousAllocations
                 \/ i \in 1 .. Len(freeSlots) /\ n = freeSlots[i]
  BY <1>2
<1> USE DEF TypeOK
<1> HIDE DEF ReserveSlot
<1>4. Others(t) /\ pc'[t] = place /\ slot'[t] = n /\ index'[t] = i
  BY <1>1, <1>3 DEF Others
<1>5. ControlInv'
  BY <1>1, <1>3, <1>4, ControlKept DEF AlarmAt
<1>6. PlacesInv' /\ CountInv' /\ HeapInv' /\ ContentInv'
  BY <1>1, <1>4, QuietKeeps DEF HolderAt, PlacedAt, DeallocatesAt, StillValidAt
<1> QED
  BY <1>5, <1>6 DEF OwnerInv

\* No thread of a correct client is at a point that leads to the trap.
LEMMA NoAlarmOwner ==
    ASSUME OwnerInv, NEW t \in Threads
    PROVE  /\ ~ LockInvalidFree(t) /\ ~ StoreFailureType(t) /\ ~ StoreFailureAddress(t)
           /\ ~ ProcessIsDead
BY DEF OwnerInv, ControlInv, AlarmAt, LockInvalidFree, StoreFailureType,
   StoreFailureAddress, At, ProcessIsDead


-------------------------------------------------------------------------------
(***************************************************************************)
(* The steps on the page and the metadata of a slot that a thread holds.   *)
(***************************************************************************)

\* Such a step of t changes nothing of the other slots.
LEMMA OwnSlotStep ==
    ASSUME OwnerInv, NEW t \in Threads, Others(t),
           UNCHANGED << numAllocations, freeSlots, live >>,
           pc[t] \in HolderAt, pc'[t] \in HolderAt, slot'[t] = slot[t],
           \A n \in Slots : n # slot[t] => Keeps(n),
           SlotContent(t)'
    PROVE  PlacesInv' /\ CountInv' /\ HeapInv' /\ ContentInv'
<1>1. PlacesInv' /\ CountInv' /\ HeapInv'
  BY PlacesKept
<1>2. t \in SlotHolders
  BY HoldersByPlace
<1>3. LivePoolBlocks' = LivePoolBlocks
  BY DEF LivePoolBlocks
<1>4. ASSUME NEW b \in LivePoolBlocks PROVE UsableBlock(b)'
  <2>1. GetNearestSlot(b.addr) \in Slots /\ GetNearestSlot(b.addr) # slot[t]
    BY <1>2 DEF OwnerInv, PlacesInv
  <2> QED
    BY <2>1, BlockKept DEF OwnerInv, ContentInv
<1>5. ASSUME NEW u \in Threads, u # t PROVE SlotContent(u)'
  <2>1. pc[u] \in HolderAt => slot[u] \in Slots /\ slot[u] # slot[t]
    BY <1>2, <1>5, HoldersByPlace DEF OwnerInv, PlacesInv
  <2> QED
    BY <1>5, <2>1, ContentKept DEF OwnerInv, ContentInv
<1> QED
  BY <1>1, <1>3, <1>4, <1>5 DEF ContentInv

\* Where the slot of a thread that holds one is, and the block it is placing.
LEMMA HolderFacts ==
    ASSUME OwnerInv, NEW t \in Threads, pc[t] \in HolderAt
    PROVE  /\ t \in SlotHolders
           /\ slot[t] \in Slots /\ slot[t] < numAllocations
           /\ GetNearestSlot(SlotToAddr(slot[t])) = slot[t]
           /\ SlotToAddr(slot[t]) \in PoolAddresses
           /\ \A n \in Slots : n # slot[t] => SlotToAddr(n) # SlotToAddr(slot[t])
<1>1. t \in SlotHolders /\ slot[t] \in Slots /\ slot[t] < numAllocations
  BY HoldersByPlace DEF OwnerInv, PlacesInv
<1> QED
  BY <1>1, NearestOfSlotStart, SlotInPool, SlotToAddrInjective

LEMMA PlacedBlock ==
    ASSUME OwnerInv, NEW t \in Threads, pc[t] \in HolderAt,
           req[t] \in Requests, Servable(req[t]), NEW p \in UserPointers(slot[t], req[t])
    PROVE  /\ p \in Nat /\ p \in PoolAddresses /\ PointerIsMine(p)
           /\ GetNearestSlot(p) = slot[t]
           /\ PagesOf(p, req[t]) = {SlotToAddr(slot[t])}
           /\ EffectiveSize(req[t]) \in Nat \ {0}
           /\ p % EffectiveAlignment(req[t]) = 0
           /\ p .. p + EffectiveSize(req[t]) - 1
                  \subseteq SlotToAddr(slot[t]) .. SlotToAddr(slot[t]) + PageSize - 1
<1> DEFINE n == slot[t]
           r == req[t]
<1>1. n \in Slots /\ r \in [size : Nat, alignment : Nat] /\ SlotToAddr(n) \in Nat
  BY HolderFacts, SlotInPool, ClientAssumption
<1>2. /\ p \in Nat
      /\ EffectiveSize(r) \in 1 .. PageSize
      /\ SlotToAddr(n) <= p
      /\ p + EffectiveSize(r) <= SlotToAddr(n) + PageSize
      /\ p % EffectiveAlignment(r) = 0
  BY <1>1, UserPointerInSlot, UserPointerAligned
<1>3. PageSize \in Nat /\ EffectiveSize(r) \in Nat \ {0}
  BY <1>2, PoolAssumption
<1>4. p \in SlotToAddr(n) .. SlotToAddr(n) + PageSize - 1
  BY <1>1, <1>2, <1>3
<1>5. GetNearestSlot(p) = n /\ p \in PoolAddresses /\ PagesOf(p, r) = {SlotToAddr(n)}
  BY <1>1, <1>4, NearestInSlot, SlotPageInPool, PagesOfUserPointer
<1>6. PointerIsMine(p)
  BY <1>1, <1>5, PoolAssumption DEF PointerIsMine, PoolAddresses, Slots, GuardedPagePoolEnd
<1>7. p .. p + EffectiveSize(r) - 1 \subseteq SlotToAddr(n) .. SlotToAddr(n) + PageSize - 1
  BY <1>1, <1>2, <1>3
<1> QED
  BY <1>2, <1>3, <1>5, <1>6, <1>7

LEMMA MapSlotOwner ==
    ASSUME OwnerInv, AnyOrderInv', NEW t \in Threads, MapSlot(t)
    PROVE  OwnerInv'
<1> USE DEF MapSlot, At, Goto, poolVars, errorVars, clientVars
<1>1. /\ TypeOK /\ pc[t] = "mapSlot" /\ pc'[t] = "record"
      /\ req[t] \in Requests /\ Servable(req[t])
  BY DEF OwnerInv, ControlInv, AnyOrderInv, LocalsInv, AllocatesAt, TypeOK
<1>2. PICK p \in UserPointers(slot[t], req[t]) :
          /\ ptr' = [ptr EXCEPT ![t] = p]
          /\ accessible' = accessible \cup PagesOf(p, req[t])
  OBVIOUS
<1>3. /\ p \in PoolAddresses
      /\ PagesOf(p, req[t]) = {SlotToAddr(slot[t])}
  BY <1>1, PlacedBlock DEF HolderAt
<1>4. SlotToAddr(slot[t]) \in PoolAddresses
  BY <1>1, HolderFacts DEF HolderAt
<1>5. Others(t)
  BY <1>1, <1>2 DEF Others, TypeOK
<1>6. ControlInv'
  BY <1>1, <1>2, <1>3, <1>4, <1>5, ControlKept DEF AlarmAt
<1>7. SlotContent(t)'
  BY <1>1, <1>2, <1>3 DEF SlotContent, PlacedAt, StillValidAt
<1>8. \A n \in Slots : Keeps(n)
  BY <1>2 DEF Keeps
<1>9. PlacesInv' /\ CountInv' /\ HeapInv' /\ ContentInv'
  BY <1>1, <1>5, <1>7, <1>8, OwnSlotStep DEF HolderAt, PlacedAt
<1> QED
  BY <1>6, <1>9 DEF OwnerInv

LEMMA StoreAddrOwner ==
    ASSUME OwnerInv, AnyOrderInv', NEW t \in Threads, StoreAddr(t)
    PROVE  OwnerInv'
<1> USE DEF StoreAddr, At, Goto, poolVars, errorVars, clientVars
<1>1. /\ TypeOK
      /\ \/ pc[t] = "record" /\ pc'[t] = "recordFlag"
         \/ pc[t] = "recordAddr" /\ pc'[t] = "return"
      /\ req[t] \in Requests /\ Servable(req[t])
      /\ ptr[t] \in UserPointers(slot[t], req[t])
  BY DEF OwnerInv, ControlInv, AnyOrderInv, LocalsInv, AllocatesAt, PlacedAt, TypeOK
<1>2. slot[t] \in Slots /\ SlotMeta(t) = slot[t]
  BY <1>1, HolderFacts DEF HolderAt, PlacedAt, SlotMeta
<1>3. ptr[t] \in Nat
  BY <1>1, PlacedBlock DEF HolderAt, PlacedAt
<1>4. /\ metadata' \in [Slots -> [Addr : Nat, IsDeallocated : BOOLEAN]]
      /\ metadata'[slot[t]].Addr = ptr[t]
      /\ metadata'[slot[t]].IsDeallocated = metadata[slot[t]].IsDeallocated
      /\ \A m \in Slots : m # slot[t] => metadata'[m] = metadata[m]
  BY <1>1, <1>2, <1>3, AddrStored
<1>5. Others(t) /\ slot'[t] = slot[t] /\ ptr'[t] = ptr[t] /\ req'[t] = req[t]
  BY <1>1 DEF Others, TypeOK
<1>6. ControlInv'
  BY <1>1, <1>4, <1>5, ControlKept DEF AlarmAt
<1>7. SlotContent(t)'
  <2>1. SlotContent(t)
    BY DEF OwnerInv, ContentInv
  <2> QED
    BY <1>1, <1>4, <1>5, <2>1 DEF SlotContent, PlacedAt, StillValidAt
<1>8. \A n \in Slots : n # slot[t] => Keeps(n)
  BY <1>4 DEF Keeps
<1>9. PlacesInv' /\ CountInv' /\ HeapInv' /\ ContentInv'
  BY <1>1, <1>5, <1>7, <1>8, OwnSlotStep DEF HolderAt, PlacedAt
<1> QED
  BY <1>6, <1>9 DEF OwnerInv

LEMMA StoreFlagOwner ==
    ASSUME OwnerInv, AnyOrderInv', NEW t \in Threads, StoreFlag(t)
    PROVE  OwnerInv'
<1> USE DEF StoreFlag, At, Goto, poolVars, errorVars, clientVars
<1>1. /\ TypeOK
      /\ \/ pc[t] = "record" /\ pc'[t] = "recordAddr"
         \/ pc[t] = "recordFlag" /\ pc'[t] = "return"
      /\ req[t] \in Requests /\ Servable(req[t])
      /\ ptr[t] \in UserPointers(slot[t], req[t])
  BY DEF OwnerInv, ControlInv, AnyOrderInv, LocalsInv, AllocatesAt, PlacedAt, TypeOK
<1>2. slot[t] \in Slots /\ SlotMeta(t) = slot[t]
  BY <1>1, HolderFacts DEF HolderAt, PlacedAt, SlotMeta
<1>4. /\ metadata' \in [Slots -> [Addr : Nat, IsDeallocated : BOOLEAN]]
      /\ metadata'[slot[t]].IsDeallocated = FALSE
      /\ metadata'[slot[t]].Addr = metadata[slot[t]].Addr
      /\ \A m \in Slots : m # slot[t] => metadata'[m] = metadata[m]
  BY <1>1, <1>2, FlagStored
<1>5. Others(t) /\ slot'[t] = slot[t] /\ ptr'[t] = ptr[t] /\ req'[t] = req[t]
  BY <1>1 DEF Others, TypeOK
<1>6. ControlInv'
  BY <1>1, <1>4, <1>5, ControlKept DEF AlarmAt
<1>7. SlotContent(t)'
  <2>1. SlotContent(t)
    BY DEF OwnerInv, ContentInv
  <2> QED
    BY <1>1, <1>4, <1>5, <2>1 DEF SlotContent, PlacedAt, StillValidAt
<1>8. \A n \in Slots : n # slot[t] => Keeps(n)
  BY <1>4 DEF Keeps
<1>9. PlacesInv' /\ CountInv' /\ HeapInv' /\ ContentInv'
  BY <1>1, <1>5, <1>7, <1>8, OwnSlotStep DEF HolderAt, PlacedAt
<1> QED
  BY <1>6, <1>9 DEF OwnerInv

LEMMA RecordDeallocationOwner ==
    ASSUME OwnerInv, AnyOrderInv', NEW t \in Threads, RecordDeallocation(t)
    PROVE  OwnerInv'
<1> USE DEF RecordDeallocation, At, Goto, Unlock, poolVars, errorVars, clientVars
<1>1. /\ TypeOK /\ pc[t] = "recordDeallocation" /\ pc'[t] = "unmap" /\ mutex = t
      /\ ptr[t] \in PoolAddresses /\ slot[t] = GetNearestSlot(ptr[t])
  BY DEF OwnerInv, ControlInv, AnyOrderInv, LocalsInv, DeallocatesAt, FreesAt, MutexInv,
     CriticalSection, TypeOK
<1>2. slot[t] \in Slots
  BY <1>1, HolderFacts DEF HolderAt, DeallocatesAt
<1>4. /\ metadata' \in [Slots -> [Addr : Nat, IsDeallocated : BOOLEAN]]
      /\ \A m \in Slots : m # slot[t] => metadata'[m] = metadata[m]
  BY <1>1, <1>2, FlagStored
<1>5. Others(t) /\ slot'[t] = slot[t] /\ ptr'[t] = ptr[t]
  BY <1>1 DEF Others, TypeOK
<1>6. ControlInv'
  BY <1>1, <1>4, <1>5, ControlKept DEF AlarmAt
<1>7. SlotContent(t)'
  BY <1>1 DEF SlotContent, PlacedAt, StillValidAt
<1>8. \A n \in Slots : n # slot[t] => Keeps(n)
  BY <1>4 DEF Keeps
<1>9. PlacesInv' /\ CountInv' /\ HeapInv' /\ ContentInv'
  BY <1>1, <1>5, <1>7, <1>8, OwnSlotStep DEF HolderAt, DeallocatesAt
<1> QED
  BY <1>6, <1>9 DEF OwnerInv

LEMMA UnmapOwner ==
    ASSUME OwnerInv, AnyOrderInv', NEW t \in Threads, Unmap(t)
    PROVE  OwnerInv'
<1> USE DEF Unmap, At, Goto, poolVars, errorVars, clientVars
<1>1. /\ TypeOK /\ pc[t] = "unmap" /\ pc'[t] = "lockFreeSlot"
      /\ ptr[t] \in PoolAddresses /\ slot[t] = GetNearestSlot(ptr[t])
  BY DEF OwnerInv, ControlInv, AnyOrderInv, LocalsInv, DeallocatesAt, FreesAt, TypeOK
<1>2. \A n \in Slots : n # slot[t] => SlotToAddr(n) # SlotToAddr(slot[t])
  BY <1>1, HolderFacts DEF HolderAt, DeallocatesAt
<1>5. Others(t) /\ slot'[t] = slot[t] /\ ptr'[t] = ptr[t]
  BY <1>1 DEF Others, TypeOK
<1>6. ControlInv'
  BY <1>1, <1>5, ControlKept DEF AlarmAt
<1>7. SlotContent(t)'
  BY <1>1 DEF SlotContent, PlacedAt, StillValidAt
<1>8. \A n \in Slots : n # slot[t] => Keeps(n)
  BY <1>2 DEF Keeps
<1>9. PlacesInv' /\ CountInv' /\ HeapInv' /\ ContentInv'
  BY <1>1, <1>5, <1>7, <1>8, OwnSlotStep DEF HolderAt, DeallocatesAt
<1> QED
  BY <1>6, <1>9 DEF OwnerInv

-------------------------------------------------------------------------------
(***************************************************************************)
(* The steps that move a slot from one place to another.                   *)
(***************************************************************************)

\* The content of the slots when neither a page nor the metadata changes.
LEMMA ContentUntouched ==
    ASSUME OwnerInv, NEW t \in Threads, Others(t), UNCHANGED << metadata, accessible >>,
           SlotContent(t)',
           \A b \in LivePoolBlocks' : b \in LivePoolBlocks \/ UsableBlock(b)
    PROVE  ContentInv'
<1>1. \A n : Keeps(n)
  BY DEF Keeps
<1>2. \A b \in LivePoolBlocks' : UsableBlock(b)'
  BY <1>1, BlockKept DEF OwnerInv, ContentInv
<1>3. \A u \in Threads : u # t => SlotContent(u)'
  BY <1>1, ContentKept DEF OwnerInv, ContentInv
<1> QED
  BY <1>2, <1>3 DEF ContentInv

\* t comes to hold a slot, or stops holding one.
LEMMA HolderJoins ==
    ASSUME OwnerInv, NEW t \in Threads, Others(t),
           pc[t] \notin HolderAt, pc'[t] \in HolderAt
    PROVE  /\ t \notin SlotHolders
           /\ SlotHolders' = SlotHolders \cup {t}
           /\ \A u \in SlotHolders : u # t /\ slot'[u] = slot[u]
           /\ IsFiniteSet(SlotHolders')
           /\ Cardinality(SlotHolders') = Cardinality(SlotHolders) + 1
<1>1. t \notin SlotHolders /\ SlotHolders' = SlotHolders \cup {t}
  BY HoldersByPlace DEF Others
<1>2. \A u \in SlotHolders : u # t /\ slot'[u] = slot[u]
  BY <1>1, HoldersByPlace DEF Others
<1>3. IsFiniteSet(SlotHolders)
  BY DEF OwnerInv, CountInv
<1> QED
  BY <1>1, <1>2, <1>3, FS_AddElement

LEMMA HolderLeaves ==
    ASSUME OwnerInv, NEW t \in Threads, Others(t),
           pc[t] \in HolderAt, pc'[t] \notin HolderAt
    PROVE  /\ t \in SlotHolders
           /\ SlotHolders' = SlotHolders \ {t}
           /\ \A u \in SlotHolders' : u \in SlotHolders /\ u # t /\ slot'[u] = slot[u]
           /\ IsFiniteSet(SlotHolders')
           /\ Cardinality(SlotHolders') = Cardinality(SlotHolders) - 1
<1>1. t \in SlotHolders /\ SlotHolders' = SlotHolders \ {t}
  BY HoldersByPlace DEF Others
<1>2. \A u \in SlotHolders' : u \in SlotHolders /\ u # t /\ slot'[u] = slot[u]
  BY <1>1, HoldersByPlace DEF Others
<1>3. IsFiniteSet(SlotHolders)
  BY DEF OwnerInv, CountInv
<1> QED
  BY <1>1, <1>2, <1>3, FS_RemoveElement

LEMMA CountsAreNumbers ==
    ASSUME OwnerInv
    PROVE  /\ Cardinality(LivePoolBlocks) \in Nat /\ Cardinality(SlotHolders) \in Nat
           /\ Len(freeSlots) \in Nat /\ numAllocations \in Nat
BY FS_CardinalityType, SlotTypes DEF OwnerInv, CountInv, ControlInv, AnyOrderInv

LEMMA RemoveSlotOwner ==
    ASSUME OwnerInv, AnyOrderInv', NEW t \in Threads, RemoveSlot(t)
    PROVE  OwnerInv'
<1> USE DEF RemoveSlot, At, Goto, Unlock, poolVars, errorVars, clientVars
<1>1. /\ TypeOK /\ pc[t] = "removeSlot" /\ pc'[t] = "mapSlot" /\ mutex = t
      /\ req[t] \in Requests /\ Servable(req[t]) /\ live' = live
  BY DEF OwnerInv, ControlInv, AnyOrderInv, LocalsInv, AllocatesAt, MutexInv, CriticalSection,
     TypeOK
<1>2. Others(t) /\ slot'[t] = slot[t] /\ req'[t] = req[t]
  BY <1>1 DEF Others, TypeOK
<1>3. /\ t \notin SlotHolders /\ SlotHolders' = SlotHolders \cup {t}
      /\ \A u \in SlotHolders : u # t /\ slot'[u] = slot[u]
      /\ IsFiniteSet(SlotHolders')
      /\ Cardinality(SlotHolders') = Cardinality(SlotHolders) + 1
  BY <1>1, <1>2, HolderJoins DEF HolderAt, PlacedAt, DeallocatesAt
<1>4. LivePoolBlocks' = LivePoolBlocks
  BY <1>1 DEF LivePoolBlocks
\* The slot leaves the free list, or is one never used.
<1>5. /\ slot[t] \in Slots /\ slot[t] < numAllocations'
      /\ numAllocations' \in 0 .. MaxSimultaneousAllocations
      /\ numAllocations <= numAllocations'
      /\ freeSlots' \in Seq(Slots)
      /\ \A i \in 1 .. Len(freeSlots') :
            /\ freeSlots'[i] # slot[t]
            /\ \E j \in 1 .. Len(freeSlots) : freeSlots'[i] = freeSlots[j]
      /\ \A i, j \in 1 .. Len(freeSlots') : i # j => freeSlots'[i] # freeSlots'[j]
      /\ numAllocations' - Len(freeSlots') = numAllocations - Len(freeSlots) + 1
      /\ \/ slot[t] = numAllocations
         \/ \E j \in 1 .. Len(freeSlots) : freeSlots[j] = slot[t]
  <2>0. /\ \A i, j \in 1 .. Len(freeSlots) : i # j => freeSlots[i] # freeSlots[j]
        /\ \A i \in 1 .. Len(freeSlots) : freeSlots[i] < numAllocations
        /\ Len(freeSlots) \in Nat /\ numAllocations \in 0 .. MaxSimultaneousAllocations
    BY <1>1, SlotTypes DEF OwnerInv, PlacesInv, TypeOK
  <2>1. CASE index[t] = 0
    <3>1. slot[t] = numAllocations /\ numAllocations < MaxSimultaneousAllocations
      BY <1>1, <2>1, SlotTypes DEF OwnerInv, ControlInv, AnyOrderInv, ChoiceInv
    <3>2. numAllocations' = numAllocations + 1 /\ freeSlots' = freeSlots
      BY <2>1, <3>1
    <3> QED
      BY <1>1, <2>0, <3>1, <3>2, SlotTypes DEF TypeOK
  <2>2. CASE index[t] # 0
    <3>1. /\ index[t] \in 1 .. Len(freeSlots) /\ slot[t] = freeSlots[index[t]]
          /\ freeSlots \in Seq(Slots)
      BY <1>1, <2>2 DEF OwnerInv, ControlInv, AnyOrderInv, ChoiceInv, TypeOK
    <3>2. freeSlots' = SwapRemove(freeSlots, index[t]) /\ numAllocations' = numAllocations
      BY <2>2
    <3>3. /\ freeSlots' \in Seq(Slots)
          /\ Len(freeSlots') = Len(freeSlots) - 1
          /\ \A i \in 1 .. Len(freeSlots) - 1 :
                /\ freeSlots'[i] # slot[t]
                /\ \E j \in 1 .. Len(freeSlots) : freeSlots'[i] = freeSlots[j]
          /\ \A i, j \in 1 .. Len(freeSlots) - 1 : i # j => freeSlots'[i] # freeSlots'[j]
      <4> DEFINE s == freeSlots
                 k == index[t]
      <4>1. /\ s \in Seq(Slots) /\ k \in 1 .. Len(s)
            /\ \A i, j \in 1 .. Len(s) : i # j => s[i] # s[j]
        BY <2>0, <3>1
      <4> HIDE DEF s, k
      <4>2. /\ SwapRemove(s, k) \in Seq(Slots)
            /\ Len(SwapRemove(s, k)) = Len(s) - 1
            /\ \A i \in 1 .. Len(s) - 1 :
                  /\ SwapRemove(s, k)[i] # s[k]
                  /\ \E j \in 1 .. Len(s) : SwapRemove(s, k)[i] = s[j]
            /\ \A i, j \in 1 .. Len(s) - 1 :
                  i # j => SwapRemove(s, k)[i] # SwapRemove(s, k)[j]
        BY <4>1, SwapRemoveEntries
      <4> QED
        BY <3>1, <3>2, <4>2 DEF s, k
    <3>4. slot[t] \in Slots /\ slot[t] < numAllocations'
      BY <1>1, <2>0, <3>1, <3>2, SlotTypes
    <3>5. /\ numAllocations' - Len(freeSlots') = numAllocations - Len(freeSlots) + 1
          /\ numAllocations' \in 0 .. MaxSimultaneousAllocations
          /\ numAllocations <= numAllocations'
      BY <2>0, <3>2, <3>3
    <3> QED
      BY <3>1, <3>3, <3>4, <3>5
  <2> QED
    BY <2>1, <2>2
<1> HIDE DEF RemoveSlot
<1>6. UNCHANGED << metadata, accessible, errorVars, req, slot, ptr, clientVars >>
      /\ mutex' = NoThread /\ index' = [index EXCEPT ![t] = 0]
      /\ pc' = [pc EXCEPT ![t] = "mapSlot"]
  BY DEF RemoveSlot
<1>7. ControlInv'
  BY <1>1, <1>2, <1>5, <1>6, ControlKept DEF AlarmAt
<1>8. PlacesInv'
  <2>0. /\ numAllocations \in Nat /\ numAllocations' \in Nat
        /\ \A n \in Slots : n \in Nat
    BY <1>1, <1>5, SlotTypes DEF Slots
  <2>1. ASSUME NEW i \in 1 .. Len(freeSlots')
        PROVE  freeSlots'[i] < numAllocations'
    <3>1. PICK j \in 1 .. Len(freeSlots) : freeSlots'[i] = freeSlots[j]
      BY <1>5
    <3>2. freeSlots[j] \in Nat /\ freeSlots[j] < numAllocations
      BY <1>1, <2>0, SlotTypes DEF OwnerInv, PlacesInv
    <3> QED
      BY <1>5, <2>0, <3>1, <3>2
  \* A slot in one of the other places stays there.
  <2>2. ASSUME NEW n \in Slots, n < numAllocations,
               \A i \in 1 .. Len(freeSlots) : freeSlots[i] # n
        PROVE  /\ n < numAllocations' /\ n # slot[t]
               /\ \A i \in 1 .. Len(freeSlots') : freeSlots'[i] # n
    <3>1. n < numAllocations'
      BY <1>5, <2>0, <2>2
    <3>2. n # slot[t]
      BY <1>5, <2>0, <2>2
    <3>3. \A i \in 1 .. Len(freeSlots') : freeSlots'[i] # n
      BY <1>5, <2>2
    <3> QED
      BY <3>1, <3>2, <3>3
  <2>3. \A u \in SlotHolders :
            /\ slot[u] \in Slots /\ slot[u] < numAllocations' /\ slot[u] # slot[t]
            /\ \A i \in 1 .. Len(freeSlots') : freeSlots'[i] # slot[u]
    BY <2>2 DEF OwnerInv, PlacesInv
  <2>4. \A b \in LivePoolBlocks :
            /\ GetNearestSlot(b.addr) \in Slots /\ GetNearestSlot(b.addr) < numAllocations'
            /\ GetNearestSlot(b.addr) # slot[t]
            /\ \A i \in 1 .. Len(freeSlots') : freeSlots'[i] # GetNearestSlot(b.addr)
    BY <2>2 DEF OwnerInv, PlacesInv
  <2>5. \A u \in SlotHolders' : slot'[u] = slot[u] /\ (u = t \/ u \in SlotHolders)
    BY <1>2, <1>3
  <2>6. \A u, v \in SlotHolders' : u # v => slot'[u] # slot'[v]
    BY <2>3, <2>5 DEF OwnerInv, PlacesInv
  <2>7. \A u \in SlotHolders' :
            /\ slot'[u] \in Slots /\ slot'[u] < numAllocations'
            /\ \A i \in 1 .. Len(freeSlots') : freeSlots'[i] # slot'[u]
    BY <1>5, <2>3, <2>5
  <2>8. \A b \in LivePoolBlocks, u \in SlotHolders' : slot'[u] # GetNearestSlot(b.addr)
    BY <2>4, <2>5 DEF OwnerInv, PlacesInv
  <2>9. \A b, c \in LivePoolBlocks :
            b # c => GetNearestSlot(b.addr) # GetNearestSlot(c.addr)
    BY DEF OwnerInv, PlacesInv
  <2> QED
    BY <1>4, <1>5, <2>1, <2>4, <2>6, <2>7, <2>8, <2>9 DEF PlacesInv
<1>9. CountInv'
  <2>1. numAllocations' \in Nat /\ Len(freeSlots') \in Nat
    BY <1>5, PoolAssumption
  <2>2. numAllocations = Len(freeSlots) + Cardinality(LivePoolBlocks) + Cardinality(SlotHolders)
    BY DEF OwnerInv, CountInv, SlotsAreConserved
  <2>3. numAllocations' = Len(freeSlots') + Cardinality(LivePoolBlocks)
                                          + Cardinality(SlotHolders')
    <3>1. /\ Cardinality(SlotHolders') = Cardinality(SlotHolders) + 1
          /\ numAllocations' - Len(freeSlots') = numAllocations - Len(freeSlots) + 1
      BY <1>3, <1>5
    <3>2. /\ Cardinality(LivePoolBlocks) \in Nat /\ Cardinality(SlotHolders) \in Nat
          /\ Len(freeSlots) \in Nat /\ numAllocations \in Nat
          /\ numAllocations' \in Nat /\ Len(freeSlots') \in Nat
      BY <2>1, CountsAreNumbers
    <3>3. Cardinality(SlotHolders') = Cardinality(SlotHolders) + 1
      BY <3>1
    <3>4. numAllocations' - Len(freeSlots') = numAllocations - Len(freeSlots) + 1
      BY <3>1
    <3>6. numAllocations' = Len(freeSlots') + numAllocations - Len(freeSlots) + 1
      BY <3>4, <3>2
    <3>7. numAllocations - Len(freeSlots) = Cardinality(LivePoolBlocks) + Cardinality(SlotHolders)
      BY <2>2, <3>2
    <3> QED
      BY <3>2, <3>3, <3>6, <3>7
  <2> QED
    BY <1>3, <1>4, <2>3 DEF OwnerInv, CountInv, SlotsAreConserved
<1>10. ContentInv'
  BY <1>1, <1>2, <1>4, <1>6, ContentUntouched DEF SlotContent, PlacedAt, StillValidAt
<1>11. HeapInv'
  BY <1>1, <1>4 DEF OwnerInv, HeapInv
<1> QED
  BY <1>7, <1>8, <1>9, <1>10, <1>11 DEF OwnerInv

\* The block that has been placed becomes its client's.
LEMMA ReturnOwner ==
    ASSUME OwnerInv, AnyOrderInv', NEW t \in Threads, Return(t)
    PROVE  OwnerInv'
<1> DEFINE b == Block(ptr[t], req[t])
<1> USE DEF Return, ReturnFromCall, At, Goto, poolVars, errorVars
<1>1. /\ TypeOK /\ pc[t] = "return" /\ pc'[t] = "idle"
      /\ req[t] \in Requests /\ Servable(req[t])
      /\ ptr[t] \in UserPointers(slot[t], req[t])
      /\ live' = live \cup {b} /\ issued' = issued \cup {ptr[t]}
  BY DEF OwnerInv, ControlInv, AnyOrderInv, LocalsInv, AllocatesAt, PlacedAt, TypeOK
<1>2. Others(t)
  BY <1>1 DEF Others, TypeOK
<1>3. /\ ptr[t] \in PoolAddresses /\ ptr[t] \in Nat /\ PointerIsMine(ptr[t])
      /\ GetNearestSlot(ptr[t]) = slot[t]
      /\ EffectiveSize(req[t]) \in Nat \ {0}
      /\ ptr[t] % EffectiveAlignment(req[t]) = 0
      /\ ptr[t] .. ptr[t] + EffectiveSize(req[t]) - 1
             \subseteq SlotToAddr(slot[t]) .. SlotToAddr(slot[t]) + PageSize - 1
  BY <1>1, PlacedBlock DEF HolderAt, PlacedAt
<1>4. /\ b.addr = ptr[t] /\ b.size = EffectiveSize(req[t])
      /\ b.alignment = EffectiveAlignment(req[t]) /\ b \in Blocks
  BY <1>1, <1>3, RequestType, BlockType
<1> HIDE DEF b
<1>5. UsableBlock(b)
  <2>1. SlotContent(t)
    BY DEF OwnerInv, ContentInv
  <2> QED
    BY <1>1, <1>3, <1>4, <2>1 DEF SlotContent, UsableBlock, Bytes, PlacedAt, StillValidAt
<1>6. /\ t \in SlotHolders /\ SlotHolders' = SlotHolders \ {t}
      /\ \A u \in SlotHolders' : u \in SlotHolders /\ u # t /\ slot'[u] = slot[u]
      /\ IsFiniteSet(SlotHolders')
      /\ Cardinality(SlotHolders') = Cardinality(SlotHolders) - 1
  BY <1>1, <1>2, HolderLeaves DEF HolderAt, PlacedAt, DeallocatesAt
<1>7. LivePoolBlocks' = LivePoolBlocks \cup {b} /\ b \notin LivePoolBlocks
  <2>1. b \notin LivePoolBlocks
    BY <1>3, <1>4, <1>6 DEF OwnerInv, PlacesInv
  <2> QED
    BY <1>1, <1>3, <1>4, <2>1 DEF LivePoolBlocks
<1> HIDE DEF Return
<1>8. UNCHANGED << poolVars, errorVars >>
  BY DEF Return
<1>9. ControlInv'
  BY <1>1, <1>2, <1>3, <1>4, <1>8, ControlKept DEF AlarmAt
<1>10. PlacesInv'
  <2>1. \A c \in LivePoolBlocks' : c = b \/ c \in LivePoolBlocks
    BY <1>7
  <2>2. GetNearestSlot(b.addr) = slot[t]
    BY <1>3, <1>4
  <2>3. \A c \in LivePoolBlocks :
            GetNearestSlot(c.addr) # slot[t] /\ \A u \in SlotHolders : slot[u] # GetNearestSlot(c.addr)
    BY <1>6 DEF OwnerInv, PlacesInv
  <2>4. \A u \in SlotHolders : u # t => slot[u] # slot[t]
    BY <1>6 DEF OwnerInv, PlacesInv
  <2>5. /\ slot[t] \in Slots /\ slot[t] < numAllocations
        /\ \A i \in 1 .. Len(freeSlots) : freeSlots[i] # slot[t]
    BY <1>6 DEF OwnerInv, PlacesInv
  <2>6. \A c \in LivePoolBlocks' :
            /\ GetNearestSlot(c.addr) \in Slots
            /\ GetNearestSlot(c.addr) < numAllocations
            /\ \A i \in 1 .. Len(freeSlots) : freeSlots[i] # GetNearestSlot(c.addr)
            /\ \A u \in SlotHolders' : slot'[u] # GetNearestSlot(c.addr)
    BY <1>6, <2>1, <2>2, <2>3, <2>4, <2>5 DEF OwnerInv, PlacesInv
  <2>7. \A c, d \in LivePoolBlocks' :
            c # d => GetNearestSlot(c.addr) # GetNearestSlot(d.addr)
    BY <2>1, <2>2, <2>3 DEF OwnerInv, PlacesInv
  <2>8. \A u \in SlotHolders' :
            /\ slot'[u] \in Slots /\ slot'[u] < numAllocations
            /\ \A i \in 1 .. Len(freeSlots) : freeSlots[i] # slot'[u]
    BY <1>6 DEF OwnerInv, PlacesInv
  <2>9. \A u, v \in SlotHolders' : u # v => slot'[u] # slot'[v]
    BY <1>6 DEF OwnerInv, PlacesInv
  <2> QED
    BY <1>8, <2>6, <2>7, <2>8, <2>9 DEF OwnerInv, PlacesInv
<1>11. CountInv'
  <2>1. /\ IsFiniteSet(LivePoolBlocks')
        /\ Cardinality(LivePoolBlocks') = Cardinality(LivePoolBlocks) + 1
    BY <1>7, FS_AddElement DEF OwnerInv, CountInv
  <2>2. numAllocations = Len(freeSlots) + Cardinality(LivePoolBlocks) + Cardinality(SlotHolders)
    BY DEF OwnerInv, CountInv, SlotsAreConserved
  <2>3. numAllocations = Len(freeSlots) + Cardinality(LivePoolBlocks')
                                        + Cardinality(SlotHolders')
    BY <1>6, <2>1, <2>2, CountsAreNumbers
  <2> QED
    BY <1>6, <1>8, <2>1, <2>3 DEF CountInv, SlotsAreConserved
<1>12. ContentInv'
  BY <1>1, <1>2, <1>5, <1>7, <1>8, ContentUntouched DEF SlotContent, PlacedAt, StillValidAt
<1>13. HeapInv'
  <2>1. b.addr > 0 /\ b.size > 0
    BY <1>3, <1>4, PoolAssumption DEF PoolAddresses, GuardedPagePoolEnd
  <2>2. live' \ LivePoolBlocks' \subseteq live \ LivePoolBlocks
    BY <1>1, <1>7
  <2> QED
    BY <1>1, <2>1, <2>2 DEF OwnerInv, HeapInv
<1> QED
  BY <1>9, <1>10, <1>11, <1>12, <1>13 DEF OwnerInv

\* malloc hands out a block that is apart from the pool and from every live
\* block, or none.
LEMMA MallocOwner ==
    ASSUME OwnerInv, AnyOrderInv', NEW t \in Threads, Malloc(t)
    PROVE  OwnerInv'
<1> USE DEF Malloc, ReturnFromCall, At, Goto, poolVars, errorVars
<1>1. TypeOK /\ pc[t] = "malloc" /\ pc'[t] = "idle"
  BY DEF OwnerInv, ControlInv, AnyOrderInv, TypeOK
<1>2. Others(t)
  BY <1>1 DEF Others, TypeOK
<1>3. PICK new \in SUBSET Blocks :
          /\ live' = live \cup new
          /\ \A b \in new : b.addr > 0 /\ b.size > 0 /\ ~ PointerIsMine(b.addr)
          /\ \A b \in new : Bytes(b) \cap PoolAddresses = {}
          /\ \A b \in new, c \in live : Bytes(b) \cap Bytes(c) = {}
          /\ \A b, c \in new : b = c
  <2>1. CASE live' = live
    <3> live' = live \cup {} /\ {} \in SUBSET Blocks
      BY <2>1
    <3> QED
      OBVIOUS
  <2>2. ASSUME NEW a \in HeapAddresses,
               LET b == Block(a, req[t]) IN
               /\ Bytes(b) \cap PoolAddresses = {}
               /\ \A c \in live : Bytes(b) \cap Bytes(c) = {}
               /\ live' = live \cup {b}
        PROVE  \E new \in SUBSET Blocks :
                  /\ live' = live \cup new
                  /\ \A b \in new : b.addr > 0 /\ b.size > 0 /\ ~ PointerIsMine(b.addr)
                  /\ \A b \in new : Bytes(b) \cap PoolAddresses = {}
                  /\ \A b \in new, c \in live : Bytes(b) \cap Bytes(c) = {}
                  /\ \A b, c \in new : b = c
    <3> DEFINE b == Block(a, req[t])
    <3>1. a \in Nat \ {0} /\ a \notin PoolAddresses
      BY ClientAssumption
    <3>2. EffectiveSize(req[t]) \in Nat \ {0}
      BY <1>1, RequestType DEF EffectiveSize
    <3>3. ~ PointerIsMine(a)
      <4>1. GuardedPagePool \in Nat /\ GuardedPagePoolEnd \in Nat
        BY PoolAssumption, Z3 DEF GuardedPagePoolEnd
      <4> QED
        BY <3>1, <4>1 DEF PointerIsMine, PoolAddresses
    <3>4. b \in Blocks /\ b.addr = a /\ b.size = EffectiveSize(req[t])
      BY <1>1, <3>1, RequestType, BlockType
    <3>5. /\ Bytes(b) \cap PoolAddresses = {}
          /\ \A c \in live : Bytes(b) \cap Bytes(c) = {}
          /\ live' = live \cup {b}
      BY <2>2
    <3> HIDE DEF b
    <3>6. {b} \in SUBSET Blocks
      BY <3>4
    <3> WITNESS {b} \in SUBSET Blocks
    <3> QED
      BY <3>1, <3>2, <3>3, <3>4, <3>5
  <2> QED
    BY <2>1, <2>2
<1> HIDE DEF Malloc
<1>4. UNCHANGED << poolVars, errorVars, issued >>
  BY DEF Malloc
<1>5. ControlInv'
  BY <1>1, <1>2, <1>3, <1>4, ControlKept DEF AlarmAt
<1>6. SlotHolders' = SlotHolders /\ \A u \in SlotHolders : slot'[u] = slot[u]
  BY <1>1, <1>2, HoldersByPlace DEF Others, HolderAt, PlacedAt, DeallocatesAt
<1>7. LivePoolBlocks' = LivePoolBlocks
  BY <1>3 DEF LivePoolBlocks
<1>8. PlacesInv'
  BY <1>4, <1>6, <1>7 DEF OwnerInv, PlacesInv
<1>9. CountInv'
  BY <1>4, <1>6, <1>7 DEF OwnerInv, CountInv, SlotsAreConserved
<1>10. ContentInv'
  BY <1>1, <1>2, <1>4, <1>7, ContentUntouched DEF SlotContent, PlacedAt, StillValidAt
<1>11. HeapInv'
  <2>1. \A b \in live' \ LivePoolBlocks' : b \in live \ LivePoolBlocks \/ b \in new
    BY <1>3, <1>7
  <2>2. \A b \in live' : b.addr > 0 /\ b.size > 0
    BY <1>3 DEF OwnerInv, HeapInv
  <2>3. \A b \in live' \ LivePoolBlocks' : Bytes(b) \cap PoolAddresses = {}
    BY <1>3, <2>1 DEF OwnerInv, HeapInv
  <2>4. \A b, c \in live' \ LivePoolBlocks' : b # c => Bytes(b) \cap Bytes(c) = {}
    BY <1>3, <2>1 DEF OwnerInv, HeapInv
  <2> QED
    BY <2>2, <2>3, <2>4 DEF HeapInv, Bytes
<1> QED
  BY <1>5, <1>8, <1>9, <1>10, <1>11 DEF OwnerInv

\* The slot goes from the thread to the free list.
LEMMA FreeSlotOwner ==
    ASSUME OwnerInv, AnyOrderInv', NEW t \in Threads, FreeSlot(t)
    PROVE  OwnerInv'
<1> USE DEF FreeSlot, ReturnFromCall, Unlock, At, Goto, errorVars, clientVars
<1>1. /\ TypeOK /\ pc[t] = "freeSlot" /\ pc'[t] = "idle" /\ mutex = t
  BY DEF OwnerInv, ControlInv, AnyOrderInv, MutexInv, CriticalSection, TypeOK
<1>2. Others(t)
  BY <1>1 DEF Others, TypeOK
<1>3. /\ t \in SlotHolders /\ SlotHolders' = SlotHolders \ {t}
      /\ \A u \in SlotHolders' : u \in SlotHolders /\ u # t /\ slot'[u] = slot[u]
      /\ IsFiniteSet(SlotHolders')
      /\ Cardinality(SlotHolders') = Cardinality(SlotHolders) - 1
  BY <1>1, <1>2, HolderLeaves DEF HolderAt, PlacedAt, DeallocatesAt
<1>4. /\ slot[t] \in Slots /\ slot[t] < numAllocations
      /\ \A i \in 1 .. Len(freeSlots) : freeSlots[i] # slot[t]
      /\ \A u \in SlotHolders : u # t => slot[u] # slot[t]
      /\ \A b \in LivePoolBlocks : GetNearestSlot(b.addr) # slot[t]
  BY <1>3 DEF OwnerInv, PlacesInv
<1>5. /\ freeSlots' \in Seq(Slots) /\ Len(freeSlots') = Len(freeSlots) + 1
      /\ \A i \in 1 .. Len(freeSlots) : freeSlots'[i] = freeSlots[i]
      /\ freeSlots'[Len(freeSlots) + 1] = slot[t]
      /\ Len(freeSlots) \in Nat
  BY <1>1, <1>4 DEF TypeOK
<1>6. UNCHANGED << numAllocations, metadata, accessible, errorVars, clientVars >>
      /\ mutex' = NoThread
  OBVIOUS
<1>7. LivePoolBlocks' = LivePoolBlocks
  BY DEF LivePoolBlocks
<1> HIDE DEF FreeSlot
<1>9. ControlInv'
  BY <1>1, <1>2, <1>6, ControlKept DEF AlarmAt
<1>10. PlacesInv'
  <2>1. \A i \in 1 .. Len(freeSlots') :
            \/ i \in 1 .. Len(freeSlots) /\ freeSlots'[i] = freeSlots[i]
            \/ i = Len(freeSlots) + 1 /\ freeSlots'[i] = slot[t]
    BY <1>5
  <2>2. \A i, j \in 1 .. Len(freeSlots') : i # j => freeSlots'[i] # freeSlots'[j]
    BY <1>4, <2>1 DEF OwnerInv, PlacesInv
  <2>3. \A i \in 1 .. Len(freeSlots') : freeSlots'[i] < numAllocations
    BY <1>4, <2>1 DEF OwnerInv, PlacesInv
  <2>4. \A u \in SlotHolders' :
            /\ slot'[u] \in Slots /\ slot'[u] < numAllocations
            /\ \A i \in 1 .. Len(freeSlots') : freeSlots'[i] # slot'[u]
    BY <1>3, <1>4, <2>1 DEF OwnerInv, PlacesInv
  <2>5. \A u, v \in SlotHolders' : u # v => slot'[u] # slot'[v]
    BY <1>3 DEF OwnerInv, PlacesInv
  <2>6. \A b \in LivePoolBlocks :
            /\ GetNearestSlot(b.addr) \in Slots
            /\ GetNearestSlot(b.addr) < numAllocations
            /\ \A i \in 1 .. Len(freeSlots') : freeSlots'[i] # GetNearestSlot(b.addr)
            /\ \A u \in SlotHolders' : slot'[u] # GetNearestSlot(b.addr)
    BY <1>3, <1>4, <2>1 DEF OwnerInv, PlacesInv
  <2>7. \A b, c \in LivePoolBlocks :
            b # c => GetNearestSlot(b.addr) # GetNearestSlot(c.addr)
    BY DEF OwnerInv, PlacesInv
  <2> QED
    BY <1>6, <1>7, <2>2, <2>3, <2>4, <2>5, <2>6, <2>7 DEF PlacesInv
<1>11. CountInv'
  <2>1. numAllocations = Len(freeSlots) + Cardinality(LivePoolBlocks) + Cardinality(SlotHolders)
    BY DEF OwnerInv, CountInv, SlotsAreConserved
  <2>2. numAllocations = Len(freeSlots') + Cardinality(LivePoolBlocks)
                                         + Cardinality(SlotHolders')
    BY <1>3, <1>5, <2>1, CountsAreNumbers
  <2> QED
    BY <1>3, <1>6, <1>7, <2>2 DEF OwnerInv, CountInv, SlotsAreConserved
<1>12. ContentInv'
  BY <1>1, <1>2, <1>6, <1>7, ContentUntouched DEF SlotContent, PlacedAt, StillValidAt
<1>13. HeapInv'
  BY <1>6, <1>7 DEF OwnerInv, HeapInv
<1> QED
  BY <1>9, <1>10, <1>11, <1>12, <1>13 DEF OwnerInv

\* Two live blocks never have the same address.
LEMMA LiveAddressesDiffer ==
    ASSUME OwnerInv, NEW b \in live, NEW c \in live, b.addr = c.addr
    PROVE  b = c
<1>1. b \in LivePoolBlocks <=> c \in LivePoolBlocks
  BY DEF LivePoolBlocks
<1>2. CASE b \in LivePoolBlocks
  BY <1>1, <1>2 DEF OwnerInv, PlacesInv
<1>3. CASE b \notin LivePoolBlocks
  <2>1. /\ b.addr \in Nat /\ b.size \in Nat /\ c.size \in Nat
        /\ b.size > 0 /\ c.size > 0
    BY DEF OwnerInv, HeapInv, ControlInv, AnyOrderInv, TypeOK, Blocks
  <2>2. b.addr \in Bytes(b) \cap Bytes(c)
    BY <2>1 DEF Bytes
  <2> QED
    BY <1>1, <1>3, <2>2 DEF OwnerInv, HeapInv
<1> QED
  BY <1>2, <1>3

\* A block goes from its client to the thread that frees it, or back to malloc.
LEMMA DeallocateOwner ==
    ASSUME OwnerInv, AnyOrderInv', NEW t \in Threads, NEW b \in live, Deallocate(t, b.addr)
    PROVE  OwnerInv'
<1> DEFINE p == b.addr
           n == GetNearestSlot(p)
<1> USE DEF At, Goto, errorVars
<1>1. /\ TypeOK /\ pc[t] = "idle" /\ p \in Nat
      /\ UNCHANGED << poolVars, errorVars, req, index, issued >>
  BY DEF Deallocate, OwnerInv, ControlInv, AnyOrderInv, TypeOK, Blocks
<1>2. live' = live \ {b}
  <2>1. live' = { c \in live : c.addr # p }
    BY DEF Deallocate
  <2> QED
    BY <2>1, LiveAddressesDiffer
<1>3. HeapInv'
  <2>1. /\ live' \subseteq live
        /\ live' \ LivePoolBlocks' \subseteq live \ LivePoolBlocks
    BY <1>2 DEF LivePoolBlocks
  <2> QED
    BY <2>1 DEF OwnerInv, HeapInv
<1>4. CASE ~ PointerIsMine(p)
  <2>1. UNCHANGED << pc, slot, ptr >>
    BY <1>4 DEF Deallocate
  <2>2. Others(t)
    BY <1>1, <2>1 DEF Others
  <2>3. LivePoolBlocks' = LivePoolBlocks
    BY <1>2, <1>4 DEF LivePoolBlocks
  <2>4. SlotHolders' = SlotHolders
    BY <2>1, HoldersByPlace
  <2>5. ControlInv'
    BY <1>1, <2>1 DEF OwnerInv, ControlInv
  <2>6. PlacesInv'
    BY <1>1, <2>1, <2>3, <2>4 DEF OwnerInv, PlacesInv, poolVars
  <2>7. CountInv'
    BY <1>1, <2>3, <2>4 DEF OwnerInv, CountInv, SlotsAreConserved, poolVars
  <2>8. ContentInv'
    BY <1>1, <2>1, <2>2, <2>3, ContentUntouched DEF OwnerInv, ContentInv, SlotContent, poolVars
  <2> QED
    BY <1>3, <2>5, <2>6, <2>7, <2>8 DEF OwnerInv
<1>5. CASE PointerIsMine(p)
  <2>1. /\ ptr' = [ptr EXCEPT ![t] = p] /\ slot' = [slot EXCEPT ![t] = n]
        /\ pc' = [pc EXCEPT ![t] = "checkAddr"]
    BY <1>5 DEF Deallocate
  <2>2. Others(t) /\ pc'[t] = "checkAddr" /\ slot'[t] = n /\ ptr'[t] = p
    BY <1>1, <2>1 DEF Others, TypeOK
  <2>3. b \in LivePoolBlocks /\ LivePoolBlocks' = LivePoolBlocks \ {b}
    BY <1>2, <1>5 DEF LivePoolBlocks
  <2>4. /\ t \notin SlotHolders /\ SlotHolders' = SlotHolders \cup {t}
        /\ \A u \in SlotHolders : u # t /\ slot'[u] = slot[u]
        /\ IsFiniteSet(SlotHolders')
        /\ Cardinality(SlotHolders') = Cardinality(SlotHolders) + 1
    BY <1>1, <2>2, HolderJoins DEF HolderAt, PlacedAt, DeallocatesAt
  <2>5. /\ n \in Slots /\ n < numAllocations
        /\ \A i \in 1 .. Len(freeSlots) : freeSlots[i] # n
        /\ \A u \in SlotHolders : slot[u] # n
        /\ \A c \in LivePoolBlocks : c # b => GetNearestSlot(c.addr) # n
    BY <2>3 DEF OwnerInv, PlacesInv
  <2>6. p \in PoolAddresses
    BY <1>1, <1>5, PoolAssumption DEF PointerIsMine, PoolAddresses, GuardedPagePoolEnd
  <2>7. UsableBlock(b)
    BY <2>3 DEF OwnerInv, ContentInv
  <2> HIDE DEF p, n
  <2>8. ControlInv'
    BY <1>1, <1>2, <2>1, <2>2, <2>5, <2>6, ControlKept DEF AlarmAt
  <2>9. PlacesInv'
    <3>1. \A u \in SlotHolders' :
              \/ u = t /\ slot'[u] = n
              \/ u \in SlotHolders /\ slot'[u] = slot[u]
      BY <2>2, <2>4
    <3>2. \A c \in LivePoolBlocks' : c \in LivePoolBlocks /\ GetNearestSlot(c.addr) # n
      BY <2>3, <2>5
    <3>3. \A u \in SlotHolders' :
              /\ slot'[u] \in Slots /\ slot'[u] < numAllocations
              /\ \A i \in 1 .. Len(freeSlots) : freeSlots[i] # slot'[u]
      BY <2>5, <3>1 DEF OwnerInv, PlacesInv
    <3>4. \A u, v \in SlotHolders' : u # v => slot'[u] # slot'[v]
      BY <2>5, <3>1 DEF OwnerInv, PlacesInv
    <3>5. \A c \in LivePoolBlocks' :
              /\ GetNearestSlot(c.addr) \in Slots
              /\ GetNearestSlot(c.addr) < numAllocations
              /\ \A i \in 1 .. Len(freeSlots) : freeSlots[i] # GetNearestSlot(c.addr)
              /\ \A u \in SlotHolders' : slot'[u] # GetNearestSlot(c.addr)
      BY <3>1, <3>2 DEF OwnerInv, PlacesInv
    <3>6. \A c, d \in LivePoolBlocks' :
              c # d => GetNearestSlot(c.addr) # GetNearestSlot(d.addr)
      BY <3>2 DEF OwnerInv, PlacesInv
    <3> QED
      BY <1>1, <3>3, <3>4, <3>5, <3>6 DEF OwnerInv, PlacesInv, poolVars
  <2>10. CountInv'
    <3>1. /\ IsFiniteSet(LivePoolBlocks')
          /\ Cardinality(LivePoolBlocks') = Cardinality(LivePoolBlocks) - 1
      BY <2>3, FS_RemoveElement DEF OwnerInv, CountInv
    <3>2. numAllocations = Len(freeSlots) + Cardinality(LivePoolBlocks) + Cardinality(SlotHolders)
      BY DEF OwnerInv, CountInv, SlotsAreConserved
    <3>3. numAllocations = Len(freeSlots) + Cardinality(LivePoolBlocks')
                                          + Cardinality(SlotHolders')
      BY <2>4, <3>1, <3>2, CountsAreNumbers
    <3> QED
      BY <1>1, <2>4, <3>1, <3>3 DEF CountInv, SlotsAreConserved, poolVars
  \* Its metadata is what the checks of deallocate expect.
  <2>11. SlotContent(t)'
    BY <1>1, <2>2, <2>7 DEF UsableBlock, SlotContent, PlacedAt, StillValidAt, poolVars, p, n
  <2>12. ContentInv'
    BY <1>1, <2>2, <2>3, <2>11, ContentUntouched DEF poolVars
  <2> QED
    BY <1>3, <2>8, <2>9, <2>10, <2>12 DEF OwnerInv
<1> QED
  BY <1>4, <1>5

-------------------------------------------------------------------------------
(***************************************************************************)
(* The invariant, and what follows from it.                                *)
(***************************************************************************)
LEMMA InitOwner == Init => OwnerInv
<1> SUFFICES ASSUME Init PROVE OwnerInv
  OBVIOUS
<1> USE DEF Init
<1>1. \A t \in Threads : pc[t] = "idle"
  OBVIOUS
<1>2. LivePoolBlocks = {} /\ SlotHolders = {} /\ Len(freeSlots) = 0
  BY <1>1 DEF LivePoolBlocks, SlotHolders, InTransit, Acquiring, Releasing
<1>3. AnyOrderInv
  BY InitAny
<1>4. ControlInv
  BY <1>1, <1>3 DEF ControlInv, AlarmAt
<1>5. PlacesInv
  BY <1>2 DEF PlacesInv
<1>6. CountInv
  BY <1>2, FS_EmptySet DEF CountInv, SlotsAreConserved
<1>7. ContentInv
  BY <1>1, <1>2 DEF ContentInv, SlotContent, PlacedAt, StillValidAt
<1>8. HeapInv
  BY DEF HeapInv
<1> QED
  BY <1>4, <1>5, <1>6, <1>7, <1>8 DEF OwnerInv

LEMMA NextOwner == OwnerInv /\ [OwnerNext]_vars => OwnerInv'
<1> SUFFICES ASSUME OwnerInv, [OwnerNext]_vars PROVE OwnerInv'
  OBVIOUS
<1>1. CASE UNCHANGED vars
  <2> USE <1>1 DEF vars, poolVars, errorVars, localVars, clientVars
  <2>1. SlotHolders' = SlotHolders /\ LivePoolBlocks' = LivePoolBlocks
    BY HoldersByPlace DEF LivePoolBlocks
  <2>2. AnyOrderInv'
    BY StutterAny DEF OwnerInv, ControlInv
  <2>3. ControlInv'
    BY <2>2 DEF OwnerInv, ControlInv
  <2>4. PlacesInv' /\ CountInv'
    BY <2>1 DEF OwnerInv, PlacesInv, CountInv, SlotsAreConserved
  <2>5. ContentInv'
    BY <2>1 DEF OwnerInv, ContentInv, UsableBlock, SlotContent
  <2>6. HeapInv'
    BY <2>1 DEF OwnerInv, HeapInv
  <2> QED
    BY <2>3, <2>4, <2>5, <2>6 DEF OwnerInv
<1>2. ASSUME NEW t \in Threads, InCall(t) PROVE OwnerInv'
  <2>0. AnyOrderInv'
    BY <1>2, InCallAny DEF OwnerInv, ControlInv
  <2>1. CASE AllocateStep(t)
    BY <2>0, <2>1, LockReserveOwner, ReserveSlotOwner, RemoveSlotOwner, MapSlotOwner,
       StoreAddrOwner, StoreFlagOwner, ReturnOwner, MallocOwner DEF AllocateStep
  <2>2. CASE DeallocateStep(t)
    BY <2>0, <2>2, NoAlarmOwner, CheckAddrOwner, LockDeallocateOwner, CheckDeallocatedOwner,
       RecordDeallocationOwner, UnmapOwner, LockFreeSlotOwner, FreeSlotOwner
    DEF DeallocateStep
  <2> QED
    BY <1>2, <2>1, <2>2 DEF InCall
<1>3. ASSUME NEW t \in Threads, OwnerCall(t) PROVE OwnerInv'
  <2>1. AnyOrderInv'
    BY <1>3, ClientAny DEF OwnerInv, ControlInv
  <2> QED
    BY <1>3, <2>1, AllocateOwner, DeallocateOwner DEF OwnerCall
<1> QED
  BY <1>1, <1>2, <1>3 DEF OwnerNext, ProcessIsDead

\* The invariant holds in every state a correct client can bring the pool to.
THEOREM InductiveOwner == OwnerSpec => []OwnerInv
<1>1. OwnerInv /\ [OwnerNext]_vars => OwnerInv'
  BY NextOwner
<1> QED
  BY InitOwner, <1>1, PTL DEF OwnerSpec

\* The pool never accuses a correct client: no trap, no fault, however the
\* stores of RecordAllocation are ordered.
THEOREM CorrectClientsAreNotAccused == OwnerSpec => []NoFalseAlarm
<1>1. OwnerInv => NoFalseAlarm
  BY DEF OwnerInv, ControlInv, AlarmAt, NoFalseAlarm
<1> QED
  BY InductiveOwner, <1>1, PTL

\* A client's block of the pool lies in an accessible slot page whose metadata are
\* its own, aligned as the client asked.
THEOREM BlocksAreUsable == OwnerSpec => []LiveIsUsable
<1>1. OwnerInv => LiveIsUsable
  BY DEF OwnerInv, ContentInv, UsableBlock, LivePoolBlocks, LiveIsUsable
<1> QED
  BY InductiveOwner, <1>1, PTL

\* No slot is lost or invented by any sequence of calls.
THEOREM NoSlotIsLost == OwnerSpec => []SlotsAreConserved
<1>1. OwnerInv => SlotsAreConserved
  BY DEF OwnerInv, CountInv
<1> QED
  BY InductiveOwner, <1>1, PTL

-------------------------------------------------------------------------------
(***************************************************************************)
(* The pool and malloc implement a heap.                                   *)
(***************************************************************************)

\* Two sets of bytes that are apart do not overlap.
LEMMA ApartBlocks ==
    ASSUME NEW b \in Blocks, NEW c \in Blocks, b.size > 0, c.size > 0,
           Bytes(b) \cap Bytes(c) = {}
    PROVE  ~ Heap!Overlap(b, c)
<1>1. /\ b.addr \in Nat /\ b.size \in Nat /\ c.addr \in Nat /\ c.size \in Nat
  BY DEF Blocks
<1>2. SUFFICES ASSUME b.addr < c.addr + c.size, c.addr < b.addr + b.size PROVE FALSE
  BY DEF Heap!Overlap
<1>3. CASE b.addr <= c.addr
  <2>1. c.addr \in Bytes(b) /\ c.addr \in Bytes(c)
    BY <1>1, <1>2, <1>3 DEF Bytes
  <2> QED
    BY <2>1
<1>4. CASE c.addr <= b.addr
  <2>1. b.addr \in Bytes(b) /\ b.addr \in Bytes(c)
    BY <1>1, <1>2, <1>4 DEF Bytes
  <2> QED
    BY <2>1
<1> QED
  BY <1>1, <1>3, <1>4

\* The pages of two slots have no byte in common.
LEMMA SlotPagesAreApart ==
    ASSUME NEW m \in Slots, NEW n \in Slots, m # n
    PROVE  (SlotToAddr(m) .. SlotToAddr(m) + PageSize - 1)
               \cap (SlotToAddr(n) .. SlotToAddr(n) + PageSize - 1) = {}
BY NearestInSlot

\* Live blocks are apart from each other.
LiveApart == \A b, c \in live : b # c => Bytes(b) \cap Bytes(c) = {}

LEMMA LiveBlocksAreApart == OwnerInv => LiveApart
<1> SUFFICES ASSUME OwnerInv, NEW b \in live, NEW c \in live, b # c
             PROVE  Bytes(b) \cap Bytes(c) = {}
  BY DEF LiveApart
<1>1. ASSUME NEW d \in LivePoolBlocks
      PROVE  /\ GetNearestSlot(d.addr) \in Slots
             /\ Bytes(d) \subseteq SlotToAddr(GetNearestSlot(d.addr))
                                  .. SlotToAddr(GetNearestSlot(d.addr)) + PageSize - 1
             /\ Bytes(d) \subseteq PoolAddresses
  <2>1. GetNearestSlot(d.addr) \in Slots /\ UsableBlock(d)
    BY DEF OwnerInv, PlacesInv, ContentInv
  <2> QED
    BY <2>1, SlotPageInPool DEF UsableBlock
<1>2. CASE b \in LivePoolBlocks /\ c \in LivePoolBlocks
  <2>1. GetNearestSlot(b.addr) # GetNearestSlot(c.addr)
    BY <1>2 DEF OwnerInv, PlacesInv
  <2> QED
    BY <1>1, <1>2, <2>1, SlotPagesAreApart
<1>3. CASE ~ (b \in LivePoolBlocks /\ c \in LivePoolBlocks)
  BY <1>1, <1>3 DEF OwnerInv, HeapInv
<1> QED
  BY <1>2, <1>3

\* A step that hands out blocks hands out one, apart from the live ones.
LEMMA LiveGrows ==
    ASSUME OwnerInv, OwnerInv', LiveApart', NEW b, live' = live \cup {b}
    PROVE  [Heap!Next]_live
<1>1. CASE b \in live
  BY <1>1
<1>2. CASE b \notin live
  <2>1. b.addr > 0 /\ b.size > 0 /\ b \in Blocks /\ live \subseteq Blocks
    BY DEF OwnerInv, HeapInv, ControlInv, AnyOrderInv, TypeOK
  <2>2. \A c \in live : Bytes(b) \cap Bytes(c) = {} /\ c.size > 0
    <3>1. \A c \in live' : b # c => Bytes(b) \cap Bytes(c) = {}
      BY DEF LiveApart, Bytes
    <3> QED
      BY <1>2, <3>1 DEF OwnerInv, HeapInv
  <2>3. \A c \in live : ~ Heap!Overlap(b, c)
    BY <2>1, <2>2, ApartBlocks
  <2>4. Heap!Allocate(b)
    BY <2>1, <2>3 DEF Heap!Allocate
  <2> QED
    BY <1>2, <2>4 DEF Heap!Next
<1> QED
  BY <1>1, <1>2

\* Every step of the pool is one of the heap, or leaves the live blocks alone.
LEMMA HeapStep ==
    ASSUME OwnerInv, OwnerInv', LiveApart', [OwnerNext]_vars
    PROVE  [Heap!Next]_live
<1>1. CASE UNCHANGED vars
  BY <1>1 DEF vars, clientVars
<1>2. CASE ProcessIsDead
  BY <1>2 DEF ProcessIsDead, vars, clientVars
<1>3. ASSUME NEW t \in Threads, Return(t) PROVE [Heap!Next]_live
  BY <1>3, LiveGrows DEF Return
<1>4. ASSUME NEW t \in Threads, Malloc(t) PROVE [Heap!Next]_live
  BY <1>4, LiveGrows DEF Malloc
<1>5. ASSUME NEW t \in Threads, NEW b \in live, Deallocate(t, b.addr)
      PROVE  [Heap!Next]_live
  <2>1. live' = { c \in live : c.addr # b.addr }
    BY <1>5 DEF Deallocate
  <2>2. live' = live \ {b}
    BY <2>1, LiveAddressesDiffer
  <2> QED
    BY <2>2 DEF Heap!Next, Heap!Free
<1>6. ASSUME NEW t \in Threads, InCall(t), ~ Return(t), ~ Malloc(t)
      PROVE  live' = live
  BY <1>6
  DEF InCall, AllocateStep, DeallocateStep, LockReserve, ReserveSlot, RemoveSlot, MapSlot,
      StoreAddr, StoreFlag, CheckAddr, LockInvalidFree, LockDeallocate, CheckDeallocated,
      RecordDeallocation, Unmap, LockFreeSlot, FreeSlot, StoreFailureType,
      StoreFailureAddress, clientVars
<1>7. ASSUME NEW t \in Threads, NEW r \in Requests, Allocate(t, r) PROVE live' = live
  BY <1>7 DEF Allocate, clientVars
<1> QED
  BY <1>1, <1>2, <1>3, <1>4, <1>5, <1>6, <1>7 DEF OwnerNext, OwnerCall

\* as_alloc and as_dealloc together are a heap: blocks that are live at the same
\* time never overlap, whether they come from the pool or from malloc.
THEOREM PoolImplementsHeap == OwnerSpec => HeapSpec
<1>1. Init => Heap!Init
  BY DEF Init, Heap!Init
<1>2. OwnerInv /\ OwnerInv' /\ LiveApart' /\ [OwnerNext]_vars => [Heap!Next]_live
  BY HeapStep
<1> QED
  BY InductiveOwner, LiveBlocksAreApart, <1>1, <1>2, PTL DEF OwnerSpec, HeapSpec, Heap!Spec

===============================================================================
