--------------------------- MODULE GuardedPoolProofs ---------------------------
(***************************************************************************)
(* The guarded pool hands out each slot to one caller at a time, for any   *)
(* number of threads and slots and for any client, when the stores of      *)
(* RecordAllocation become visible in the order of the source.             *)
(***************************************************************************)
EXTENDS GuardedPool, PoolGeometryProofs, FiniteSetTheorems

\* The code between lock and unlock, and trapOnAddress, which never unlocks.
CriticalSection ==
    {"reserveSlot", "removeSlot", "invalidFree", "checkDeallocated", "doubleFree",
     "recordDeallocation", "freeSlot", "storeAddress"}

MutexInv == \A t \in Threads : pc[t] \in CriticalSection => mutex = t

\* What reserveSlot chose is still there when it updates the list.
ChoiceInv ==
    \A t \in Threads : pc[t] = "removeSlot" =>
        \/ /\ index[t] = 0
           /\ slot[t] = numAllocations
           /\ numAllocations < MaxSimultaneousAllocations
        \/ /\ index[t] \in 1 .. Len(freeSlots)
           /\ slot[t] = freeSlots[index[t]]

\* allocate's locals.
RequestInv ==
    \A t \in Threads :
        /\ pc[t] \in {"lockReserve", "reserveSlot", "removeSlot", "mapSlot",
                      "record", "recordFlag", "return"}
           => req[t] \in Requests /\ Servable(req[t])
        /\ pc[t] \in {"record", "recordFlag", "return"}
           => /\ slot[t] < numAllocations
              /\ ptr[t] \in UserPointers(slot[t], req[t])

\* deallocate's locals.  Past the check of Addr the pointer is one that
\* allocate has returned.
PointerInv ==
    \A t \in Threads :
        /\ pc[t] \in {"checkAddr", "lockDeallocate", "checkDeallocated",
                      "recordDeallocation", "unmap", "lockFreeSlot", "freeSlot"}
           => slot[t] = GetNearestSlot(ptr[t])
        /\ pc[t] \in {"checkAddr", "lockInvalid", "invalidFree", "lockDeallocate",
                      "checkDeallocated", "doubleFree", "recordDeallocation",
                      "unmap", "lockFreeSlot", "freeSlot", "storeAddress"}
           => ptr[t] \in PoolAddresses
        /\ pc[t] = "checkAddr" => ptr[t] \in issued \cup WildPointers
        /\ pc[t] \in {"lockDeallocate", "checkDeallocated", "recordDeallocation"}
           => ptr[t] \in issued

\* Slots never handed out have blank metadata, and no pointer into them exists.
IssuedInv ==
    /\ \A p \in issued : GetNearestSlot(p) < numAllocations
    /\ \A b \in live : PointerIsMine(b.addr) => b.addr \in issued
    /\ \A n \in Slots : n >= numAllocations => metadata[n].Addr = NULL
    /\ \A n \in Slots : metadata[n].Addr \notin WildPointers

\* A slot that is not in use is marked deallocated, unless this is its first
\* allocation and nobody has a pointer into it yet.
FlagInv ==
    /\ \A i \in 1 .. Len(freeSlots) : metadata[freeSlots[i]].IsDeallocated
    /\ \A t \in Threads : Releasing(t) => metadata[slot[t]].IsDeallocated
    /\ \A t \in Threads : Acquiring(t) =>
          \/ metadata[slot[t]].IsDeallocated
          \/ /\ \A p \in issued : GetNearestSlot(p) # slot[t]
             /\ \A u \in Threads : pc[u] = "return" => slot[u] # slot[t]
    /\ \A t \in Threads :
          pc[t] = "recordDeallocation" => ~ metadata[slot[t]].IsDeallocated
    /\ \A t \in Threads : pc[t] # "recordAddr"

\* Which pages are mapped.
PageInv ==
    /\ UnmappedIsRecorded
    /\ FreePagesAreInaccessible
    /\ \A t \in Threads :
          /\ pc[t] \in {"record", "recordFlag"} => SlotToAddr(slot[t]) \in accessible
          /\ pc[t] \in {"lockFreeSlot", "freeSlot"}
             => SlotToAddr(slot[t]) \notin accessible

IndInv ==
    /\ TypeOK
    /\ MutexInv
    /\ ChoiceInv
    /\ RequestInv
    /\ PointerInv
    /\ IssuedInv
    /\ SlotExclusive
    /\ FlagInv
    /\ PageInv

-------------------------------------------------------------------------------
\* What TypeOK says about slot numbers.
LEMMA SlotTypes ==
    ASSUME TypeOK
    PROVE  /\ numAllocations \in Nat /\ MaxSimultaneousAllocations \in Nat
           /\ numAllocations <= MaxSimultaneousAllocations
           /\ \A n \in 0 .. numAllocations - 1 : n \in Slots
           /\ numAllocations < MaxSimultaneousAllocations => numAllocations \in Slots
           /\ Len(freeSlots) \in Nat
           /\ \A i \in 1 .. Len(freeSlots) : freeSlots[i] \in Slots
           /\ \A t \in Threads : slot[t] \in Nat
  BY PoolAssumption DEF TypeOK, Slots

LEMMA SwapRemoveProperties ==
    ASSUME NEW S, NEW s \in Seq(S), NEW i \in 1 .. Len(s)
    PROVE  /\ SwapRemove(s, i) \in Seq(S)
           /\ Len(SwapRemove(s, i)) = Len(s) - 1
           /\ \A j \in 1 .. Len(s) - 1 :
                 SwapRemove(s, i)[j] = IF j = i THEN s[Len(s)] ELSE s[j]
<1>1. Len(s) \in Nat /\ Len(s) - 1 \in Nat
  OBVIOUS
<1>2. \A j \in 1 .. Len(s) - 1 : s[j] \in S /\ s[Len(s)] \in S
  BY <1>1
<1> QED BY <1>1, <1>2 DEF SwapRemove

\* ... which leaves the other entries, each once.
LEMMA SwapRemoveEntries ==
    ASSUME NEW S, NEW s \in Seq(S), NEW k \in 1 .. Len(s),
           \A i, j \in 1 .. Len(s) : i # j => s[i] # s[j]
    PROVE  /\ SwapRemove(s, k) \in Seq(S)
           /\ Len(SwapRemove(s, k)) = Len(s) - 1
           /\ \A i \in 1 .. Len(s) - 1 :
                 /\ SwapRemove(s, k)[i] # s[k]
                 /\ \E j \in 1 .. Len(s) : SwapRemove(s, k)[i] = s[j]
           /\ \A i, j \in 1 .. Len(s) - 1 :
                 i # j => SwapRemove(s, k)[i] # SwapRemove(s, k)[j]
<1>1. Len(s) \in Nat \ {0} /\ Len(s) \in 1 .. Len(s)
  OBVIOUS
<1>2. /\ SwapRemove(s, k) \in Seq(S)
      /\ Len(SwapRemove(s, k)) = Len(s) - 1
      /\ \A j \in 1 .. Len(s) - 1 :
            SwapRemove(s, k)[j] = IF j = k THEN s[Len(s)] ELSE s[j]
  BY SwapRemoveProperties
<1> DEFINE z == SwapRemove(s, k)
<1>3. ASSUME NEW i \in 1 .. Len(s) - 1
      PROVE  \E j \in 1 .. Len(s) :
                 j # k /\ z[i] = s[j] /\ j = IF i = k THEN Len(s) ELSE i
  <2>1. CASE i = k
    <3>1. z[i] = s[Len(s)] /\ Len(s) # k
      BY <1>1, <1>2, <2>1
    <3> QED BY <1>1, <2>1, <3>1
  <2>2. CASE i # k
    <3>1. z[i] = s[i] /\ i \in 1 .. Len(s)
      BY <1>1, <1>2, <2>2
    <3> QED BY <2>2, <3>1
  <2> QED BY <2>1, <2>2
<1> HIDE DEF z
<1>4. \A i \in 1 .. Len(s) - 1 : z[i] # s[k] /\ \E j \in 1 .. Len(s) : z[i] = s[j]
  BY <1>3
<1>5. \A i, j \in 1 .. Len(s) - 1 : i # j => z[i] # z[j]
  BY <1>1, <1>3
<1> QED
  BY <1>2, <1>4, <1>5 DEF z

LEMMA DeallocatingSlot ==
    ASSUME TypeOK, PointerInv, NEW u \in Threads,
           pc[u] \in {"checkAddr", "lockDeallocate", "checkDeallocated",
                      "recordDeallocation", "unmap", "lockFreeSlot", "freeSlot"}
    PROVE  slot[u] \in Slots /\ GetNearestSlot(ptr[u]) = slot[u] /\ ptr[u] \in PoolAddresses
<1>1. ptr[u] \in PoolAddresses /\ slot[u] = GetNearestSlot(ptr[u])
  BY DEF PointerInv
<1> QED BY <1>1, NearestIsSlot

\* The block made of an address and a request.
LEMMA BlockType ==
    ASSUME NEW a \in Nat, NEW r \in [size : Nat, alignment : Nat]
    PROVE  /\ Block(a, r) \in Blocks
           /\ Block(a, r).addr = a /\ Block(a, r).size = EffectiveSize(r)
           /\ Block(a, r).alignment = EffectiveAlignment(r)
<1>1. EffectiveSize(r) \in Nat /\ EffectiveAlignment(r) \in Nat
  BY AlignmentAssumption, PoolAssumption DEF EffectiveSize, EffectiveAlignment
<1> QED BY <1>1 DEF Block, Blocks

\* A thread outside allocate has NoRequest, which has the form of a request.
LEMMA RequestType ==
    ASSUME TypeOK, NEW t \in Threads
    PROVE  req[t] \in [size : Nat, alignment : Nat]
BY ClientAssumption DEF TypeOK, NoRequest

LEMMA AllocateInd ==
    ASSUME IndInv, NEW t \in Threads, NEW r \in Requests, Allocate(t, r)
    PROVE  IndInv'
<1> USE ClientAssumption
    DEF IndInv, Allocate, At, Goto, poolVars, errorVars, localVars, clientVars
<1>1. TypeOK'
  BY DEF TypeOK, PCs
<1>2. MutexInv'
  BY DEF MutexInv, CriticalSection, TypeOK
<1>3. ChoiceInv'
  BY DEF ChoiceInv, MutexInv, CriticalSection, TypeOK
<1>4. RequestInv'
  BY DEF RequestInv, TypeOK
<1>5. PointerInv'
  BY DEF PointerInv, TypeOK
<1>6. IssuedInv'
  BY DEF IssuedInv, TypeOK
<1>7. SlotExclusive'
  BY DEF SlotExclusive, InTransit, Acquiring, Releasing, TypeOK
<1>8. FlagInv'
  BY DEF FlagInv, Acquiring, Releasing, TypeOK
<1>9. PageInv'
  BY DEF PageInv, UnmappedIsRecorded, FreePagesAreInaccessible, TypeOK
<1> QED BY <1>1, <1>2, <1>3, <1>4, <1>5, <1>6, <1>7, <1>8, <1>9

LEMMA LockReserveInd ==
    ASSUME IndInv, NEW t \in Threads, LockReserve(t)
    PROVE  IndInv'
<1> USE ClientAssumption
    DEF IndInv, LockReserve, At, Goto, poolVars, errorVars, localVars, clientVars, Lock
<1>1. TypeOK'
  BY DEF TypeOK, PCs
<1>2. MutexInv'
  BY DEF MutexInv, CriticalSection, TypeOK
<1>3. ChoiceInv'
  BY DEF ChoiceInv, MutexInv, CriticalSection, TypeOK
<1>4. RequestInv'
  BY DEF RequestInv, TypeOK
<1>5. PointerInv'
  BY DEF PointerInv, TypeOK
<1>6. IssuedInv'
  BY DEF IssuedInv, TypeOK
<1>7. SlotExclusive'
  BY DEF SlotExclusive, InTransit, Acquiring, Releasing, TypeOK
<1>8. FlagInv'
  BY DEF FlagInv, Acquiring, Releasing, TypeOK
<1>9. PageInv'
  BY DEF PageInv, UnmappedIsRecorded, FreePagesAreInaccessible, TypeOK
<1> QED BY <1>1, <1>2, <1>3, <1>4, <1>5, <1>6, <1>7, <1>8, <1>9

LEMMA ReserveSlotInd ==
    ASSUME IndInv, NEW t \in Threads, ReserveSlot(t)
    PROVE  IndInv'
<1> USE ClientAssumption
    DEF IndInv, ReserveSlot, At, Goto, poolVars, errorVars, localVars, clientVars, Unlock
<1>0. /\ slot' \in [Threads -> Slots \cup {0}] /\ index' \in [Threads -> Nat]
      /\ \A u \in Threads : u # t => slot'[u] = slot[u] /\ pc'[u] = pc[u]
      /\ pc'[t] \in {"removeSlot", "malloc"} /\ pc' \in [Threads -> PCs]
      /\ mutex' \in {mutex, NoThread}
  <2>a. PICK c \in {"removeSlot", "malloc"} : pc' = [pc EXCEPT ![t] = c]
    OBVIOUS
  <2>b. /\ \A u \in Threads : u # t => pc'[u] = pc[u]
        /\ pc'[t] \in {"removeSlot", "malloc"} /\ pc' \in [Threads -> PCs]
    BY <2>a DEF TypeOK, PCs
  <2>c. mutex' \in {mutex, NoThread}
    OBVIOUS
  <2>1. CASE numAllocations < MaxSimultaneousAllocations
    <3>1. numAllocations \in Slots
      BY <2>1, SlotTypes
    <3>2. slot' = [slot EXCEPT ![t] = numAllocations] /\ index' = [index EXCEPT ![t] = 0]
      BY <2>1, SlotTypes
    <3>3. slot' \in [Threads -> Slots \cup {0}] /\ index' \in [Threads -> Nat]
      BY <3>1, <3>2 DEF TypeOK
    <3>4. \A u \in Threads : u # t => slot'[u] = slot[u]
      BY <3>2 DEF TypeOK
    <3> QED BY <2>b, <2>c, <3>3, <3>4
  <2>2. CASE slot' = slot /\ index' = index
    BY <2>b, <2>c, <2>2 DEF TypeOK
  <2>3. CASE \E i \in 1 .. Len(freeSlots) :
                /\ slot' = [slot EXCEPT ![t] = freeSlots[i]]
                /\ index' = [index EXCEPT ![t] = i]
    <3>1. PICK i \in 1 .. Len(freeSlots) :
                /\ slot' = [slot EXCEPT ![t] = freeSlots[i]]
                /\ index' = [index EXCEPT ![t] = i]
      BY <2>3
    <3>2. i \in Nat /\ freeSlots[i] \in Slots
      BY SlotTypes
    <3>3. slot' \in [Threads -> Slots \cup {0}] /\ index' \in [Threads -> Nat]
      BY <3>1, <3>2 DEF TypeOK
    <3>4. \A u \in Threads : u # t => slot'[u] = slot[u]
      BY <3>1 DEF TypeOK
    <3> QED BY <2>b, <2>c, <3>3, <3>4
  <2> QED BY <2>1, <2>2, <2>3, Zenon
<1>1. TypeOK'
  BY <1>0 DEF TypeOK
<1>2. MutexInv'
  BY DEF MutexInv, CriticalSection, TypeOK
<1>3. ChoiceInv'
  BY DEF ChoiceInv, MutexInv, CriticalSection, TypeOK
<1>4. RequestInv'
  BY DEF RequestInv, TypeOK
<1>5. PointerInv'
  BY DEF PointerInv, TypeOK
<1>6. IssuedInv'
  BY DEF IssuedInv, TypeOK
<1>7. SlotExclusive'
  <2>1. \A u \in Threads : InTransit(u)' => InTransit(u) /\ slot'[u] = slot[u]
    BY <1>0 DEF InTransit, Acquiring, Releasing, TypeOK
  <2> QED BY <2>1 DEF SlotExclusive
<1>8. FlagInv'
  <2>1. \A u \in Threads :
           /\ Acquiring(u)' => Acquiring(u) /\ slot'[u] = slot[u]
           /\ Releasing(u)' => Releasing(u) /\ slot'[u] = slot[u]
           /\ pc'[u] \in {"return", "recordDeallocation", "recordAddr"}
              => pc'[u] = pc[u] /\ slot'[u] = slot[u]
    BY <1>0 DEF Acquiring, Releasing, TypeOK
  <2> QED BY <2>1 DEF FlagInv
<1>9. PageInv'
  BY DEF PageInv, UnmappedIsRecorded, FreePagesAreInaccessible, TypeOK
<1> QED BY <1>1, <1>2, <1>3, <1>4, <1>5, <1>6, <1>7, <1>8, <1>9

LEMMA RemoveSlotInd ==
    ASSUME IndInv, NEW t \in Threads, RemoveSlot(t)
    PROVE  IndInv'
<1> USE ClientAssumption
    DEF IndInv, RemoveSlot, At, Goto, poolVars, errorVars, localVars, clientVars, Unlock
<1>0. /\ slot[t] \in Slots /\ slot[t] < numAllocations'
      /\ numAllocations' \in {numAllocations, numAllocations + 1}
      /\ numAllocations' = numAllocations + 1 => slot[t] = numAllocations
      /\ numAllocations' <= MaxSimultaneousAllocations
      /\ freeSlots' \in Seq(Slots)
      /\ \A i \in 1 .. Len(freeSlots') :
            /\ freeSlots'[i] # slot[t] /\ freeSlots'[i] < numAllocations
            /\ \E j \in 1 .. Len(freeSlots) : freeSlots'[i] = freeSlots[j]
      /\ \A i, j \in 1 .. Len(freeSlots') : i # j => freeSlots'[i] # freeSlots'[j]
      /\ \/ slot[t] = numAllocations
         \/ /\ metadata[slot[t]].IsDeallocated
            /\ \E j \in 1 .. Len(freeSlots) : freeSlots[j] = slot[t]
  <2>1. CASE index[t] = 0
    <3>1. slot[t] = numAllocations /\ numAllocations < MaxSimultaneousAllocations
      BY <2>1, SlotTypes DEF ChoiceInv
    <3>2. numAllocations' = numAllocations + 1 /\ freeSlots' = freeSlots
      BY <2>1, <3>1
    <3> QED BY <3>1, <3>2, SlotTypes DEF SlotExclusive, TypeOK, Slots
  <2>2. CASE index[t] # 0
    <3>1. index[t] \in 1 .. Len(freeSlots) /\ slot[t] = freeSlots[index[t]]
      BY <2>2 DEF ChoiceInv
    <3>2. freeSlots' = SwapRemove(freeSlots, index[t]) /\ numAllocations' = numAllocations
      BY <2>2
    <3> freeSlots \in Seq(Slots)
      BY DEF TypeOK
    <3>3. \A i, j \in 1 .. Len(freeSlots) : i # j => freeSlots[i] # freeSlots[j]
      BY DEF SlotExclusive
    <3>4. /\ freeSlots' \in Seq(Slots)
          /\ Len(freeSlots') = Len(freeSlots) - 1
          /\ \A i \in 1 .. Len(freeSlots) - 1 :
                /\ freeSlots'[i] # slot[t]
                /\ \E j \in 1 .. Len(freeSlots) : freeSlots'[i] = freeSlots[j]
          /\ \A i, j \in 1 .. Len(freeSlots) - 1 : i # j => freeSlots'[i] # freeSlots'[j]
      <4> DEFINE s == freeSlots
                 k == index[t]
      <4>1. /\ s \in Seq(Slots) /\ k \in 1 .. Len(s)
            /\ \A i, j \in 1 .. Len(s) : i # j => s[i] # s[j]
        BY <3>1, <3>3
      <4> HIDE DEF s, k
      <4>2. /\ SwapRemove(s, k) \in Seq(Slots)
            /\ Len(SwapRemove(s, k)) = Len(s) - 1
            /\ \A i \in 1 .. Len(s) - 1 :
                  /\ SwapRemove(s, k)[i] # s[k]
                  /\ \E j \in 1 .. Len(s) : SwapRemove(s, k)[i] = s[j]
            /\ \A i, j \in 1 .. Len(s) - 1 :
                  i # j => SwapRemove(s, k)[i] # SwapRemove(s, k)[j]
        BY <4>1, SwapRemoveEntries
      <4> QED BY <3>1, <3>2, <4>2 DEF s, k
    <3>7. \A i \in 1 .. Len(freeSlots') : freeSlots'[i] < numAllocations
      BY <3>4 DEF SlotExclusive
    <3>9. /\ slot[t] \in Slots /\ slot[t] < numAllocations
          /\ metadata[slot[t]].IsDeallocated
      BY <3>1, SlotTypes DEF SlotExclusive, FlagInv
    <3> QED BY <3>1, <3>2, <3>4, <3>7, <3>9, SlotTypes
  <2> QED BY <2>1, <2>2
<1>1. TypeOK'
  BY <1>0, SlotTypes DEF TypeOK, PCs
<1>2. MutexInv'
  BY DEF MutexInv, CriticalSection, TypeOK
<1>3. ChoiceInv'
  BY DEF ChoiceInv, MutexInv, CriticalSection, TypeOK
<1>4. RequestInv'
  BY <1>0, SlotTypes DEF RequestInv, TypeOK
<1>5. PointerInv'
  BY DEF PointerInv, TypeOK
<1>6. IssuedInv'
  BY <1>0, SlotTypes, NearestIsSlot DEF IssuedInv, TypeOK, Slots
<1>7. SlotExclusive'
  <2>1. \A u \in Threads : u # t /\ InTransit(u)' =>
           /\ InTransit(u) /\ slot'[u] = slot[u] /\ slot[u] # slot[t]
    <3>1. \A u \in Threads : u # t /\ InTransit(u)' => InTransit(u) /\ slot'[u] = slot[u]
      BY DEF InTransit, Acquiring, Releasing, TypeOK
    <3>2. \A u \in Threads : InTransit(u) => slot[u] # slot[t]
      BY <1>0, SlotTypes DEF SlotExclusive
    <3> QED BY <3>1, <3>2
  <2>2. pc'[t] = "mapSlot" /\ slot'[t] = slot[t]
    BY DEF TypeOK
  <2>3. numAllocations <= numAllocations' /\ numAllocations' \in Nat
    BY <1>0, SlotTypes
  <2>4. \A i, j \in 1 .. Len(freeSlots') : i # j => freeSlots'[i] # freeSlots'[j]
    BY <1>0
  <2>5. \A i \in 1 .. Len(freeSlots') : freeSlots'[i] < numAllocations'
    <3>1. \A i \in 1 .. Len(freeSlots') : freeSlots'[i] < numAllocations
      BY <1>0
    <3>2. \A i \in 1 .. Len(freeSlots') : freeSlots'[i] \in Slots
      BY ONLY <1>0
    <3> QED BY <2>3, <3>1, <3>2, SlotTypes DEF Slots
  <2>6. ASSUME NEW u \in Threads, InTransit(u)'
        PROVE  /\ slot'[u] < numAllocations'
               /\ \A i \in 1 .. Len(freeSlots') : freeSlots'[i] # slot'[u]
    <3>1. CASE u = t
      BY <1>0, <2>2, <3>1
    <3>2. CASE u # t
      <4>1. InTransit(u) /\ slot'[u] = slot[u]
        BY <2>1, <2>6, <3>2
      <4>2. slot[u] < numAllocations /\ slot[u] \in Nat
        BY <4>1, SlotTypes DEF SlotExclusive
      <4>3. \A i \in 1 .. Len(freeSlots) : freeSlots[i] # slot[u]
        BY <4>1 DEF SlotExclusive
      <4> QED BY <1>0, <2>3, <4>1, <4>2, <4>3, SlotTypes
    <3> QED BY <3>1, <3>2
  <2>7. \A u, w \in Threads :
           u # w /\ InTransit(u)' /\ InTransit(w)' => slot'[u] # slot'[w]
    <3>1. \A u, w \in Threads :
             u # w /\ InTransit(u) /\ InTransit(w) => slot[u] # slot[w]
      BY DEF SlotExclusive
    <3> QED BY <2>1, <2>2, <3>1
  <2> QED BY <2>4, <2>5, <2>6, <2>7 DEF SlotExclusive
<1>8. FlagInv'
  <2>1. \A i \in 1 .. Len(freeSlots') : metadata'[freeSlots'[i]].IsDeallocated
    BY <1>0 DEF FlagInv
  <2>2. \A u \in Threads : u # t =>
           /\ Acquiring(u)' => Acquiring(u)
           /\ Releasing(u)' => Releasing(u)
           /\ pc'[u] = pc[u] /\ slot'[u] = slot[u]
    BY DEF Acquiring, Releasing, TypeOK
  <2>3. pc'[t] = "mapSlot" /\ slot'[t] = slot[t]
    BY DEF TypeOK
  <2>4. slot[t] = numAllocations =>
           /\ \A p \in issued : GetNearestSlot(p) # slot[t]
           /\ \A u \in Threads : pc'[u] = "return" => slot'[u] # slot[t]
    BY <1>0, <2>2, <2>3, SlotTypes, NearestIsSlot DEF IssuedInv, RequestInv, TypeOK, Slots
  <2> QED BY <1>0, <2>1, <2>2, <2>3, <2>4 DEF FlagInv, Acquiring, Releasing
<1>9. PageInv'
  <2>1. \A u \in Threads : pc'[u] \in {"record", "recordFlag", "lockFreeSlot", "freeSlot"}
           => pc'[u] = pc[u] /\ slot'[u] = slot[u]
    BY DEF TypeOK
  <2>2. \A i \in 1 .. Len(freeSlots') : SlotToAddr(freeSlots'[i]) \notin accessible
    BY <1>0 DEF PageInv, FreePagesAreInaccessible
  <2> QED BY <2>1, <2>2 DEF PageInv, UnmappedIsRecorded, FreePagesAreInaccessible
<1> QED BY <1>1, <1>2, <1>3, <1>4, <1>5, <1>6, <1>7, <1>8, <1>9

LEMMA MapSlotInd ==
    ASSUME IndInv, NEW t \in Threads, MapSlot(t)
    PROVE  IndInv'
<1> USE ClientAssumption
    DEF IndInv, MapSlot, At, Goto, poolVars, errorVars, localVars, clientVars
<1> DEFINE n == slot[t]
<1>0. /\ n \in Slots
      /\ \E p \in PoolAddresses \cap UserPointers(n, req[t]) :
            ptr' = [ptr EXCEPT ![t] = p]
      /\ accessible' = accessible \cup {SlotToAddr(n)}
      /\ SlotToAddr(n) \in PoolAddresses
  <2>1. n \in Slots /\ req[t] \in [size : Nat, alignment : Nat] /\ Servable(req[t])
    BY SlotTypes DEF SlotExclusive, InTransit, Acquiring, RequestInv
  <2>2. ASSUME NEW p \in UserPointers(n, req[t])
        PROVE  p \in PoolAddresses /\ PagesOf(p, req[t]) = {SlotToAddr(n)}
    <3>1. p \in SlotToAddr(n) .. SlotToAddr(n) + PageSize - 1
      BY <2>1, UserPointerInSlot, SlotInPool, PoolAssumption
    <3> QED BY <2>1, <3>1, PagesOfUserPointer, SlotPageInPool
  <2> QED BY <2>1, <2>2, SlotInPool
<1>1. TypeOK'
  BY <1>0 DEF TypeOK, PCs
<1>2. MutexInv'
  BY DEF MutexInv, CriticalSection, TypeOK
<1>3. ChoiceInv'
  BY DEF ChoiceInv, MutexInv, CriticalSection, TypeOK
<1>4. RequestInv'
  <2>1. slot[t] < numAllocations
    BY DEF SlotExclusive, InTransit, Acquiring
  <2> QED BY <1>0, <2>1 DEF RequestInv, TypeOK
<1>5. PointerInv'
  BY DEF PointerInv, TypeOK
<1>6. IssuedInv'
  BY DEF IssuedInv, TypeOK
<1>7. SlotExclusive'
  BY DEF SlotExclusive, InTransit, Acquiring, Releasing, TypeOK
<1>8. FlagInv'
  BY DEF FlagInv, Acquiring, Releasing, TypeOK
<1>9. PageInv'
  <2>1. \A i \in 1 .. Len(freeSlots) : SlotToAddr(freeSlots[i]) # SlotToAddr(n)
    BY <1>0, SlotTypes, SlotToAddrInjective DEF SlotExclusive, InTransit, Acquiring
  <2>2. \A u \in Threads : u # t /\ InTransit(u) => SlotToAddr(slot[u]) # SlotToAddr(n)
    BY <1>0, SlotTypes, SlotToAddrInjective DEF SlotExclusive, InTransit, Acquiring
  <2>3. UnmappedIsRecorded' /\ FreePagesAreInaccessible'
    BY <1>0, <2>1 DEF PageInv, UnmappedIsRecorded, FreePagesAreInaccessible
  <2>4. \A u \in Threads : u # t => pc'[u] = pc[u]
    BY DEF TypeOK
  <2>5. pc'[t] = "record"
    BY DEF TypeOK
  <2> QED BY <1>0, <2>2, <2>3, <2>4, <2>5 DEF PageInv, InTransit, Releasing
<1> QED BY <1>1, <1>2, <1>3, <1>4, <1>5, <1>6, <1>7, <1>8, <1>9

LEMMA StoreAddrInd ==
    ASSUME IndInv, NEW t \in Threads, StoreAddr(t)
    PROVE  IndInv'
<1> USE ClientAssumption
    DEF IndInv, StoreAddr, At, Goto, poolVars, errorVars, localVars, clientVars
<1> DEFINE n == slot[t]
<1>0. /\ n \in Slots /\ n < numAllocations /\ Acquiring(t)
      /\ metadata' = [metadata EXCEPT ![n].Addr = ptr[t]]
      /\ \A m \in Slots :
            /\ metadata'[m].Addr = IF m = n THEN ptr[t] ELSE metadata[m].Addr
            /\ metadata'[m].IsDeallocated = metadata[m].IsDeallocated
  <2>1. n \in Slots /\ n < numAllocations /\ Acquiring(t)
    BY SlotTypes DEF SlotExclusive, InTransit, Acquiring
  <2>2. metadata' = [metadata EXCEPT ![n].Addr = ptr[t]]
    <3>1. SlotMeta(t) = n
      BY <2>1, NearestOfSlotStart DEF SlotMeta
    <3> QED BY <3>1, Zenon
  <2>3. metadata \in [Slots -> [Addr : Nat, IsDeallocated : BOOLEAN]]
    BY DEF TypeOK
  <2>4. ASSUME NEW m \in Slots
        PROVE  /\ metadata'[m].Addr = IF m = n THEN ptr[t] ELSE metadata[m].Addr
               /\ metadata'[m].IsDeallocated = metadata[m].IsDeallocated
    <3>1. metadata[m] \in [Addr : Nat, IsDeallocated : BOOLEAN]
      BY <2>3
    <3>2. CASE m = n
      <4>1. metadata'[n] = [metadata[n] EXCEPT !.Addr = ptr[t]]
        BY <2>1, <2>2, <2>3, Zenon
      <4> QED BY <3>1, <3>2, <4>1
    <3>3. CASE m # n
      <4>1. metadata'[m] = metadata[m]
        BY <2>2, <2>3, <3>3, Zenon
      <4> QED BY ONLY <3>3, <4>1
    <3> QED BY <3>2, <3>3
  <2> QED BY <2>1, <2>2, <2>4
<1>a. ptr[t] \in Nat /\ ptr[t] \notin WildPointers /\ ptr[t] \in UserPointers(n, req[t])
      /\ Servable(req[t]) /\ req[t] \in Requests
  <2>1. ptr[t] \in UserPointers(n, req[t]) /\ Servable(req[t]) /\ req[t] \in Requests
    BY DEF RequestInv, FlagInv
  <2> QED BY <1>0, <2>1, UserPointerInSlot
<1>1. TypeOK'
  <2>1. metadata' \in [Slots -> [Addr : Nat, IsDeallocated : BOOLEAN]]
    <3>0. metadata[n] \in [Addr : Nat, IsDeallocated : BOOLEAN]
      BY <1>0 DEF TypeOK
    <3>1. [metadata[n] EXCEPT !.Addr = ptr[t]] \in [Addr : Nat, IsDeallocated : BOOLEAN]
      BY <3>0, <1>a
    <3>2. metadata' = [metadata EXCEPT ![n] = [metadata[n] EXCEPT !.Addr = ptr[t]]]
      BY <1>0, Zenon
    <3> QED BY <1>0, <3>1, <3>2 DEF TypeOK
  <2>2. pc' \in [Threads -> PCs]
    BY DEF TypeOK, PCs
  <2> QED BY <2>1, <2>2 DEF TypeOK
<1>2. MutexInv'
  BY DEF MutexInv, CriticalSection, TypeOK
<1>3. ChoiceInv'
  BY DEF ChoiceInv, MutexInv, CriticalSection, TypeOK
<1>4. RequestInv'
  BY <1>0 DEF RequestInv, FlagInv, TypeOK
<1>5. PointerInv'
  BY DEF PointerInv, TypeOK
<1>6. IssuedInv'
  BY <1>0, <1>a, SlotTypes DEF IssuedInv, Slots
<1>7. SlotExclusive'
  <2>1. \A u \in Threads : InTransit(u)' => InTransit(u)
    BY <1>0 DEF InTransit, Acquiring, Releasing, TypeOK
  <2> QED BY <2>1 DEF SlotExclusive
<1>8. FlagInv'
  BY DEF FlagInv, Acquiring, Releasing, TypeOK
<1>9. PageInv'
  <2>1. SlotToAddr(n) \in accessible
    BY DEF PageInv, FlagInv
  <2>2. UnmappedIsRecorded' /\ FreePagesAreInaccessible'
    BY <1>0, <2>1 DEF PageInv, UnmappedIsRecorded, FreePagesAreInaccessible
  <2> QED BY <2>1, <2>2 DEF PageInv, TypeOK
<1> QED BY <1>1, <1>2, <1>3, <1>4, <1>5, <1>6, <1>7, <1>8, <1>9

LEMMA StoreFlagInd ==
    ASSUME IndInv, StoresInOrder, NEW t \in Threads, StoreFlag(t)
    PROVE  IndInv'
<1> USE ClientAssumption
    DEF IndInv, StoreFlag, At, Goto, poolVars, errorVars, localVars, clientVars
<1> DEFINE n == slot[t]
<1>0. /\ n \in Slots /\ n < numAllocations /\ Acquiring(t)
      /\ metadata' = [metadata EXCEPT ![n].IsDeallocated = FALSE]
      /\ \A m \in Slots :
            /\ metadata'[m].IsDeallocated = IF m = n THEN FALSE ELSE metadata[m].IsDeallocated
            /\ metadata'[m].Addr = metadata[m].Addr
  <2>1. n \in Slots /\ n < numAllocations /\ Acquiring(t)
    BY SlotTypes DEF SlotExclusive, InTransit, Acquiring
  <2>2. metadata' = [metadata EXCEPT ![n].IsDeallocated = FALSE]
    <3>1. SlotMeta(t) = n
      BY <2>1, NearestOfSlotStart DEF SlotMeta
    <3> QED BY <3>1, Zenon
  <2>3. metadata \in [Slots -> [Addr : Nat, IsDeallocated : BOOLEAN]]
    BY DEF TypeOK
  <2>4. ASSUME NEW m \in Slots
        PROVE  /\ metadata'[m].IsDeallocated = IF m = n THEN FALSE ELSE metadata[m].IsDeallocated
               /\ metadata'[m].Addr = metadata[m].Addr
    <3>1. metadata[m] \in [Addr : Nat, IsDeallocated : BOOLEAN]
      BY <2>3
    <3>2. CASE m = n
      <4>1. metadata'[n] = [metadata[n] EXCEPT !.IsDeallocated = FALSE]
        BY <2>1, <2>2, <2>3, Zenon
      <4> QED BY <3>1, <3>2, <4>1
    <3>3. CASE m # n
      <4>1. metadata'[m] = metadata[m]
        BY <2>2, <2>3, <3>3, Zenon
      <4> QED BY ONLY <3>3, <4>1
    <3> QED BY <3>2, <3>3
  <2> QED BY <2>1, <2>2, <2>4
<1>1. TypeOK'
  <2>1. metadata' \in [Slots -> [Addr : Nat, IsDeallocated : BOOLEAN]]
    <3>0. metadata[n] \in [Addr : Nat, IsDeallocated : BOOLEAN]
      BY <1>0 DEF TypeOK
    <3>1. [metadata[n] EXCEPT !.IsDeallocated = FALSE] \in [Addr : Nat, IsDeallocated : BOOLEAN]
      BY <3>0
    <3>2. metadata' = [metadata EXCEPT ![n] = [metadata[n] EXCEPT !.IsDeallocated = FALSE]]
      BY <1>0, Zenon
    <3> QED BY <1>0, <3>1, <3>2 DEF TypeOK
  <2>2. pc' \in [Threads -> PCs]
    BY DEF TypeOK, PCs
  <2> QED BY <2>1, <2>2 DEF TypeOK
<1>2. MutexInv'
  BY DEF MutexInv, CriticalSection, TypeOK
<1>3. ChoiceInv'
  BY DEF ChoiceInv, MutexInv, CriticalSection, TypeOK
<1>4. RequestInv'
  BY DEF RequestInv, TypeOK
<1>5. PointerInv'
  BY DEF PointerInv, TypeOK
<1>6. IssuedInv'
  BY DEF IssuedInv, TypeOK
<1>7. SlotExclusive'
  <2>1. \A u \in Threads : InTransit(u)' => InTransit(u)
    BY <1>0 DEF InTransit, Acquiring, Releasing, TypeOK
  <2> QED BY <2>1 DEF SlotExclusive
<1>8. FlagInv'
  <2>1. /\ \A i \in 1 .. Len(freeSlots) : freeSlots[i] \in Slots /\ freeSlots[i] # n
        /\ \A u \in Threads : u # t /\ InTransit(u) => slot[u] \in Slots /\ slot[u] # n
    BY <1>0, SlotTypes DEF SlotExclusive, InTransit
  <2>2. \A u \in Threads : u # t =>
           /\ pc'[u] = pc[u]
           /\ Acquiring(u)' => Acquiring(u)
           /\ Releasing(u)' => Releasing(u)
    BY DEF Acquiring, Releasing, TypeOK
  <2>3. pc'[t] = "return"
    BY DEF TypeOK
  <2>4. ASSUME NEW u \in Threads, pc[u] = "recordDeallocation"
        PROVE  slot[u] \in Slots
    BY <2>4, DeallocatingSlot
  <2>5. \A i \in 1 .. Len(freeSlots) : metadata'[freeSlots[i]].IsDeallocated
    BY <1>0, <2>1 DEF FlagInv
  <2>6. \A u \in Threads : Releasing(u)' => metadata'[slot[u]].IsDeallocated
    <3>1. \A u \in Threads : Releasing(u)' => u # t /\ Releasing(u)
      BY <2>2, <2>3 DEF Releasing
    <3> QED BY <1>0, <2>1, <3>1 DEF FlagInv, InTransit
  <2>7. ASSUME NEW u \in Threads, Acquiring(u)'
        PROVE  \/ metadata'[slot[u]].IsDeallocated
               \/ /\ \A p \in issued : GetNearestSlot(p) # slot[u]
                  /\ \A w \in Threads : pc'[w] = "return" => slot[w] # slot[u]
    <3>1. u # t /\ Acquiring(u) /\ slot[u] # n /\ slot[u] \in Slots
      BY <2>1, <2>2, <2>3, <2>7 DEF Acquiring, InTransit
    <3>2. \/ metadata[slot[u]].IsDeallocated
          \/ /\ \A p \in issued : GetNearestSlot(p) # slot[u]
             /\ \A w \in Threads : pc[w] = "return" => slot[w] # slot[u]
      BY <3>1 DEF FlagInv
    <3> QED BY <1>0, <2>2, <3>1, <3>2
  <2>8. \A u \in Threads : pc'[u] = "recordDeallocation" => ~ metadata'[slot[u]].IsDeallocated
    BY <1>0, <2>2, <2>3, <2>4 DEF FlagInv
  <2>9. \A u \in Threads : pc'[u] # "recordAddr"
    BY <2>2, <2>3 DEF FlagInv
  <2> QED BY <2>5, <2>6, <2>7, <2>8, <2>9 DEF FlagInv
<1>9. PageInv'
  <2>1. SlotToAddr(n) \in accessible
    BY DEF PageInv
  <2>2. UnmappedIsRecorded' /\ FreePagesAreInaccessible'
    BY <1>0, <2>1 DEF PageInv, UnmappedIsRecorded, FreePagesAreInaccessible
  <2> QED BY <2>2 DEF PageInv, TypeOK
<1> QED BY <1>1, <1>2, <1>3, <1>4, <1>5, <1>6, <1>7, <1>8, <1>9

LEMMA ReturnInd ==
    ASSUME IndInv, NEW t \in Threads, Return(t)
    PROVE  IndInv'
<1> USE ClientAssumption
    DEF IndInv, Return, At, Goto, poolVars, errorVars, localVars, clientVars, ReturnFromCall
<1> DEFINE n == slot[t]
           b == Block(ptr[t], req[t])
<1>0. /\ n \in Slots /\ n < numAllocations
      /\ ptr[t] \in PoolAddresses /\ GetNearestSlot(ptr[t]) = n
      /\ b \in Blocks /\ b.addr = ptr[t]
  <2>1. /\ n \in Slots /\ n < numAllocations
        /\ req[t] \in [size : Nat, alignment : Nat] /\ Servable(req[t])
        /\ ptr[t] \in UserPointers(n, req[t])
    BY SlotTypes DEF RequestInv
  <2>2. /\ ptr[t] \in SlotToAddr(n) .. SlotToAddr(n) + PageSize - 1
        /\ ptr[t] \in Nat
    BY <2>1, UserPointerInSlot, SlotInPool, PoolAssumption
  <2>3. b \in Blocks /\ b.addr = ptr[t]
    BY <2>1, <2>2, BlockType
  <2> QED BY <2>1, <2>2, <2>3, NearestInSlot, SlotPageInPool
<1> HIDE DEF b
<1>b. live' = live \cup {b}
  BY DEF b
<1>1. TypeOK'
  <2>1. NULL \in PoolAddresses \cup {NULL} /\ "idle" \in PCs
    BY DEF PCs
  <2> QED BY <1>0, <1>b, <2>1 DEF TypeOK
<1>2. MutexInv'
  BY DEF MutexInv, CriticalSection, TypeOK
<1>3. ChoiceInv'
  BY DEF ChoiceInv, MutexInv, CriticalSection, TypeOK
<1>4. RequestInv'
  BY DEF RequestInv, TypeOK
<1>5. PointerInv'
  BY DEF PointerInv, TypeOK
<1>6. IssuedInv'
  <2>1. \A p \in issued' : GetNearestSlot(p) < numAllocations
    BY <1>0 DEF IssuedInv
  <2>2. \A c \in live' : PointerIsMine(c.addr) => c.addr \in issued'
    BY <1>0, <1>b DEF IssuedInv
  <2> QED BY <2>1, <2>2 DEF IssuedInv
<1>7. SlotExclusive'
  BY DEF SlotExclusive, InTransit, Acquiring, Releasing, TypeOK
<1>8. FlagInv'
  <2>1. pc'[t] = "idle" /\ \A u \in Threads : u # t => pc'[u] = pc[u] /\ slot'[u] = slot[u]
    BY DEF TypeOK
  <2>2. ASSUME NEW u \in Threads, Acquiring(u)'
        PROVE  \/ metadata[slot[u]].IsDeallocated
               \/ /\ \A p \in issued' : GetNearestSlot(p) # slot[u]
                  /\ \A w \in Threads : pc[w] = "return" => slot[w] # slot[u]
    BY <1>0, <2>1, <2>2 DEF FlagInv, Acquiring
  <2> QED BY <2>1, <2>2 DEF FlagInv, Acquiring, Releasing
<1>9. PageInv'
  BY DEF PageInv, UnmappedIsRecorded, FreePagesAreInaccessible, TypeOK
<1> QED BY <1>1, <1>2, <1>3, <1>4, <1>5, <1>6, <1>7, <1>8, <1>9

LEMMA MallocInd ==
    ASSUME IndInv, NEW t \in Threads, Malloc(t)
    PROVE  IndInv'
<1> USE ClientAssumption
    DEF IndInv, Malloc, At, Goto, poolVars, errorVars, localVars, clientVars, ReturnFromCall
<1>1. TypeOK'
  <2>2. live' \subseteq Blocks
    <3>1. \A a \in HeapAddresses : Block(a, req[t]) \in Blocks
      BY RequestType, BlockType
    <3>2. \/ live' = live
          \/ \E a \in HeapAddresses : live' = live \cup {Block(a, req[t])}
      OBVIOUS
    <3>3. live \subseteq Blocks
      BY DEF TypeOK
    <3> QED BY ONLY <3>1, <3>2, <3>3
  <2>3. NULL \in PoolAddresses \cup {NULL} /\ "idle" \in PCs
    BY DEF PCs
  <2> QED BY <2>2, <2>3 DEF TypeOK
<1>2. MutexInv'
  BY DEF MutexInv, CriticalSection, TypeOK
<1>3. ChoiceInv'
  BY DEF ChoiceInv, MutexInv, CriticalSection, TypeOK
<1>4. RequestInv'
  BY DEF RequestInv, TypeOK
<1>5. PointerInv'
  BY DEF PointerInv, TypeOK
<1>6. IssuedInv'
  <2>1. \A a \in HeapAddresses : ~ PointerIsMine(a)
    BY PoolAssumption DEF PointerIsMine, PoolAddresses, GuardedPagePoolEnd
  <2>2. \A c \in live' : PointerIsMine(c.addr) => c \in live
    <3>1. \A a \in HeapAddresses : ~ PointerIsMine(Block(a, req[t]).addr)
      BY <2>1, RequestType, BlockType
    <3>2. \/ live' = live
          \/ \E a \in HeapAddresses : live' = live \cup {Block(a, req[t])}
      OBVIOUS
    <3> QED BY ONLY <3>1, <3>2
  <2> QED BY <2>2 DEF IssuedInv
<1>7. SlotExclusive'
  BY DEF SlotExclusive, InTransit, Acquiring, Releasing, TypeOK
<1>8. FlagInv'
  BY DEF FlagInv, Acquiring, Releasing, TypeOK
<1>9. PageInv'
  BY DEF PageInv, UnmappedIsRecorded, FreePagesAreInaccessible, TypeOK
<1> QED BY <1>1, <1>2, <1>3, <1>4, <1>5, <1>6, <1>7, <1>8, <1>9

LEMMA DeallocateInd ==
    ASSUME IndInv, NEW t \in Threads, NEW p \in Nat,
           PointerIsMine(p) => p \in issued \cup WildPointers, Deallocate(t, p)
    PROVE  IndInv'
<1> USE ClientAssumption
    DEF IndInv, Deallocate, At, Goto, poolVars, errorVars, localVars, clientVars
<1>0. /\ PointerIsMine(p) => p \in PoolAddresses /\ GetNearestSlot(p) \in Slots
      /\ live' \subseteq live
  <2>1. PointerIsMine(p) => p \in PoolAddresses
    BY DEF TypeOK
  <2> QED BY <2>1, NearestIsSlot
<1>1. TypeOK'
  <2>1. ASSUME PointerIsMine(p)
        PROVE  /\ pc' \in [Threads -> PCs]
               /\ slot' \in [Threads -> Slots \cup {0}]
               /\ ptr' \in [Threads -> PoolAddresses \cup {NULL}]
    <3>1. /\ pc' = [pc EXCEPT ![t] = "checkAddr"]
          /\ slot' = [slot EXCEPT ![t] = GetNearestSlot(p)]
          /\ ptr' = [ptr EXCEPT ![t] = p]
      BY <2>1
    <3>2. "checkAddr" \in PCs /\ p \in PoolAddresses /\ GetNearestSlot(p) \in Slots
      BY <1>0, <2>1 DEF PCs
    <3> QED BY ONLY <3>1, <3>2, TypeOK DEF TypeOK
  <2>2. ASSUME ~ PointerIsMine(p)
        PROVE  /\ pc' \in [Threads -> PCs]
               /\ slot' \in [Threads -> Slots \cup {0}]
               /\ ptr' \in [Threads -> PoolAddresses \cup {NULL}]
    BY <2>2 DEF TypeOK
  <2>4. /\ pc' \in [Threads -> PCs]
        /\ slot' \in [Threads -> Slots \cup {0}]
        /\ ptr' \in [Threads -> PoolAddresses \cup {NULL}]
    BY ONLY <2>1, <2>2
  <2>3. live' \subseteq Blocks
    BY <1>0 DEF TypeOK
  <2> QED BY <2>3, <2>4 DEF TypeOK
<1>2. MutexInv'
  BY DEF MutexInv, CriticalSection, TypeOK
<1>3. ChoiceInv'
  BY DEF ChoiceInv, MutexInv, CriticalSection, TypeOK
<1>4. RequestInv'
  BY DEF RequestInv, TypeOK
<1>5. PointerInv'
  BY <1>0 DEF PointerInv, TypeOK
<1>6. IssuedInv'
  BY <1>0 DEF IssuedInv, TypeOK
<1>7. SlotExclusive'
  <2>1. \A u \in Threads : InTransit(u)' => InTransit(u) /\ slot'[u] = slot[u]
    BY <1>0 DEF InTransit, Acquiring, Releasing, TypeOK
  <2> QED BY <2>1 DEF SlotExclusive
<1>8. FlagInv'
  <2>1. \A u \in Threads :
           /\ Acquiring(u)' => Acquiring(u) /\ slot'[u] = slot[u]
           /\ Releasing(u)' => Releasing(u) /\ slot'[u] = slot[u]
           /\ pc'[u] \in {"return", "recordDeallocation", "recordAddr"}
              => pc'[u] = pc[u] /\ slot'[u] = slot[u]
    BY <1>0 DEF Acquiring, Releasing, TypeOK
  <2> QED BY <2>1 DEF FlagInv
<1>9. PageInv'
  BY DEF PageInv, UnmappedIsRecorded, FreePagesAreInaccessible, TypeOK
<1> QED BY <1>1, <1>2, <1>3, <1>4, <1>5, <1>6, <1>7, <1>8, <1>9

LEMMA CheckAddrInd ==
    ASSUME IndInv, NEW t \in Threads, CheckAddr(t)
    PROVE  IndInv'
<1> USE ClientAssumption
    DEF IndInv, CheckAddr, At, Goto, poolVars, errorVars, localVars, clientVars
<1>1. TypeOK'
  BY DEF TypeOK, PCs
<1>2. MutexInv'
  BY DEF MutexInv, CriticalSection, TypeOK
<1>3. ChoiceInv'
  BY DEF ChoiceInv, MutexInv, CriticalSection, TypeOK
<1>4. RequestInv'
  BY DEF RequestInv, TypeOK
<1>5. PointerInv'
  <2>1. metadata[GetNearestSlot(ptr[t])].Addr = ptr[t] => ptr[t] \in issued
    BY DeallocatingSlot DEF PointerInv, IssuedInv
  <2> QED BY <2>1 DEF PointerInv, TypeOK
<1>6. IssuedInv'
  BY DEF IssuedInv, TypeOK
<1>7. SlotExclusive'
  BY DEF SlotExclusive, InTransit, Acquiring, Releasing, TypeOK
<1>8. FlagInv'
  BY DEF FlagInv, Acquiring, Releasing, TypeOK
<1>9. PageInv'
  BY DEF PageInv, UnmappedIsRecorded, FreePagesAreInaccessible, TypeOK
<1> QED BY <1>1, <1>2, <1>3, <1>4, <1>5, <1>6, <1>7, <1>8, <1>9

LEMMA LockInvalidFreeInd ==
    ASSUME IndInv, NEW t \in Threads, LockInvalidFree(t)
    PROVE  IndInv'
<1> USE ClientAssumption
    DEF IndInv, LockInvalidFree, At, Goto, poolVars, errorVars, localVars, clientVars, Lock
<1>1. TypeOK'
  BY DEF TypeOK, PCs
<1>2. MutexInv'
  BY DEF MutexInv, CriticalSection, TypeOK
<1>3. ChoiceInv'
  BY DEF ChoiceInv, MutexInv, CriticalSection, TypeOK
<1>4. RequestInv'
  BY DEF RequestInv, TypeOK
<1>5. PointerInv'
  BY DEF PointerInv, TypeOK
<1>6. IssuedInv'
  BY DEF IssuedInv, TypeOK
<1>7. SlotExclusive'
  BY DEF SlotExclusive, InTransit, Acquiring, Releasing, TypeOK
<1>8. FlagInv'
  BY DEF FlagInv, Acquiring, Releasing, TypeOK
<1>9. PageInv'
  BY DEF PageInv, UnmappedIsRecorded, FreePagesAreInaccessible, TypeOK
<1> QED BY <1>1, <1>2, <1>3, <1>4, <1>5, <1>6, <1>7, <1>8, <1>9

LEMMA LockDeallocateInd ==
    ASSUME IndInv, NEW t \in Threads, LockDeallocate(t)
    PROVE  IndInv'
<1> USE ClientAssumption
    DEF IndInv, LockDeallocate, At, Goto, poolVars, errorVars, localVars, clientVars, Lock
<1>1. TypeOK'
  BY DEF TypeOK, PCs
<1>2. MutexInv'
  BY DEF MutexInv, CriticalSection, TypeOK
<1>3. ChoiceInv'
  BY DEF ChoiceInv, MutexInv, CriticalSection, TypeOK
<1>4. RequestInv'
  BY DEF RequestInv, TypeOK
<1>5. PointerInv'
  BY DEF PointerInv, TypeOK
<1>6. IssuedInv'
  BY DEF IssuedInv, TypeOK
<1>7. SlotExclusive'
  BY DEF SlotExclusive, InTransit, Acquiring, Releasing, TypeOK
<1>8. FlagInv'
  BY DEF FlagInv, Acquiring, Releasing, TypeOK
<1>9. PageInv'
  BY DEF PageInv, UnmappedIsRecorded, FreePagesAreInaccessible, TypeOK
<1> QED BY <1>1, <1>2, <1>3, <1>4, <1>5, <1>6, <1>7, <1>8, <1>9

LEMMA CheckDeallocatedInd ==
    ASSUME IndInv, NEW t \in Threads, CheckDeallocated(t)
    PROVE  IndInv'
<1> USE ClientAssumption
    DEF IndInv, CheckDeallocated, At, Goto, poolVars, errorVars, localVars, clientVars
<1>1. TypeOK'
  BY DEF TypeOK, PCs
<1>2. MutexInv'
  BY DEF MutexInv, CriticalSection, TypeOK
<1>3. ChoiceInv'
  BY DEF ChoiceInv, MutexInv, CriticalSection, TypeOK
<1>4. RequestInv'
  BY DEF RequestInv, TypeOK
<1>5. PointerInv'
  BY DEF PointerInv, TypeOK
<1>6. IssuedInv'
  BY DEF IssuedInv, TypeOK
<1>7. SlotExclusive'
  BY DEF SlotExclusive, InTransit, Acquiring, Releasing, TypeOK
<1>8. FlagInv'
  <2>1. GetNearestSlot(ptr[t]) = slot[t]
    BY DEF PointerInv
  <2>2. \A u \in Threads : u # t => pc'[u] = pc[u]
    BY DEF TypeOK
  <2>3. pc'[t] = IF metadata[slot[t]].IsDeallocated THEN "doubleFree" ELSE "recordDeallocation"
    BY <2>1 DEF TypeOK
  <2> QED BY <2>2, <2>3 DEF FlagInv, Acquiring, Releasing
<1>9. PageInv'
  BY DEF PageInv, UnmappedIsRecorded, FreePagesAreInaccessible, TypeOK
<1> QED BY <1>1, <1>2, <1>3, <1>4, <1>5, <1>6, <1>7, <1>8, <1>9

LEMMA RecordDeallocationInd ==
    ASSUME IndInv, NEW t \in Threads, RecordDeallocation(t)
    PROVE  IndInv'
<1> USE ClientAssumption
    DEF IndInv, RecordDeallocation, At, Goto, poolVars, errorVars, localVars, clientVars, Unlock
<1> DEFINE n == slot[t]
\* The pointer was returned by allocate, so the slot is not in its first
\* allocation, and it is not marked deallocated, so nobody else holds it.
<1>0. /\ n \in Slots /\ GetNearestSlot(ptr[t]) = n /\ n < numAllocations
      /\ metadata' = [metadata EXCEPT ![n].IsDeallocated = TRUE]
      /\ \A m \in Slots :
            /\ metadata'[m].IsDeallocated = IF m = n THEN TRUE ELSE metadata[m].IsDeallocated
            /\ metadata'[m].Addr = metadata[m].Addr
      /\ \A u \in Threads : InTransit(u) => slot[u] # n
      /\ \A i \in 1 .. Len(freeSlots) : freeSlots[i] # n
  <2>1. n \in Slots /\ GetNearestSlot(ptr[t]) = n
    BY DeallocatingSlot
  <2>2. ptr[t] \in issued /\ ~ metadata[n].IsDeallocated
    BY DEF PointerInv, FlagInv
  <2>3. n < numAllocations
    BY <2>1, <2>2 DEF IssuedInv
  <2>4. metadata' = [metadata EXCEPT ![n].IsDeallocated = TRUE]
    BY <2>1
  <2>5. \A u \in Threads : InTransit(u) => slot[u] # n
    BY <2>1, <2>2 DEF FlagInv, InTransit
  <2>6. \A i \in 1 .. Len(freeSlots) : freeSlots[i] # n
    BY <2>2 DEF FlagInv
  <2> QED BY <2>1, <2>3, <2>4, <2>5, <2>6 DEF TypeOK
<1>t. /\ pc'[t] = "unmap" /\ slot' = slot
      /\ \A u \in Threads : u # t => pc'[u] = pc[u]
  BY DEF TypeOK
<1>1. TypeOK'
  BY DEF TypeOK, PCs
<1>2. MutexInv'
  BY DEF MutexInv, CriticalSection, TypeOK
<1>3. ChoiceInv'
  BY DEF ChoiceInv, MutexInv, CriticalSection, TypeOK
<1>4. RequestInv'
  BY DEF RequestInv, TypeOK
<1>5. PointerInv'
  BY DEF PointerInv, TypeOK
<1>6. IssuedInv'
  BY DEF IssuedInv, TypeOK
<1>7. SlotExclusive'
  <2>1. \A u \in Threads : u # t /\ InTransit(u)' => InTransit(u)
    BY <1>t DEF InTransit, Acquiring, Releasing
  <2> QED BY <1>0, <1>t, <2>1 DEF SlotExclusive
<1>8. FlagInv'
  <2>1. \A u \in Threads : u # t =>
           /\ (Acquiring(u)' => Acquiring(u))
           /\ (Releasing(u)' => Releasing(u))
           /\ pc'[u] # "recordDeallocation"
    BY <1>t DEF Acquiring, Releasing, MutexInv, CriticalSection
  <2>2. \A u \in Threads : InTransit(u) => slot[u] \in Slots
    <3>1. \A u \in Threads : InTransit(u) => slot[u] \in Nat /\ slot[u] < numAllocations
      BY SlotTypes DEF SlotExclusive
    <3> QED BY <3>1, SlotTypes
  <2>3. \A i \in 1 .. Len(freeSlots) : metadata'[freeSlots[i]].IsDeallocated
    BY <1>0, SlotTypes DEF FlagInv
  <2>4. \A u \in Threads : Releasing(u)' => metadata'[slot[u]].IsDeallocated
    BY <1>0, <1>t, <2>1, <2>2 DEF FlagInv, InTransit
  <2>5. ASSUME NEW u \in Threads, Acquiring(u)'
        PROVE  \/ metadata'[slot[u]].IsDeallocated
               \/ /\ \A p \in issued : GetNearestSlot(p) # slot[u]
                  /\ \A w \in Threads : pc'[w] = "return" => slot[w] # slot[u]
    <3>1. Acquiring(u) /\ slot[u] # n /\ slot[u] \in Slots
      BY <1>0, <1>t, <2>1, <2>2, <2>5 DEF Acquiring, InTransit
    <3>2. \/ metadata[slot[u]].IsDeallocated
          \/ /\ \A p \in issued : GetNearestSlot(p) # slot[u]
             /\ \A w \in Threads : pc[w] = "return" => slot[w] # slot[u]
      BY <3>1 DEF FlagInv
    <3>3. \A w \in Threads : pc'[w] = "return" => pc[w] = "return"
      BY <1>t
    <3> QED BY <1>0, <3>1, <3>2, <3>3
  <2>6. \A u \in Threads : pc'[u] # "recordDeallocation" /\ pc'[u] # "recordAddr"
    BY <1>t, <2>1 DEF FlagInv
  <2> QED BY <1>t, <2>3, <2>4, <2>5, <2>6 DEF FlagInv
<1>9. PageInv'
  BY DEF PageInv, UnmappedIsRecorded, FreePagesAreInaccessible, TypeOK
<1> QED BY <1>1, <1>2, <1>3, <1>4, <1>5, <1>6, <1>7, <1>8, <1>9

LEMMA UnmapInd ==
    ASSUME IndInv, NEW t \in Threads, Unmap(t)
    PROVE  IndInv'
<1> USE ClientAssumption
    DEF IndInv, Unmap, At, Goto, poolVars, errorVars, localVars, clientVars
<1>1. TypeOK'
  BY DEF TypeOK, PCs
<1>2. MutexInv'
  BY DEF MutexInv, CriticalSection, TypeOK
<1>3. ChoiceInv'
  BY DEF ChoiceInv, MutexInv, CriticalSection, TypeOK
<1>4. RequestInv'
  BY DEF RequestInv, TypeOK
<1>5. PointerInv'
  BY DEF PointerInv, TypeOK
<1>6. IssuedInv'
  BY DEF IssuedInv, TypeOK
<1>7. SlotExclusive'
  BY DEF SlotExclusive, InTransit, Acquiring, Releasing, TypeOK
<1>8. FlagInv'
  BY DEF FlagInv, Acquiring, Releasing, TypeOK
<1>9. PageInv'
  <2> DEFINE n == slot[t]
  <2>1. n \in Slots /\ metadata[n].IsDeallocated
    BY DeallocatingSlot DEF FlagInv, Releasing
  <2>2. \A m \in Slots : m # n => SlotToAddr(m) # SlotToAddr(n)
    BY <2>1, SlotToAddrInjective
  <2>3. UnmappedIsRecorded'
    BY <2>1, <2>2 DEF PageInv, UnmappedIsRecorded
  <2>4. \A u \in Threads : u # t /\ InTransit(u) => slot[u] \in Slots /\ slot[u] # n
    BY SlotTypes DEF SlotExclusive, InTransit, Releasing
  <2>5. pc'[t] = "lockFreeSlot" /\ \A u \in Threads : u # t => pc'[u] = pc[u]
    BY DEF TypeOK
  <2> QED BY <2>2, <2>3, <2>4, <2>5
          DEF PageInv, FreePagesAreInaccessible, InTransit, Acquiring
<1> QED BY <1>1, <1>2, <1>3, <1>4, <1>5, <1>6, <1>7, <1>8, <1>9

LEMMA LockFreeSlotInd ==
    ASSUME IndInv, NEW t \in Threads, LockFreeSlot(t)
    PROVE  IndInv'
<1> USE ClientAssumption
    DEF IndInv, LockFreeSlot, At, Goto, poolVars, errorVars, localVars, clientVars, Lock
<1>1. TypeOK'
  BY DEF TypeOK, PCs
<1>2. MutexInv'
  BY DEF MutexInv, CriticalSection, TypeOK
<1>3. ChoiceInv'
  BY DEF ChoiceInv, MutexInv, CriticalSection, TypeOK
<1>4. RequestInv'
  BY DEF RequestInv, TypeOK
<1>5. PointerInv'
  BY DEF PointerInv, TypeOK
<1>6. IssuedInv'
  BY DEF IssuedInv, TypeOK
<1>7. SlotExclusive'
  BY DEF SlotExclusive, InTransit, Acquiring, Releasing, TypeOK
<1>8. FlagInv'
  BY DEF FlagInv, Acquiring, Releasing, TypeOK
<1>9. PageInv'
  BY DEF PageInv, UnmappedIsRecorded, FreePagesAreInaccessible, TypeOK
<1> QED BY <1>1, <1>2, <1>3, <1>4, <1>5, <1>6, <1>7, <1>8, <1>9

LEMMA FreeSlotInd ==
    ASSUME IndInv, NEW t \in Threads, FreeSlot(t)
    PROVE  IndInv'
<1> USE ClientAssumption
    DEF IndInv, FreeSlot, At, Goto, poolVars, errorVars, localVars, clientVars, Unlock, ReturnFromCall
<1>1. TypeOK'
  <2>1. freeSlots' \in Seq(Slots)
    BY DeallocatingSlot DEF TypeOK
  <2>2. NULL \in PoolAddresses \cup {NULL} /\ "idle" \in PCs
    BY DEF PCs
  <2> QED BY <2>1, <2>2 DEF TypeOK
<1>2. MutexInv'
  BY DEF MutexInv, CriticalSection, TypeOK
<1>3. ChoiceInv'
  BY DEF ChoiceInv, MutexInv, CriticalSection, TypeOK
<1>4. RequestInv'
  BY DEF RequestInv, TypeOK
<1>5. PointerInv'
  BY DEF PointerInv, TypeOK
<1>6. IssuedInv'
  BY DEF IssuedInv, TypeOK
<1>7. SlotExclusive'
  BY DEF SlotExclusive, InTransit, Acquiring, Releasing, TypeOK
<1>8. FlagInv'
  BY DEF FlagInv, Acquiring, Releasing, TypeOK
<1>9. PageInv'
  BY DEF PageInv, UnmappedIsRecorded, FreePagesAreInaccessible, TypeOK
<1> QED BY <1>1, <1>2, <1>3, <1>4, <1>5, <1>6, <1>7, <1>8, <1>9

LEMMA StoreFailureTypeInd ==
    ASSUME IndInv, NEW t \in Threads, StoreFailureType(t)
    PROVE  IndInv'
<1> USE ClientAssumption
    DEF IndInv, StoreFailureType, At, Goto, poolVars, errorVars, localVars, clientVars
<1>1. TypeOK'
  BY DEF TypeOK, PCs
<1>2. MutexInv'
  BY DEF MutexInv, CriticalSection, TypeOK
<1>3. ChoiceInv'
  BY DEF ChoiceInv, MutexInv, CriticalSection, TypeOK
<1>4. RequestInv'
  BY DEF RequestInv, TypeOK
<1>5. PointerInv'
  BY DEF PointerInv, TypeOK
<1>6. IssuedInv'
  BY DEF IssuedInv, TypeOK
<1>7. SlotExclusive'
  BY DEF SlotExclusive, InTransit, Acquiring, Releasing, TypeOK
<1>8. FlagInv'
  BY DEF FlagInv, Acquiring, Releasing, TypeOK
<1>9. PageInv'
  BY DEF PageInv, UnmappedIsRecorded, FreePagesAreInaccessible, TypeOK
<1> QED BY <1>1, <1>2, <1>3, <1>4, <1>5, <1>6, <1>7, <1>8, <1>9

LEMMA StoreFailureAddressInd ==
    ASSUME IndInv, NEW t \in Threads, StoreFailureAddress(t)
    PROVE  IndInv'
<1> USE ClientAssumption
    DEF IndInv, StoreFailureAddress, At, Goto, poolVars, errorVars, localVars, clientVars
<1>1. TypeOK'
  <2>1. ptr[t] \in PoolAddresses
    BY DEF PointerInv
  <2>2. GuardedPagePool \in PoolAddresses
    <3>1. GuardedPagePoolEnd \in Nat /\ GuardedPagePool \in Nat
      BY PoolAssumption, Z3 DEF GuardedPagePoolEnd
    <3> QED BY <2>1, <3>1 DEF PoolAddresses
  <2> QED BY <2>1, <2>2 DEF TypeOK, PCs
<1>2. MutexInv'
  BY DEF MutexInv, CriticalSection, TypeOK
<1>3. ChoiceInv'
  BY DEF ChoiceInv, MutexInv, CriticalSection, TypeOK
<1>4. RequestInv'
  BY DEF RequestInv, TypeOK
<1>5. PointerInv'
  BY DEF PointerInv, TypeOK
<1>6. IssuedInv'
  BY DEF IssuedInv, TypeOK
<1>7. SlotExclusive'
  BY DEF SlotExclusive, InTransit, Acquiring, Releasing, TypeOK
<1>8. FlagInv'
  BY DEF FlagInv, Acquiring, Releasing, TypeOK
<1>9. PageInv'
  BY DEF PageInv, UnmappedIsRecorded, FreePagesAreInaccessible, TypeOK
<1> QED BY <1>1, <1>2, <1>3, <1>4, <1>5, <1>6, <1>7, <1>8, <1>9

LEMMA AccessInd ==
    ASSUME IndInv, NEW t \in Threads, NEW p \in PoolAddresses \cup {NULL}, Access(t, p)
    PROVE  IndInv'
<1> USE ClientAssumption
    DEF IndInv, Access, At, Goto, poolVars, errorVars, localVars, clientVars
<1>1. TypeOK'
  BY DEF TypeOK, PCs
<1>2. MutexInv'
  BY DEF MutexInv, CriticalSection, TypeOK
<1>3. ChoiceInv'
  BY DEF ChoiceInv, MutexInv, CriticalSection, TypeOK
<1>4. RequestInv'
  BY DEF RequestInv, TypeOK
<1>5. PointerInv'
  BY DEF PointerInv, TypeOK
<1>6. IssuedInv'
  BY DEF IssuedInv, TypeOK
<1>7. SlotExclusive'
  BY DEF SlotExclusive, InTransit, Acquiring, Releasing, TypeOK
<1>8. FlagInv'
  BY DEF FlagInv, Acquiring, Releasing, TypeOK
<1>9. PageInv'
  BY DEF PageInv, UnmappedIsRecorded, FreePagesAreInaccessible, TypeOK
<1> QED BY <1>1, <1>2, <1>3, <1>4, <1>5, <1>6, <1>7, <1>8, <1>9

LEMMA DieInd ==
    ASSUME IndInv, NEW t \in Threads, Die(t)
    PROVE  IndInv'
<1> USE ClientAssumption
    DEF IndInv, Die, At, Goto, poolVars, errorVars, localVars, clientVars
<1>1. TypeOK'
  BY DEF TypeOK, PCs
<1>2. MutexInv'
  BY DEF MutexInv, CriticalSection, TypeOK
<1>3. ChoiceInv'
  BY DEF ChoiceInv, MutexInv, CriticalSection, TypeOK
<1>4. RequestInv'
  BY DEF RequestInv, TypeOK
<1>5. PointerInv'
  BY DEF PointerInv, TypeOK
<1>6. IssuedInv'
  BY DEF IssuedInv, TypeOK
<1>7. SlotExclusive'
  BY DEF SlotExclusive, InTransit, Acquiring, Releasing, TypeOK
<1>8. FlagInv'
  BY DEF FlagInv, Acquiring, Releasing, TypeOK
<1>9. PageInv'
  BY DEF PageInv, UnmappedIsRecorded, FreePagesAreInaccessible, TypeOK
<1> QED BY <1>1, <1>2, <1>3, <1>4, <1>5, <1>6, <1>7, <1>8, <1>9

-------------------------------------------------------------------------------
LEMMA InitInd == Init => IndInv
<1> SUFFICES ASSUME Init PROVE IndInv
  OBVIOUS
<1> USE PoolAssumption, ClientAssumption DEF Init
<1>1. TypeOK
  <2>1. /\ metadata \in [Slots -> [Addr : Nat, IsDeallocated : BOOLEAN]]
        /\ freeSlots \in Seq(Slots)
    BY DEF NULL
  <2>2. /\ pc \in [Threads -> PCs]
        /\ req \in [Threads -> Requests \cup {NoRequest}]
        /\ slot \in [Threads -> Slots \cup {0}]
        /\ index \in [Threads -> Nat]
        /\ ptr \in [Threads -> PoolAddresses \cup {NULL}]
    BY DEF PCs
  <2>3. numAllocations \in 0 .. MaxSimultaneousAllocations
    OBVIOUS
  <2>4. /\ mutex \in Threads \cup {NoThread}
        /\ accessible \subseteq PoolAddresses
        /\ failureType \in {"UNKNOWN", "INVALID_FREE", "DOUBLE_FREE"}
        /\ failureAddress \in PoolAddresses \cup {NULL}
        /\ crashed \in BOOLEAN /\ live \subseteq Blocks /\ issued \subseteq PoolAddresses
    OBVIOUS
  <2> QED BY ONLY <2>1, <2>2, <2>3, <2>4 DEF TypeOK
<1>2. MutexInv /\ ChoiceInv /\ RequestInv /\ PointerInv
  BY DEF MutexInv, CriticalSection, ChoiceInv, RequestInv, PointerInv
<1>3. IssuedInv
  <2>1. NULL \notin WildPointers
    BY DEF PoolAddresses, GuardedPagePoolEnd, NULL
  <2> QED BY <2>1 DEF IssuedInv
<1>4. SlotExclusive /\ FlagInv /\ PageInv
  BY DEF SlotExclusive, InTransit, Acquiring, Releasing, FlagInv, PageInv,
         UnmappedIsRecorded, FreePagesAreInaccessible
<1> QED BY <1>1, <1>2, <1>3, <1>4 DEF IndInv

\* Every step of every thread, and a stuttering one, preserves the invariant.
LEMMA NextInd ==
    ASSUME IndInv, StoresInOrder, [Next]_vars
    PROVE  IndInv'
<1>1. CASE UNCHANGED vars
  BY <1>1 DEF vars, poolVars, errorVars, localVars, clientVars, IndInv, TypeOK, MutexInv,
     ChoiceInv, RequestInv, PointerInv, IssuedInv, SlotExclusive, InTransit, Acquiring,
     Releasing, FlagInv, PageInv, UnmappedIsRecorded, FreePagesAreInaccessible
<1>2. ASSUME NEW t \in Threads, InCall(t)
      PROVE  IndInv'
  <2>1. CASE AllocateStep(t)
    BY <2>1, LockReserveInd, ReserveSlotInd, RemoveSlotInd, MapSlotInd, StoreAddrInd,
       StoreFlagInd, ReturnInd, MallocInd DEF AllocateStep
  <2>2. CASE DeallocateStep(t)
    BY <2>2, CheckAddrInd, LockInvalidFreeInd, LockDeallocateInd, CheckDeallocatedInd,
       RecordDeallocationInd, UnmapInd, LockFreeSlotInd, FreeSlotInd,
       StoreFailureTypeInd, StoreFailureAddressInd DEF DeallocateStep
  <2> QED BY <1>2, <2>1, <2>2 DEF InCall
<1>3. ASSUME NEW t \in Threads, OwnerCall(t)
      PROVE  IndInv'
  <2>1. ASSUME NEW b \in live, Deallocate(t, b.addr)
        PROVE  IndInv'
    <3>1. b.addr \in Nat /\ (PointerIsMine(b.addr) => b.addr \in issued \cup WildPointers)
      BY DEF IndInv, TypeOK, Blocks, IssuedInv
    <3> QED BY <2>1, <3>1, DeallocateInd
  <2> QED BY <1>3, <2>1, AllocateInd DEF OwnerCall
<1>4. ASSUME NEW t \in Threads, Misuse(t)
      PROVE  IndInv'
  <2>1. issued \cup WildPointers \subseteq PoolAddresses
    BY ClientAssumption DEF IndInv, TypeOK
  <2>2. PoolAddresses \subseteq Nat
    BY PoolAssumption, Z3 DEF PoolAddresses, GuardedPagePoolEnd
  <2> QED BY <1>4, <2>1, <2>2, DeallocateInd, AccessInd DEF Misuse
<1> QED BY <1>1, <1>2, <1>3, <1>4, DieInd DEF Next, ProcessIsDead

\* The invariant holds in every reachable state.
THEOREM Inductive == StoresInOrder => (Spec => []IndInv)
<1> SUFFICES ASSUME StoresInOrder PROVE Spec => []IndInv
  OBVIOUS
<1>1. IndInv /\ [Next]_vars => IndInv'
  BY NextInd
<1> QED BY InitInd, <1>1, PTL DEF Spec

\* reserveSlot and freeSlot never put a slot in two places, whatever clients
\* free twice or by mistake.
THEOREM SlotsAreExclusive == StoresInOrder => (Spec => []SlotExclusive)
<1>1. IndInv => SlotExclusive
  BY DEF IndInv
<1> QED BY <1>1, Inductive, PTL

\* deallocate's ordering: an unmapped page that has been used is on record as
\* deallocated.
THEOREM UnmappedPagesAreRecorded == StoresInOrder => (Spec => []UnmappedIsRecorded)
<1>1. IndInv => UnmappedIsRecorded
  BY DEF IndInv, PageInv
<1> QED BY <1>1, Inductive, PTL

\* Pages in the free list are inaccessible: a stale pointer into one faults.
THEOREM FreePagesFault == StoresInOrder => (Spec => []FreePagesAreInaccessible)
<1>1. IndInv => FreePagesAreInaccessible
  BY DEF IndInv, PageInv
<1> QED BY <1>1, Inductive, PTL

-------------------------------------------------------------------------------
(***************************************************************************)
(* The free list never overflows: its entries and the slot being released  *)
(* are distinct members of Slots.                                          *)
(***************************************************************************)
LEMMA DistinctEntriesFit ==
    ASSUME NEW s \in Seq(Slots), NEW n \in Slots,
           \A i, j \in 1 .. Len(s) : i # j => s[i] # s[j],
           \A i \in 1 .. Len(s) : s[i] # n
    PROVE  Len(s) < MaxSimultaneousAllocations
<1> DEFINE T == Slots \ {n}
<1>1. IsFiniteSet(T) /\ Cardinality(T) = MaxSimultaneousAllocations - 1
  <2>1. IsFiniteSet(Slots) /\ Cardinality(Slots) = MaxSimultaneousAllocations
    BY FS_Interval, PoolAssumption DEF Slots
  <2> QED BY <2>1, FS_RemoveElement
<1>2. Len(s) \in Nat /\ DOMAIN s = 1 .. Len(s)
  OBVIOUS
<1>3. s \in Injection(1 .. Len(s), T)
  BY <1>2 DEF Injection, IsInjective
<1>4. Cardinality(1 .. Len(s)) <= Cardinality(T)
  BY <1>1, <1>3, FS_Injection
<1>5. Cardinality(1 .. Len(s)) = Len(s)
  BY <1>2, FS_Interval
<1> QED BY <1>1, <1>2, <1>4, <1>5, PoolAssumption

\* The assertion of freeSlot never fails.
THEOREM FreeListNeverOverflows == StoresInOrder => (Spec => []FreeListHasRoom)
<1>1. IndInv => FreeListHasRoom
  <2> SUFFICES ASSUME IndInv, NEW t \in Threads, pc[t] = "freeSlot"
               PROVE  Len(freeSlots) < MaxSimultaneousAllocations
    BY DEF FreeListHasRoom
  <2>1. slot[t] \in Slots
    BY DeallocatingSlot DEF IndInv
  <2>2. \A i \in 1 .. Len(freeSlots) : freeSlots[i] # slot[t]
    BY DEF IndInv, SlotExclusive, InTransit, Releasing
  <2>3. /\ freeSlots \in Seq(Slots)
        /\ \A i, j \in 1 .. Len(freeSlots) : i # j => freeSlots[i] # freeSlots[j]
    BY DEF IndInv, TypeOK, SlotExclusive
  <2> QED BY <2>1, <2>2, <2>3, DistinctEntriesFit
<1> QED BY <1>1, Inductive, PTL

-------------------------------------------------------------------------------
(***************************************************************************)
(* What holds for every client and whatever order the stores of            *)
(* RecordAllocation become visible in: the types, what a thread inside a   *)
(* call knows, and that the first error stays on record.                   *)
(***************************************************************************)

\* The points of allocate at which the request has been accepted, and those at
\* which the block's address is known.
AllocatesAt ==
    {"lockReserve", "reserveSlot", "removeSlot", "mapSlot", "record", "recordAddr",
     "recordFlag", "return"}

PlacedAt == {"record", "recordAddr", "recordFlag", "return"}

\* The points of deallocate on the way to freeSlot, and with those on the way to
\* the trap.
DeallocatesAt ==
    {"checkAddr", "lockDeallocate", "checkDeallocated", "recordDeallocation",
     "unmap", "lockFreeSlot", "freeSlot"}

FreesAt == DeallocatesAt \cup {"lockInvalid", "invalidFree", "doubleFree", "storeAddress"}

\* What a thread inside a call knows.
LocalsInv(t) ==
    /\ pc[t] \in AllocatesAt => req[t] \in Requests /\ Servable(req[t])
    /\ pc[t] \in PlacedAt \cup {"mapSlot"} => slot[t] \in Slots
    /\ pc[t] \in PlacedAt => ptr[t] \in UserPointers(slot[t], req[t])
    /\ pc[t] \in FreesAt => ptr[t] \in PoolAddresses
    /\ pc[t] \in DeallocatesAt => slot[t] = GetNearestSlot(ptr[t])

\* The metadata of a slot hold no address but one in the slot's page.
AddrInv ==
    \A n \in Slots : metadata[n].Addr # NULL =>
        metadata[n].Addr \in SlotToAddr(n) .. SlotToAddr(n) + PageSize - 1

AnyOrderInv ==
    /\ TypeOK
    /\ MutexInv
    /\ ChoiceInv
    /\ AddrInv
    /\ \A t \in Threads : LocalsInv(t)

-------------------------------------------------------------------------------
(***************************************************************************)
(* Steps keep what they do not touch.                                      *)
(***************************************************************************)

\* A step of t leaves the program points and the locals of the others alone.
Others(t) ==
    \A u \in Threads : u # t =>
        /\ pc'[u] = pc[u] /\ slot'[u] = slot[u] /\ req'[u] = req[u]
        /\ ptr'[u] = ptr[u] /\ index'[u] = index[u]

LEMMA LocalsKept ==
    ASSUME AnyOrderInv, NEW t \in Threads, Others(t), LocalsInv(t)'
    PROVE  \A u \in Threads : LocalsInv(u)'
BY DEF AnyOrderInv, LocalsInv, Others

LEMMA MutexKept ==
    ASSUME AnyOrderInv, NEW t \in Threads, Others(t),
           mutex' = mutex \/ mutex = NoThread \/ mutex = t,
           pc'[t] \in CriticalSection => mutex' = t
    PROVE  MutexInv'
BY ClientAssumption DEF AnyOrderInv, MutexInv, Others

LEMMA ChoiceKept ==
    ASSUME AnyOrderInv, NEW t \in Threads, Others(t), pc'[t] # "removeSlot",
           pc[t] \in CriticalSection \/ UNCHANGED << numAllocations, freeSlots >>
    PROVE  ChoiceInv'
<1>1. ASSUME NEW u \in Threads, pc'[u] = "removeSlot"
      PROVE  /\ u # t /\ pc[u] = "removeSlot"
             /\ UNCHANGED << numAllocations, freeSlots >>
  BY <1>1 DEF AnyOrderInv, MutexInv, CriticalSection, Others
<1> QED
  BY <1>1 DEF AnyOrderInv, ChoiceInv, Others

\* A step of t that changes nothing but its program point, the mutex and the
\* error on record.
LEMMA MovesOn ==
    ASSUME AnyOrderInv, NEW t \in Threads, NEW place \in PCs,
           pc' = [pc EXCEPT ![t] = place],
           UNCHANGED << numAllocations, freeSlots, metadata, accessible,
                        req, slot, index, ptr, live, issued >>,
           mutex' = mutex \/ (mutex = NoThread /\ mutex' = t),
           place \in CriticalSection => mutex' = t,
           failureType' \in {"UNKNOWN", "INVALID_FREE", "DOUBLE_FREE"},
           failureAddress' = failureAddress, crashed' \in BOOLEAN,
           place # "removeSlot",
           place \in AllocatesAt => pc[t] \in AllocatesAt,
           place \in PlacedAt => pc[t] \in PlacedAt,
           place # "mapSlot",
           place \in FreesAt => pc[t] \in FreesAt,
           place \in DeallocatesAt => pc[t] \in DeallocatesAt
    PROVE  AnyOrderInv'
<1>1. TypeOK /\ LocalsInv(t)
  BY DEF AnyOrderInv
<1>2. pc'[t] = place /\ Others(t)
  BY <1>1 DEF Others, TypeOK
<1>3. TypeOK'
  BY <1>1 DEF TypeOK
<1>4. LocalsInv(t)'
  BY <1>1, <1>2 DEF LocalsInv
<1>5. AddrInv'
  BY DEF AnyOrderInv, AddrInv
<1>6. MutexInv' /\ ChoiceInv'
  BY <1>2, MutexKept, ChoiceKept
<1> QED
  BY <1>2, <1>3, <1>4, <1>5, <1>6, LocalsKept DEF AnyOrderInv

-------------------------------------------------------------------------------
(***************************************************************************)
(* The steps.                                                              *)
(***************************************************************************)
LEMMA MovesOnAny ==
    ASSUME AnyOrderInv, NEW t \in Threads,
           \/ LockReserve(t) \/ CheckAddr(t) \/ LockInvalidFree(t) \/ LockDeallocate(t)
           \/ CheckDeallocated(t) \/ LockFreeSlot(t) \/ StoreFailureType(t)
    PROVE  AnyOrderInv'
<1> USE DEF At, Goto, Lock, poolVars, errorVars, clientVars, PCs, CriticalSection, AllocatesAt,
    PlacedAt, FreesAt, DeallocatesAt
<1>1. CASE LockReserve(t)
  BY <1>1, MovesOn DEF LockReserve, AnyOrderInv, TypeOK
<1>2. CASE CheckAddr(t)
  BY <1>2, MovesOn DEF CheckAddr, AnyOrderInv, TypeOK
<1>3. CASE LockInvalidFree(t)
  BY <1>3, MovesOn DEF LockInvalidFree, AnyOrderInv, TypeOK
<1>4. CASE LockDeallocate(t)
  BY <1>4, MovesOn DEF LockDeallocate, AnyOrderInv, TypeOK
<1>5. CASE CheckDeallocated(t)
  <2>1. pc[t] = "checkDeallocated" /\ mutex = t
    BY <1>5 DEF CheckDeallocated, AnyOrderInv, MutexInv
  <2> QED
    BY <1>5, <2>1, MovesOn DEF CheckDeallocated, AnyOrderInv, TypeOK
<1>6. CASE LockFreeSlot(t)
  BY <1>6, MovesOn DEF LockFreeSlot, AnyOrderInv, TypeOK
<1>7. CASE StoreFailureType(t)
  <2>1. pc[t] \in {"invalidFree", "doubleFree"} /\ mutex = t
    BY <1>7 DEF StoreFailureType, AnyOrderInv, MutexInv
  <2> QED
    BY <1>7, <2>1, MovesOn DEF StoreFailureType, AnyOrderInv, TypeOK
<1> QED
  BY <1>1, <1>2, <1>3, <1>4, <1>5, <1>6, <1>7

LEMMA AllocateAny ==
    ASSUME AnyOrderInv, NEW t \in Threads, NEW r \in Requests, Allocate(t, r)
    PROVE  AnyOrderInv'
<1> USE DEF Allocate, At, Goto, poolVars, errorVars, clientVars
<1>1. TypeOK
  BY DEF AnyOrderInv
<1>2. Others(t) /\ req'[t] = r /\ pc'[t] \in {"lockReserve", "malloc"}
      /\ (pc'[t] = "lockReserve" => Servable(r))
  BY <1>1 DEF Others, TypeOK
<1>3. TypeOK'
  BY <1>1 DEF TypeOK, PCs
<1>4. LocalsInv(t)'
  BY <1>2 DEF LocalsInv, AllocatesAt, PlacedAt, FreesAt, DeallocatesAt
<1>5. AddrInv'
  BY DEF AnyOrderInv, AddrInv
<1>6. MutexInv' /\ ChoiceInv'
  BY <1>2, MutexKept, ChoiceKept DEF CriticalSection
<1> QED
  BY <1>2, <1>3, <1>4, <1>5, <1>6, LocalsKept DEF AnyOrderInv

LEMMA ReserveSlotAny ==
    ASSUME AnyOrderInv, NEW t \in Threads, ReserveSlot(t)
    PROVE  AnyOrderInv'
<1> USE DEF At, Goto, Unlock, poolVars, errorVars, clientVars
<1>1. /\ TypeOK /\ pc[t] = "reserveSlot" /\ mutex = t
      /\ UNCHANGED << numAllocations, freeSlots, metadata, accessible, errorVars,
                      req, ptr, clientVars >>
  BY DEF ReserveSlot, AnyOrderInv, MutexInv, CriticalSection
<1>2. CASE \E n \in Slots, i \in Nat :
              /\ slot' = [slot EXCEPT ![t] = n] /\ index' = [index EXCEPT ![t] = i]
              /\ pc' = [pc EXCEPT ![t] = "removeSlot"] /\ mutex' = mutex
              /\ \/ i = 0 /\ n = numAllocations /\ n < MaxSimultaneousAllocations
                 \/ i \in 1 .. Len(freeSlots) /\ n = freeSlots[i]
  <2>1. PICK n \in Slots, i \in Nat :
              /\ slot' = [slot EXCEPT ![t] = n] /\ index' = [index EXCEPT ![t] = i]
              /\ pc' = [pc EXCEPT ![t] = "removeSlot"] /\ mutex' = mutex
              /\ \/ i = 0 /\ n = numAllocations /\ n < MaxSimultaneousAllocations
                 \/ i \in 1 .. Len(freeSlots) /\ n = freeSlots[i]
    BY <1>2
  <2>2. /\ Others(t) /\ pc'[t] = "removeSlot" /\ slot'[t] = n /\ index'[t] = i
        /\ req'[t] = req[t]
    BY <1>1, <2>1 DEF Others, TypeOK
  <2>3. TypeOK'
    BY <1>1, <2>1 DEF TypeOK, PCs
  <2>4. LocalsInv(t)'
    BY <1>1, <2>2
    DEF AnyOrderInv, LocalsInv, AllocatesAt, PlacedAt, FreesAt, DeallocatesAt
  <2>5. AddrInv'
    BY <1>1 DEF AnyOrderInv, AddrInv
  <2>6. MutexInv'
    BY <1>1, <2>1, <2>2, MutexKept
  <2>7. ChoiceInv'
    <3>1. ASSUME NEW u \in Threads, u # t PROVE pc'[u] # "removeSlot"
      BY <1>1, <2>2, <3>1 DEF AnyOrderInv, MutexInv, CriticalSection, Others
    <3> QED
      BY <1>1, <2>1, <2>2, <3>1 DEF ChoiceInv
  <2> QED
    BY <2>2, <2>3, <2>4, <2>5, <2>6, <2>7, LocalsKept DEF AnyOrderInv
<1>3. CASE /\ pc' = [pc EXCEPT ![t] = "malloc"] /\ mutex' = NoThread
           /\ UNCHANGED << slot, index >>
  <2>1. Others(t) /\ pc'[t] = "malloc"
    BY <1>1, <1>3 DEF Others, TypeOK
  <2>2. TypeOK'
    BY <1>1, <1>3 DEF TypeOK, PCs
  <2>3. LocalsInv(t)'
    BY <2>1 DEF LocalsInv, AllocatesAt, PlacedAt, FreesAt, DeallocatesAt
  <2>4. AddrInv'
    BY <1>1 DEF AnyOrderInv, AddrInv
  <2>5. MutexInv' /\ ChoiceInv'
    BY <1>1, <2>1, MutexKept, ChoiceKept DEF CriticalSection
  <2> QED
    BY <2>1, <2>2, <2>3, <2>4, <2>5, LocalsKept DEF AnyOrderInv
<1>4. CASE /\ numAllocations < MaxSimultaneousAllocations
           /\ slot' = [slot EXCEPT ![t] = numAllocations]
           /\ index' = [index EXCEPT ![t] = 0]
           /\ pc' = [pc EXCEPT ![t] = "removeSlot"] /\ mutex' = mutex
  BY <1>1, <1>2, <1>4, SlotTypes
<1>5. CASE /\ \E i \in 1 .. Len(freeSlots) :
                 slot' = [slot EXCEPT ![t] = freeSlots[i]] /\ index' = [index EXCEPT ![t] = i]
           /\ pc' = [pc EXCEPT ![t] = "removeSlot"] /\ mutex' = mutex
  <2>1. PICK i \in 1 .. Len(freeSlots) :
            slot' = [slot EXCEPT ![t] = freeSlots[i]] /\ index' = [index EXCEPT ![t] = i]
    BY <1>5
  <2>2. i \in Nat /\ freeSlots[i] \in Slots
    BY <1>1, SlotTypes
  <2> QED
    BY <1>2, <1>5, <2>1, <2>2
<1> QED
  BY <1>3, <1>4, <1>5 DEF ReserveSlot

LEMMA RemoveSlotAny ==
    ASSUME AnyOrderInv, NEW t \in Threads, RemoveSlot(t)
    PROVE  AnyOrderInv'
<1> USE DEF RemoveSlot, At, Goto, Unlock, poolVars, errorVars, clientVars
<1>1. /\ TypeOK /\ pc[t] = "removeSlot" /\ mutex = t /\ mutex' = NoThread
      /\ UNCHANGED << metadata, accessible, errorVars, req, slot, ptr, clientVars >>
  BY DEF AnyOrderInv, MutexInv, CriticalSection
<1>2. Others(t) /\ pc'[t] = "mapSlot" /\ slot'[t] = slot[t] /\ req'[t] = req[t]
  BY <1>1 DEF Others, TypeOK
<1>3. /\ slot[t] \in Slots
      /\ numAllocations' \in 0 .. MaxSimultaneousAllocations
      /\ freeSlots' \in Seq(Slots)
  <2>1. CASE index[t] = 0
    <3>1. slot[t] = numAllocations /\ numAllocations < MaxSimultaneousAllocations
      BY <1>1, <2>1, SlotTypes DEF AnyOrderInv, ChoiceInv
    <3> QED
      BY <1>1, <2>1, <3>1, SlotTypes DEF TypeOK
  <2>2. CASE index[t] # 0
    <3>1. index[t] \in 1 .. Len(freeSlots) /\ slot[t] = freeSlots[index[t]]
      BY <1>1, <2>2 DEF AnyOrderInv, ChoiceInv
    <3>2. freeSlots \in Seq(Slots)
      BY <1>1 DEF TypeOK
    <3>3. SwapRemove(freeSlots, index[t]) \in Seq(Slots)
      BY <3>1, <3>2, SwapRemoveProperties
    <3> QED
      BY <1>1, <2>2, <3>1, <3>3, SlotTypes DEF TypeOK
  <2> QED
    BY <2>1, <2>2
<1>4. TypeOK'
  BY <1>1, <1>3 DEF TypeOK, PCs
<1>5. LocalsInv(t)'
  BY <1>1, <1>2, <1>3
  DEF AnyOrderInv, LocalsInv, AllocatesAt, PlacedAt, FreesAt, DeallocatesAt
<1>6. AddrInv'
  BY <1>1 DEF AnyOrderInv, AddrInv
<1>7. MutexInv' /\ ChoiceInv'
  BY <1>1, <1>2, MutexKept, ChoiceKept DEF CriticalSection
<1> QED
  BY <1>2, <1>4, <1>5, <1>6, <1>7, LocalsKept DEF AnyOrderInv

\* What a store to one field of one slot's metadata changes.
LEMMA AddrStored ==
    ASSUME TypeOK, NEW n \in Slots, NEW a \in Nat,
           metadata' = [metadata EXCEPT ![n].Addr = a]
    PROVE  /\ metadata' \in [Slots -> [Addr : Nat, IsDeallocated : BOOLEAN]]
           /\ metadata'[n].Addr = a
           /\ metadata'[n].IsDeallocated = metadata[n].IsDeallocated
           /\ \A m \in Slots : m # n => metadata'[m] = metadata[m]
<1> DEFINE entry == [metadata[n] EXCEPT !.Addr = a]
<1>1. metadata \in [Slots -> [Addr : Nat, IsDeallocated : BOOLEAN]]
  BY DEF TypeOK
<1>2. /\ entry \in [Addr : Nat, IsDeallocated : BOOLEAN]
      /\ entry.Addr = a /\ entry.IsDeallocated = metadata[n].IsDeallocated
  BY <1>1
<1>3. metadata' = [metadata EXCEPT ![n] = entry]
  OBVIOUS
<1> HIDE DEF entry
<1> QED
  BY <1>1, <1>2, <1>3

LEMMA FlagStored ==
    ASSUME TypeOK, NEW n \in Slots, NEW b \in BOOLEAN,
           metadata' = [metadata EXCEPT ![n].IsDeallocated = b]
    PROVE  /\ metadata' \in [Slots -> [Addr : Nat, IsDeallocated : BOOLEAN]]
           /\ metadata'[n].IsDeallocated = b
           /\ metadata'[n].Addr = metadata[n].Addr
           /\ \A m \in Slots : m # n => metadata'[m] = metadata[m]
<1> DEFINE entry == [metadata[n] EXCEPT !.IsDeallocated = b]
<1>1. metadata \in [Slots -> [Addr : Nat, IsDeallocated : BOOLEAN]]
  BY DEF TypeOK
<1>2. /\ entry \in [Addr : Nat, IsDeallocated : BOOLEAN]
      /\ entry.IsDeallocated = b /\ entry.Addr = metadata[n].Addr
  BY <1>1
<1>3. metadata' = [metadata EXCEPT ![n] = entry]
  OBVIOUS
<1> HIDE DEF entry
<1> QED
  BY <1>1, <1>2, <1>3

\* Where a block that is being placed lies.
LEMMA PlacedInSlot ==
    ASSUME NEW n \in Slots, NEW r \in Requests, Servable(r), NEW p \in UserPointers(n, r)
    PROVE  /\ p \in Nat /\ p \in PoolAddresses
           /\ p \in SlotToAddr(n) .. SlotToAddr(n) + PageSize - 1
           /\ PagesOf(p, r) = {SlotToAddr(n)} /\ SlotToAddr(n) \in PoolAddresses
<1>1. r \in [size : Nat, alignment : Nat] /\ SlotToAddr(n) \in Nat /\ PageSize \in Nat
  BY ClientAssumption, SlotInPool, PoolAssumption
<1>2. /\ p \in Nat /\ EffectiveSize(r) \in 1 .. PageSize
      /\ SlotToAddr(n) <= p /\ p + EffectiveSize(r) <= SlotToAddr(n) + PageSize
  BY <1>1, UserPointerInSlot
<1>3. p \in SlotToAddr(n) .. SlotToAddr(n) + PageSize - 1
  BY <1>1, <1>2
<1> QED
  BY <1>1, <1>2, <1>3, SlotPageInPool, SlotInPool, PagesOfUserPointer

LEMMA MapSlotAny ==
    ASSUME AnyOrderInv, NEW t \in Threads, MapSlot(t)
    PROVE  AnyOrderInv'
<1> USE DEF MapSlot, At, Goto, poolVars, errorVars, clientVars
<1>1. /\ TypeOK /\ pc[t] = "mapSlot" /\ slot[t] \in Slots
      /\ req[t] \in Requests /\ Servable(req[t])
  BY DEF AnyOrderInv, LocalsInv, AllocatesAt
<1>2. PICK p \in UserPointers(slot[t], req[t]) :
          /\ ptr' = [ptr EXCEPT ![t] = p]
          /\ accessible' = accessible \cup PagesOf(p, req[t])
  OBVIOUS
<1>3. /\ p \in PoolAddresses /\ PagesOf(p, req[t]) = {SlotToAddr(slot[t])}
      /\ SlotToAddr(slot[t]) \in PoolAddresses
  BY <1>1, PlacedInSlot
<1>4. /\ Others(t) /\ pc'[t] = "record" /\ ptr'[t] = p
      /\ slot'[t] = slot[t] /\ req'[t] = req[t]
  BY <1>1, <1>2 DEF Others, TypeOK
<1>5. TypeOK'
  <2>1. ptr' \in [Threads -> PoolAddresses \cup {NULL}] /\ accessible' \subseteq PoolAddresses
    BY <1>1, <1>2, <1>3 DEF TypeOK
  <2> QED
    BY <1>1, <2>1 DEF TypeOK, PCs
<1>6. LocalsInv(t)'
  BY <1>1, <1>4 DEF LocalsInv, AllocatesAt, PlacedAt, FreesAt, DeallocatesAt
<1>7. AddrInv'
  BY DEF AnyOrderInv, AddrInv
<1>8. MutexInv' /\ ChoiceInv'
  BY <1>4, MutexKept, ChoiceKept DEF CriticalSection
<1> QED
  BY <1>4, <1>5, <1>6, <1>7, <1>8, LocalsKept DEF AnyOrderInv

LEMMA StoreAddrAny ==
    ASSUME AnyOrderInv, NEW t \in Threads, StoreAddr(t)
    PROVE  AnyOrderInv'
<1> USE DEF StoreAddr, At, Goto, poolVars, errorVars, clientVars
<1>1. /\ TypeOK /\ slot[t] \in Slots
      /\ req[t] \in Requests /\ Servable(req[t]) /\ ptr[t] \in UserPointers(slot[t], req[t])
      /\ \/ pc[t] = "record" /\ pc' = [pc EXCEPT ![t] = "recordFlag"]
         \/ pc[t] = "recordAddr" /\ pc' = [pc EXCEPT ![t] = "return"]
  BY DEF AnyOrderInv, LocalsInv, AllocatesAt, PlacedAt
<1>2. SlotMeta(t) = slot[t]
  BY <1>1, NearestOfSlotStart DEF SlotMeta
<1>3. ptr[t] \in Nat /\ ptr[t] \in SlotToAddr(slot[t]) .. SlotToAddr(slot[t]) + PageSize - 1
  BY <1>1, PlacedInSlot
<1>4. /\ metadata' \in [Slots -> [Addr : Nat, IsDeallocated : BOOLEAN]]
      /\ metadata'[slot[t]].Addr = ptr[t]
      /\ \A m \in Slots : m # slot[t] => metadata'[m] = metadata[m]
  BY <1>1, <1>2, <1>3, AddrStored
<1>5. /\ Others(t) /\ pc'[t] \in {"recordFlag", "return"}
      /\ slot'[t] = slot[t] /\ req'[t] = req[t] /\ ptr'[t] = ptr[t]
  BY <1>1 DEF Others, TypeOK
<1>6. TypeOK'
  BY <1>1, <1>4 DEF TypeOK, PCs
<1>7. LocalsInv(t)'
  BY <1>1, <1>5 DEF LocalsInv, AllocatesAt, PlacedAt, FreesAt, DeallocatesAt
<1>8. AddrInv'
  BY <1>3, <1>4 DEF AnyOrderInv, AddrInv
<1>9. MutexInv' /\ ChoiceInv'
  BY <1>5, MutexKept, ChoiceKept DEF CriticalSection
<1> QED
  BY <1>5, <1>6, <1>7, <1>8, <1>9, LocalsKept DEF AnyOrderInv

LEMMA StoreFlagAny ==
    ASSUME AnyOrderInv, NEW t \in Threads, StoreFlag(t)
    PROVE  AnyOrderInv'
<1> USE DEF StoreFlag, At, Goto, poolVars, errorVars, clientVars
<1>1. /\ TypeOK /\ slot[t] \in Slots
      /\ req[t] \in Requests /\ Servable(req[t]) /\ ptr[t] \in UserPointers(slot[t], req[t])
      /\ \/ pc[t] = "record" /\ pc' = [pc EXCEPT ![t] = "recordAddr"]
         \/ pc[t] = "recordFlag" /\ pc' = [pc EXCEPT ![t] = "return"]
  BY DEF AnyOrderInv, LocalsInv, AllocatesAt, PlacedAt
<1>2. SlotMeta(t) = slot[t]
  BY <1>1, NearestOfSlotStart DEF SlotMeta
<1>3. /\ metadata' \in [Slots -> [Addr : Nat, IsDeallocated : BOOLEAN]]
      /\ \A m \in Slots : metadata'[m].Addr = metadata[m].Addr
  <2>1. /\ metadata' \in [Slots -> [Addr : Nat, IsDeallocated : BOOLEAN]]
        /\ metadata'[slot[t]].Addr = metadata[slot[t]].Addr
        /\ \A m \in Slots : m # slot[t] => metadata'[m] = metadata[m]
    BY <1>1, <1>2, FlagStored
  <2> QED
    BY <2>1
<1>4. /\ Others(t) /\ pc'[t] \in {"recordAddr", "return"}
      /\ slot'[t] = slot[t] /\ req'[t] = req[t] /\ ptr'[t] = ptr[t]
  BY <1>1 DEF Others, TypeOK
<1>5. TypeOK'
  BY <1>1, <1>3 DEF TypeOK, PCs
<1>6. LocalsInv(t)'
  BY <1>1, <1>4 DEF LocalsInv, AllocatesAt, PlacedAt, FreesAt, DeallocatesAt
<1>7. AddrInv'
  BY <1>3 DEF AnyOrderInv, AddrInv
<1>8. MutexInv' /\ ChoiceInv'
  BY <1>4, MutexKept, ChoiceKept DEF CriticalSection
<1> QED
  BY <1>4, <1>5, <1>6, <1>7, <1>8, LocalsKept DEF AnyOrderInv

\* The end of a call, which leaves nothing to know.
LEMMA CallEnds ==
    ASSUME AnyOrderInv, NEW t \in Threads, ReturnFromCall(t)
    PROVE  /\ Others(t) /\ pc'[t] = "idle" /\ LocalsInv(t)'
           /\ pc' \in [Threads -> PCs] /\ req' \in [Threads -> Requests \cup {NoRequest}]
           /\ slot' \in [Threads -> Slots \cup {0}] /\ index' \in [Threads -> Nat]
           /\ ptr' \in [Threads -> PoolAddresses \cup {NULL}]
<1> USE DEF ReturnFromCall, Goto
<1>1. TypeOK
  BY DEF AnyOrderInv
<1>2. Others(t) /\ pc'[t] = "idle"
  BY <1>1 DEF Others, TypeOK
<1>3. LocalsInv(t)'
  BY <1>2 DEF LocalsInv, AllocatesAt, PlacedAt, FreesAt, DeallocatesAt
<1> QED
  BY <1>1, <1>2, <1>3 DEF TypeOK, PCs

LEMMA ReturnAny ==
    ASSUME AnyOrderInv, NEW t \in Threads, Return(t)
    PROVE  AnyOrderInv'
<1> USE DEF Return, At, poolVars, errorVars
<1>1. /\ TypeOK /\ slot[t] \in Slots
      /\ req[t] \in Requests /\ Servable(req[t]) /\ ptr[t] \in UserPointers(slot[t], req[t])
  BY DEF AnyOrderInv, LocalsInv, AllocatesAt, PlacedAt
<1>2. ptr[t] \in Nat /\ ptr[t] \in PoolAddresses
  BY <1>1, PlacedInSlot
<1>3. Block(ptr[t], req[t]) \in Blocks
  BY <1>1, <1>2, RequestType, BlockType
<1>4. live' \subseteq Blocks /\ issued' \subseteq PoolAddresses
  BY <1>1, <1>2, <1>3 DEF TypeOK
<1>5. TypeOK'
  BY <1>1, <1>4, CallEnds DEF TypeOK
<1>6. AddrInv'
  BY DEF AnyOrderInv, AddrInv
<1>7. MutexInv' /\ ChoiceInv'
  BY CallEnds, MutexKept, ChoiceKept DEF CriticalSection
<1> QED
  BY <1>5, <1>6, <1>7, CallEnds, LocalsKept DEF AnyOrderInv

LEMMA MallocAny ==
    ASSUME AnyOrderInv, NEW t \in Threads, Malloc(t)
    PROVE  AnyOrderInv'
<1> USE DEF Malloc, At, poolVars, errorVars
<1>1. TypeOK
  BY DEF AnyOrderInv
<1>2. \A a \in HeapAddresses : Block(a, req[t]) \in Blocks
  BY <1>1, RequestType, BlockType, ClientAssumption
<1>3. live' \subseteq Blocks
  <2>1. ASSUME NEW a \in HeapAddresses,
               live' = live \cup {Block(a, req[t])}
        PROVE  live' \subseteq Blocks
    BY <1>1, <1>2, <2>1 DEF TypeOK
  <2> QED
    BY <1>1, <2>1 DEF TypeOK
<1>4. TypeOK'
  BY <1>1, <1>3, CallEnds DEF TypeOK
<1>5. AddrInv'
  BY DEF AnyOrderInv, AddrInv
<1>6. MutexInv' /\ ChoiceInv'
  BY CallEnds, MutexKept, ChoiceKept DEF CriticalSection
<1> QED
  BY <1>4, <1>5, <1>6, CallEnds, LocalsKept DEF AnyOrderInv

LEMMA DeallocateAny ==
    ASSUME AnyOrderInv, NEW t \in Threads, NEW p \in Nat, Deallocate(t, p)
    PROVE  AnyOrderInv'
<1> USE DEF At, Goto, poolVars, errorVars
<1>1. /\ TypeOK /\ pc[t] = "idle" /\ live' \subseteq live
      /\ UNCHANGED << poolVars, errorVars, req, index, issued >>
  BY DEF Deallocate, AnyOrderInv
<1>2. CASE PointerIsMine(p)
  <2>1. p \in PoolAddresses
    BY <1>2, PoolAssumption DEF PointerIsMine, PoolAddresses, GuardedPagePoolEnd
  <2>2. GetNearestSlot(p) \in Slots
    BY <2>1, NearestIsSlot
  <2>3. /\ ptr' = [ptr EXCEPT ![t] = p] /\ slot' = [slot EXCEPT ![t] = GetNearestSlot(p)]
        /\ pc' = [pc EXCEPT ![t] = "checkAddr"]
    BY <1>2 DEF Deallocate
  <2>4. /\ Others(t) /\ pc'[t] = "checkAddr" /\ ptr'[t] = p
        /\ slot'[t] = GetNearestSlot(p)
    BY <1>1, <2>3 DEF Others, TypeOK
  <2>5. TypeOK'
    BY <1>1, <2>1, <2>2, <2>3 DEF TypeOK, PCs
  <2>6. LocalsInv(t)'
    BY <2>1, <2>4 DEF LocalsInv, AllocatesAt, PlacedAt, FreesAt, DeallocatesAt
  <2>7. AddrInv'
    BY <1>1 DEF AnyOrderInv, AddrInv
  <2>8. MutexInv' /\ ChoiceInv'
    BY <1>1, <2>4, MutexKept, ChoiceKept DEF CriticalSection
  <2> QED
    BY <2>4, <2>5, <2>6, <2>7, <2>8, LocalsKept DEF AnyOrderInv
<1>3. CASE ~ PointerIsMine(p)
  <2>1. UNCHANGED << pc, slot, ptr >>
    BY <1>3 DEF Deallocate
  <2> QED
    BY <1>1, <2>1 DEF AnyOrderInv, TypeOK, MutexInv, ChoiceInv, LocalsInv, AddrInv
<1> QED
  BY <1>2, <1>3

LEMMA RecordDeallocationAny ==
    ASSUME AnyOrderInv, NEW t \in Threads, RecordDeallocation(t)
    PROVE  AnyOrderInv'
<1> USE DEF RecordDeallocation, At, Goto, Unlock, poolVars, errorVars, clientVars
<1>1. /\ TypeOK /\ pc[t] = "recordDeallocation" /\ mutex = t
      /\ ptr[t] \in PoolAddresses /\ slot[t] = GetNearestSlot(ptr[t])
  BY DEF AnyOrderInv, MutexInv, CriticalSection, LocalsInv, FreesAt, DeallocatesAt
<1>2. slot[t] \in Slots
  BY <1>1, NearestIsSlot
<1>3. /\ metadata' \in [Slots -> [Addr : Nat, IsDeallocated : BOOLEAN]]
      /\ \A m \in Slots : metadata'[m].Addr = metadata[m].Addr
  <2>1. /\ metadata' \in [Slots -> [Addr : Nat, IsDeallocated : BOOLEAN]]
        /\ metadata'[slot[t]].Addr = metadata[slot[t]].Addr
        /\ \A m \in Slots : m # slot[t] => metadata'[m] = metadata[m]
    BY <1>1, <1>2, FlagStored
  <2> QED
    BY <2>1
<1>4. /\ Others(t) /\ pc'[t] = "unmap" /\ slot'[t] = slot[t] /\ ptr'[t] = ptr[t]
  BY <1>1 DEF Others, TypeOK
<1>5. TypeOK'
  BY <1>1, <1>3 DEF TypeOK, PCs
<1>6. LocalsInv(t)'
  BY <1>1, <1>4 DEF LocalsInv, AllocatesAt, PlacedAt, FreesAt, DeallocatesAt
<1>7. AddrInv'
  BY <1>3 DEF AnyOrderInv, AddrInv
<1>8. MutexInv' /\ ChoiceInv'
  BY <1>1, <1>4, MutexKept, ChoiceKept DEF CriticalSection
<1> QED
  BY <1>4, <1>5, <1>6, <1>7, <1>8, LocalsKept DEF AnyOrderInv

LEMMA UnmapAny ==
    ASSUME AnyOrderInv, NEW t \in Threads, Unmap(t)
    PROVE  AnyOrderInv'
<1> USE DEF Unmap, At, Goto, poolVars, errorVars, clientVars
<1>1. /\ TypeOK /\ pc[t] = "unmap"
      /\ ptr[t] \in PoolAddresses /\ slot[t] = GetNearestSlot(ptr[t])
  BY DEF AnyOrderInv, LocalsInv, FreesAt, DeallocatesAt
<1>2. /\ Others(t) /\ pc'[t] = "lockFreeSlot" /\ slot'[t] = slot[t] /\ ptr'[t] = ptr[t]
  BY <1>1 DEF Others, TypeOK
<1>3. TypeOK'
  BY <1>1 DEF TypeOK, PCs
<1>4. LocalsInv(t)'
  BY <1>1, <1>2 DEF LocalsInv, AllocatesAt, PlacedAt, FreesAt, DeallocatesAt
<1>5. AddrInv'
  BY DEF AnyOrderInv, AddrInv
<1>6. MutexInv' /\ ChoiceInv'
  BY <1>2, MutexKept, ChoiceKept DEF CriticalSection
<1> QED
  BY <1>2, <1>3, <1>4, <1>5, <1>6, LocalsKept DEF AnyOrderInv

LEMMA FreeSlotAny ==
    ASSUME AnyOrderInv, NEW t \in Threads, FreeSlot(t)
    PROVE  AnyOrderInv'
<1> USE DEF FreeSlot, Unlock, At, errorVars, clientVars
<1>1. /\ TypeOK /\ pc[t] = "freeSlot" /\ mutex = t
      /\ ptr[t] \in PoolAddresses /\ slot[t] = GetNearestSlot(ptr[t])
  BY DEF AnyOrderInv, MutexInv, CriticalSection, LocalsInv, FreesAt, DeallocatesAt
<1>2. slot[t] \in Slots
  BY <1>1, NearestIsSlot
<1>3. freeSlots' \in Seq(Slots)
  BY <1>1, <1>2 DEF TypeOK
<1>4. TypeOK'
  BY <1>1, <1>3, CallEnds DEF TypeOK
<1>5. AddrInv'
  BY DEF AnyOrderInv, AddrInv
<1>6. MutexInv' /\ ChoiceInv'
  BY <1>1, CallEnds, MutexKept, ChoiceKept DEF CriticalSection
<1> QED
  BY <1>4, <1>5, <1>6, CallEnds, LocalsKept DEF AnyOrderInv

\* Faults, and the trap.
LEMMA FaultAny ==
    ASSUME AnyOrderInv, NEW t \in Threads,
           \/ StoreFailureAddress(t)
           \/ \E p \in PoolAddresses \cup {NULL} : Access(t, p)
    PROVE  AnyOrderInv'
<1> USE DEF At, Goto, poolVars, errorVars, clientVars
<1>1. TypeOK
  BY DEF AnyOrderInv
<1>2. PICK p \in PoolAddresses \cup {NULL} :
          /\ ptr' = [ptr EXCEPT ![t] = p] /\ pc' = [pc EXCEPT ![t] = "fault"]
          /\ UNCHANGED << poolVars, failureType, crashed, req, slot, index, clientVars >>
          /\ failureAddress' \in PoolAddresses \cup {NULL}
  <2>1. CASE StoreFailureAddress(t)
    <3>1. ptr[t] \in PoolAddresses
      BY <2>1 DEF StoreFailureAddress, AnyOrderInv, LocalsInv, FreesAt
    <3>2. GuardedPagePool \in PoolAddresses
      <4>1. MaxSimultaneousAllocations # 0
        BY <3>1, PoolAssumption DEF PoolAddresses, GuardedPagePoolEnd
      <4>2. 0 \in Slots
        BY <4>1, PoolAssumption DEF Slots
      <4>3. GetNearestSlot(ptr[t]) \in Slots /\ GuardedPagePool < SlotToAddr(0)
        BY <3>1, <4>2, NearestIsSlot, SlotInPool, PoolAssumption
      <4> QED
        BY <4>2, <4>3, SlotInPool, PoolAssumption DEF PoolAddresses, GuardedPagePoolEnd
    <3> QED
      BY <2>1, <3>1, <3>2 DEF StoreFailureAddress
  <2>2. CASE \E p \in PoolAddresses \cup {NULL} : Access(t, p)
    BY <1>1, <2>2 DEF Access, TypeOK
  <2> QED
    BY <2>1, <2>2
<1>3. Others(t) /\ pc'[t] = "fault"
  BY <1>1, <1>2 DEF Others, TypeOK
<1>4. TypeOK'
  BY <1>1, <1>2 DEF TypeOK, PCs
<1>5. LocalsInv(t)'
  BY <1>3 DEF LocalsInv, AllocatesAt, PlacedAt, FreesAt, DeallocatesAt
<1>6. AddrInv'
  BY <1>2 DEF AnyOrderInv, AddrInv
<1>7. MutexInv' /\ ChoiceInv'
  BY <1>2, <1>3, MutexKept, ChoiceKept DEF CriticalSection
<1> QED
  BY <1>3, <1>4, <1>5, <1>6, <1>7, LocalsKept DEF AnyOrderInv

LEMMA DieAny ==
    ASSUME AnyOrderInv, NEW t \in Threads, Die(t)
    PROVE  AnyOrderInv'
BY DEF Die, AnyOrderInv, TypeOK, MutexInv, ChoiceInv, LocalsInv, AddrInv, poolVars, localVars,
   clientVars

-------------------------------------------------------------------------------
(***************************************************************************)
(* The invariant.                                                          *)
(***************************************************************************)
LEMMA InitAny == Init => AnyOrderInv
<1> SUFFICES ASSUME Init PROVE AnyOrderInv
  OBVIOUS
<1>1. TypeOK /\ MutexInv /\ ChoiceInv
  BY InitInd DEF IndInv
<1>2. AddrInv
  BY DEF Init, AddrInv
<1>3. \A t \in Threads : pc[t] = "idle"
  BY DEF Init
<1>4. \A t \in Threads : LocalsInv(t)
  BY <1>3 DEF LocalsInv, AllocatesAt, PlacedAt, FreesAt, DeallocatesAt
<1> QED
  BY <1>1, <1>2, <1>4 DEF AnyOrderInv

LEMMA InCallAny ==
    ASSUME AnyOrderInv, NEW t \in Threads, InCall(t)
    PROVE  AnyOrderInv'
<1>1. CASE AllocateStep(t)
  BY <1>1, MovesOnAny, ReserveSlotAny, RemoveSlotAny, MapSlotAny, StoreAddrAny, StoreFlagAny,
     ReturnAny, MallocAny DEF AllocateStep
<1>2. CASE DeallocateStep(t)
  BY <1>2, MovesOnAny, RecordDeallocationAny, UnmapAny, FreeSlotAny, FaultAny
  DEF DeallocateStep
<1> QED
  BY <1>1, <1>2 DEF InCall

LEMMA ClientAny ==
    ASSUME AnyOrderInv, NEW t \in Threads, OwnerCall(t) \/ Misuse(t)
    PROVE  AnyOrderInv'
<1>1. /\ PoolAddresses \subseteq Nat /\ issued \cup WildPointers \subseteq PoolAddresses
      /\ \A b \in live : b.addr \in Nat
  BY ClientAssumption, PoolAssumption, Z3
  DEF AnyOrderInv, TypeOK, Blocks, PoolAddresses, GuardedPagePoolEnd
<1>2. CASE OwnerCall(t)
  BY <1>1, <1>2, AllocateAny, DeallocateAny DEF OwnerCall
<1>3. CASE Misuse(t)
  BY <1>1, <1>3, DeallocateAny, FaultAny DEF Misuse
<1> QED
  BY <1>2, <1>3

LEMMA StutterAny ==
    ASSUME AnyOrderInv, UNCHANGED vars
    PROVE  AnyOrderInv'
BY DEF AnyOrderInv, TypeOK, MutexInv, ChoiceInv, LocalsInv, AddrInv, vars, poolVars, errorVars,
   localVars, clientVars

LEMMA NextAny ==
    ASSUME AnyOrderInv, [Next]_vars
    PROVE  AnyOrderInv'
BY InCallAny, ClientAny, DieAny, StutterAny DEF Next, ProcessIsDead

\* The invariant holds in every reachable state.
THEOREM InductiveAnyOrder == Spec => []AnyOrderInv
<1>1. AnyOrderInv /\ [Next]_vars => AnyOrderInv'
  BY NextAny
<1> QED
  BY InitAny, <1>1, PTL DEF Spec

\* Every variable keeps its type.
THEOREM TypeCorrect == Spec => []TypeOK
<1>1. AnyOrderInv => TypeOK
  BY DEF AnyOrderInv
<1> QED
  BY <1>1, InductiveAnyOrder, PTL

-------------------------------------------------------------------------------
(***************************************************************************)
(* The first error is the one that is reported.  The thread that recorded  *)
(* it keeps the mutex, so no other thread reaches trapOnAddress.           *)
(***************************************************************************)
Trapped(t) == mutex = t /\ pc[t] \in {"storeAddress", "fault"}

ErrorInv ==
    /\ failureAddress # NULL => failureType # "UNKNOWN"
    /\ failureType # "UNKNOWN" =>
          \E t \in Threads :
              /\ Trapped(t)
              /\ failureAddress # NULL => pc[t] = "fault"
    /\ \A t \in Threads : pc[t] = "storeAddress" => failureType # "UNKNOWN"

\* A step that leaves the failure on record, and the thread that recorded it,
\* alone.
Quiet(t) ==
    /\ UNCHANGED <<failureType, failureAddress>>
    /\ pc[t] \notin {"storeAddress", "fault"} /\ pc'[t] # "storeAddress"
    /\ \A u \in Threads : u # t => pc'[u] = pc[u]
    /\ mutex' = mutex \/ mutex = NoThread \/ mutex = t

LEMMA CallsAreQuiet ==
    ASSUME TypeOK, MutexInv, NEW t \in Threads,
           InCall(t), ~ StoreFailureType(t), ~ StoreFailureAddress(t)
    PROVE  Quiet(t)
<1> USE DEF Quiet, At, Goto, poolVars, errorVars, localVars, clientVars, TypeOK
<1>1. ASSUME LockReserve(t) \/ LockInvalidFree(t) \/ LockDeallocate(t) \/ LockFreeSlot(t)
      PROVE  Quiet(t)
  BY <1>1 DEF LockReserve, LockInvalidFree, LockDeallocate, LockFreeSlot, Lock
<1>2. ASSUME ReserveSlot(t)
      PROVE  Quiet(t)
  BY <1>2 DEF ReserveSlot, Unlock, MutexInv, CriticalSection
<1>3. ASSUME RemoveSlot(t) \/ RecordDeallocation(t)
      PROVE  Quiet(t)
  BY <1>3 DEF RemoveSlot, RecordDeallocation, Unlock, MutexInv, CriticalSection
<1>4. ASSUME FreeSlot(t)
      PROVE  Quiet(t)
  BY <1>4 DEF FreeSlot, Unlock, ReturnFromCall, MutexInv, CriticalSection
<1>5. ASSUME MapSlot(t) \/ StoreAddr(t) \/ StoreFlag(t)
      PROVE  Quiet(t)
  BY <1>5 DEF MapSlot, StoreAddr, StoreFlag
<1>6. ASSUME Return(t) \/ Malloc(t)
      PROVE  Quiet(t)
  BY <1>6 DEF Return, Malloc, ReturnFromCall
<1>7. ASSUME CheckAddr(t) \/ CheckDeallocated(t) \/ Unmap(t)
      PROVE  Quiet(t)
  BY <1>7 DEF CheckAddr, CheckDeallocated, Unmap
<1> QED BY <1>1, <1>2, <1>3, <1>4, <1>5, <1>6, <1>7, Zenon
        DEF InCall, AllocateStep, DeallocateStep

LEMMA ClientsAreQuiet ==
    ASSUME TypeOK, NEW t \in Threads, OwnerCall(t) \/ Misuse(t)
    PROVE  Quiet(t)
<1>1. ASSUME NEW r, Allocate(t, r)
      PROVE  Quiet(t)
  BY <1>1 DEF Allocate, Quiet, At, Goto, poolVars, errorVars, TypeOK
<1>2. ASSUME NEW p, Deallocate(t, p)
      PROVE  Quiet(t)
  BY <1>2 DEF Deallocate, Quiet, At, Goto, poolVars, errorVars, TypeOK
<1>3. ASSUME NEW p, Access(t, p)
      PROVE  Quiet(t)
  BY <1>3 DEF Access, Quiet, At, Goto, poolVars, errorVars, TypeOK
<1>4. CASE OwnerCall(t)
  BY <1>1, <1>2, <1>4 DEF OwnerCall
<1>5. CASE Misuse(t)
  BY <1>2, <1>3, <1>5 DEF Misuse
<1> QED BY <1>4, <1>5

\* A quiet step keeps the failure, whoever takes it.
LEMMA QuietKeepsError ==
    ASSUME TypeOK, ErrorInv, NEW t \in Threads, Quiet(t)
    PROVE  ErrorInv'
<1>1. /\ failureType' = failureType /\ failureAddress' = failureAddress
      /\ \A u \in Threads : Trapped(u) => Trapped(u)' /\ pc'[u] = pc[u]
      /\ \A u \in Threads : pc'[u] = "storeAddress" => pc[u] = "storeAddress"
  BY ClientAssumption DEF Quiet, Trapped
<1> QED BY <1>1 DEF ErrorInv

LEMMA ErrorInvNext ==
    ASSUME TypeOK, MutexInv, ErrorInv, [Next]_vars
    PROVE  /\ ErrorInv'
           /\ failureType # "UNKNOWN" => failureType' = failureType
           /\ failureAddress # NULL => failureAddress' = failureAddress
<1> DEFINE Kept == /\ ErrorInv'
                   /\ failureType # "UNKNOWN" => failureType' = failureType
                   /\ failureAddress # NULL => failureAddress' = failureAddress
<1>1. ASSUME NEW t \in Threads, Quiet(t)
      PROVE  Kept
  BY <1>1, QuietKeepsError DEF Quiet
<1>2. ASSUME NEW t \in Threads, StoreFailureType(t)
      PROVE  Kept
  <2>1. mutex = t /\ mutex' = t /\ pc[t] \notin {"storeAddress", "fault"}
    BY <1>2 DEF StoreFailureType, At, MutexInv, CriticalSection, poolVars
  <2>2. failureType = "UNKNOWN" /\ failureAddress = NULL
    BY <2>1 DEF ErrorInv, Trapped
  <2>3. /\ pc'[t] = "storeAddress" /\ failureAddress' = NULL
        /\ failureType' # "UNKNOWN"
    BY <1>2, <2>2 DEF StoreFailureType, Goto, TypeOK
  <2>4. ErrorInv'
    BY <2>1, <2>3 DEF ErrorInv, Trapped
  <2> QED BY <2>2, <2>4
<1>3. ASSUME NEW t \in Threads, StoreFailureAddress(t)
      PROVE  Kept
  <2>1. mutex = t /\ mutex' = t /\ pc[t] = "storeAddress" /\ failureType' = failureType
    BY <1>3 DEF StoreFailureAddress, At, MutexInv, CriticalSection, poolVars
  <2>2. failureAddress = NULL
    BY <2>1 DEF ErrorInv, Trapped
  <2>3. pc'[t] = "fault"
    BY <1>3 DEF StoreFailureAddress, Goto, TypeOK
  <2> QED BY <2>1, <2>2, <2>3 DEF ErrorInv, Trapped
<1>4. ASSUME NEW t \in Threads, Die(t)
      PROVE  Kept
  BY <1>4 DEF Die, ErrorInv, Trapped, poolVars, localVars
<1>5. ASSUME UNCHANGED vars
      PROVE  Kept
  BY <1>5 DEF vars, poolVars, errorVars, localVars, ErrorInv, Trapped
<1> HIDE DEF Kept
<1>6. ASSUME NEW t \in Threads, InCall(t) \/ OwnerCall(t) \/ Misuse(t) \/ Die(t)
      PROVE  Kept
  BY <1>1, <1>2, <1>3, <1>4, <1>6, CallsAreQuiet, ClientsAreQuiet
<1>7. Kept
  BY <1>5, <1>6 DEF Next, ProcessIsDead
<1> QED BY <1>7 DEF Kept

\* "If multiple errors occur at the same time, use the first one": the error on
\* record is never replaced.
THEOREM FirstErrorWins == Spec => FirstErrorIsKept
<1>1. Init => ErrorInv
  BY DEF Init, ErrorInv
<1>2. AnyOrderInv /\ ErrorInv /\ [Next]_vars => ErrorInv'
  BY ErrorInvNext DEF AnyOrderInv
<1>3. AnyOrderInv /\ ErrorInv /\ [Next]_vars =>
         [/\ failureType # "UNKNOWN" => failureType' = failureType
          /\ failureAddress # NULL => failureAddress' = failureAddress]_vars
  BY ErrorInvNext DEF AnyOrderInv
<1> QED
  BY <1>1, <1>2, <1>3, InductiveAnyOrder, PTL DEF Spec, FirstErrorIsKept

===============================================================================
