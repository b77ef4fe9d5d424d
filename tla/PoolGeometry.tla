----------------------------- MODULE PoolGeometry -----------------------------
(***************************************************************************)
(* The address arithmetic of the guarded page pool of remniw's runtime     *)
(* (src/runtime/aphotic_shield/guarded_pool_allocator.{h,cpp}).            *)
(*                                                                         *)
(* The pool is one mapping of 2N+1 pages, N = MaxSimultaneousAllocations:  *)
(*                                                                         *)
(*      guard | slot 0 | guard | slot 1 | guard | ... | slot N-1 | guard   *)
(*                                                                         *)
(* Addresses are natural numbers, and the bit masks of the code (which     *)
(* assume powers of two) are written with % .                              *)
(***************************************************************************)
EXTENDS Integers

CONSTANTS
    GuardedPagePool,             \* the address mmap returned for the pool
    PageSize,                    \* sysconf(_SC_PAGESIZE)
    MaxSimultaneousAllocations,  \* the number of slots; 0 when the shield is off
    DefaultAlignment             \* alignof(max_align_t)

\* (x & (x - 1)) == 0: a power of two, or zero
IsPowerOfTwo(x) == x = 0 \/ \E k \in 0..x : x = 2 ^ k

\* mmap returns a non-null page address; the page size and the default
\* alignment are powers of two, the second one at most the first.
ASSUME PoolAssumption ==
    /\ MaxSimultaneousAllocations \in Nat
    /\ PageSize \in Nat \ {0}
    /\ GuardedPagePool \in Nat \ {0}
    /\ GuardedPagePool % PageSize = 0

\* What "power of two" is used for: every alignment the pool accepts divides
\* the page size.
ASSUME AlignmentAssumption ==
    /\ DefaultAlignment \in 1 .. PageSize
    /\ IsPowerOfTwo(DefaultAlignment)
    /\ \A a \in 1 .. PageSize : IsPowerOfTwo(a) => PageSize % a = 0

Slots == 0 .. MaxSimultaneousAllocations - 1

GuardedPagePoolEnd ==
    IF MaxSimultaneousAllocations = 0
    THEN 0
    ELSE GuardedPagePool + PageSize * (1 + 2 * MaxSimultaneousAllocations)

PoolAddresses == GuardedPagePool .. GuardedPagePoolEnd - 1

PointerIsMine(ptr) ==
    /\ MaxSimultaneousAllocations # 0
    /\ ptr < GuardedPagePoolEnd
    /\ GuardedPagePool <= ptr

-------------------------------------------------------------------------------
RoundUpTo(size, boundary) == ((size + boundary - 1) \div boundary) * boundary

PageAddr(ptr) == ptr - (ptr % PageSize)

AlignUp(ptr, alignment) ==
    IF ptr % alignment = 0 THEN ptr ELSE ptr + (alignment - (ptr % alignment))

AlignDown(ptr, alignment) == ptr - (ptr % alignment)

SlotToAddr(n) == GuardedPagePool + PageSize * (1 + n) + PageSize * n

AddrToSlot(ptr) == (ptr - GuardedPagePool) \div (PageSize + PageSize)

IsGuardPage(ptr) == ((ptr - GuardedPagePool) \div PageSize) % 2 = 0

\* Slip: a guard page belongs to the slot before it, whichever end was touched.
SlotBefore(ptr) ==
    IF ptr <= GuardedPagePool + PageSize THEN 0
    ELSE IF IsGuardPage(ptr) THEN AddrToSlot(ptr - PageSize) ELSE AddrToSlot(ptr)

GetNearestSlot(ptr) ==
    CASE ptr <= GuardedPagePool + PageSize   -> 0
      [] ptr > GuardedPagePoolEnd - PageSize -> MaxSimultaneousAllocations - 1
      [] OTHER ->
           IF ~ IsGuardPage(ptr)                     THEN AddrToSlot(ptr)
           ELSE IF ptr % PageSize <= PageSize \div 2 THEN AddrToSlot(ptr - PageSize)
           ELSE AddrToSlot(ptr + PageSize)

-------------------------------------------------------------------------------
(***************************************************************************)
(* The request arithmetic of allocate.  A request is [size, alignment].    *)
(***************************************************************************)
EffectiveSize(r) == IF r.size = 0 THEN 1 ELSE r.size

EffectiveAlignment(r) ==
    IF r.alignment = 0 THEN DefaultAlignment ELSE r.alignment

Servable(r) ==
    /\ MaxSimultaneousAllocations # 0
    /\ IsPowerOfTwo(EffectiveAlignment(r))
    /\ EffectiveAlignment(r) <= PageSize
    /\ EffectiveSize(r) <= PageSize

\* The two addresses allocate may choose between in slot n: the left end of
\* the page and the right end.
UserPointers(n, r) ==
    { AlignUp(SlotToAddr(n), EffectiveAlignment(r)),
      AlignDown(SlotToAddr(n) + PageSize - EffectiveSize(r), EffectiveAlignment(r)) }

\* The pages allocateInGuardedPool makes accessible for a user pointer.
PagesOf(ptr, r) ==
    { PageAddr(ptr) + PageSize * i :
        i \in 0 .. (RoundUpTo(EffectiveSize(r), PageSize) \div PageSize) - 1 }

===============================================================================
