-------------------------- MODULE PoolGeometryProofs --------------------------
(***************************************************************************)
(* What the address arithmetic of module PoolGeometry computes, for every  *)
(* page size, pool address and number of slots.                            *)
(***************************************************************************)
EXTENDS PoolGeometry, TLAPS

\* The quotient and the remainder of a division by d.
LEMMA DivMod ==
    ASSUME NEW a \in Nat, NEW d \in Nat \ {0}
    PROVE  /\ a \div d \in Nat
           /\ a % d \in 0 .. d - 1
           /\ a = d * (a \div d) + (a % d)
  BY Z3

LEMMA DivUnique ==
    ASSUME NEW a \in Nat, NEW d \in Nat \ {0}, NEW q \in Nat, NEW r \in 0 .. d - 1,
           a = d * q + r
    PROVE  a \div d = q /\ a % d = r
  BY Z3

\* Slot n's page is inside the pool.
LEMMA SlotInPool ==
    ASSUME NEW n \in Slots
    PROVE  /\ SlotToAddr(n) \in Nat
           /\ SlotToAddr(n) \in PoolAddresses
           /\ SlotToAddr(n) + PageSize < GuardedPagePoolEnd
           /\ SlotToAddr(n) >= GuardedPagePool + PageSize
  BY PoolAssumption, Z3 DEF SlotToAddr, PoolAddresses, GuardedPagePoolEnd, Slots

LEMMA SlotPageInPool ==
    ASSUME NEW n \in Slots, NEW p \in SlotToAddr(n) .. SlotToAddr(n) + PageSize - 1
    PROVE  p \in PoolAddresses
<1>1. GuardedPagePoolEnd \in Nat /\ GuardedPagePool \in Nat /\ PageSize \in Nat
  BY PoolAssumption, Z3 DEF GuardedPagePoolEnd
<1> QED BY <1>1, SlotInPool DEF PoolAddresses

\* Where the bytes of the pool are: o bytes into page k of the pool.
LEMMA PoolOffset ==
    ASSUME NEW k \in Nat, NEW o \in 0 .. PageSize - 1,
           NEW p \in Nat, p = GuardedPagePool + PageSize * k + o
    PROVE  /\ p % PageSize = o
           /\ PageAddr(p) = GuardedPagePool + PageSize * k
           /\ k % 2 = 0 => IsGuardPage(p)
           /\ k % 2 = 1 => ~ IsGuardPage(p)
<1> DEFINE b == GuardedPagePool \div PageSize
           q == p - GuardedPagePool
<1>1. /\ b \in Nat
      /\ GuardedPagePool = PageSize * b
      /\ PageSize \in Nat \ {0}
      /\ GuardedPagePool \in Nat
  BY DivMod, PoolAssumption, Z3
<1> HIDE DEF b
<1>2. p = PageSize * (b + k) + o /\ b + k \in Nat
  BY <1>1, Z3
<1>3. p % PageSize = o
  BY <1>1, <1>2, DivUnique
<1>4. q \in Nat /\ q = PageSize * k + o
  BY <1>1, Z3
<1> HIDE DEF q
<1>5. q \div PageSize = k
  BY <1>1, <1>4, DivUnique
<1>6. PageAddr(p) = GuardedPagePool + PageSize * k
  BY <1>1, <1>3, Z3 DEF PageAddr
<1> QED
  BY <1>3, <1>5, <1>6 DEF IsGuardPage, q

\* The slot an address o bytes past the start of a pair of pages belongs to.
LEMMA PairOffset ==
    ASSUME NEW n \in Nat, NEW o \in 0 .. PageSize + PageSize - 1,
           NEW p \in Nat, p = GuardedPagePool + (PageSize + PageSize) * n + o
    PROVE  AddrToSlot(p) = n
<1> DEFINE q == p - GuardedPagePool
           d == PageSize + PageSize
<1>1. d \in Nat \ {0} /\ GuardedPagePool \in Nat
  BY PoolAssumption
<1>2. o \in 0 .. d - 1 /\ o \in Nat /\ p = GuardedPagePool + d * n + o
  BY <1>1, PoolAssumption
<1> HIDE DEF d
<1>3. q \div d = n
  <2>1. d * n \in Nat
    BY <1>1, Z3
  <2>2. q \in Nat /\ q = d * n + o
    BY <1>1, <1>2, <2>1
  <2> HIDE DEF q
  <2> QED BY <1>1, <1>2, <2>2, DivUnique
<1> QED
  BY <1>3 DEF AddrToSlot, q, d

\* An address in a slot's page is attributed to that slot, and its page is the
\* slot's.
LEMMA NearestInSlot ==
    ASSUME NEW n \in Slots, NEW p \in SlotToAddr(n) .. SlotToAddr(n) + PageSize - 1
    PROVE  /\ GetNearestSlot(p) = n
           /\ PageAddr(p) = SlotToAddr(n)
           /\ ~ IsGuardPage(p)
<1> DEFINE o == p - SlotToAddr(n)
           k == 1 + n + n
<1>1. /\ n \in Nat /\ o \in 0 .. PageSize - 1 /\ p \in Nat
      /\ MaxSimultaneousAllocations \in Nat \ {0} /\ n < MaxSimultaneousAllocations
      /\ PageSize \in Nat \ {0} /\ GuardedPagePool \in Nat
  BY PoolAssumption, SlotInPool DEF Slots
<1>2. p = GuardedPagePool + PageSize * k + o
  BY <1>1, Z3 DEF SlotToAddr
<1>3. k \in Nat /\ k % 2 = 1
  BY <1>1
<1> HIDE DEF o, k
<1>4. ~ IsGuardPage(p)
  BY <1>1, <1>2, <1>3, PoolOffset
<1>5. PageAddr(p) = SlotToAddr(n)
  <2>1. PageAddr(p) = GuardedPagePool + PageSize * k
    BY <1>1, <1>2, <1>3, PoolOffset
  <2>2. SlotToAddr(n) = GuardedPagePool + PageSize * k
    BY <1>1, Z3 DEF SlotToAddr, k
  <2> QED BY <2>1, <2>2
<1>6. AddrToSlot(p) = n
  <2>1. p = GuardedPagePool + (PageSize + PageSize) * n + (PageSize + o)
    BY <1>1, <1>2, Z3 DEF k
  <2>2. PageSize + o \in 0 .. PageSize + PageSize - 1
    BY <1>1
  <2> QED BY <1>1, <2>1, <2>2, PairOffset
<1>7. p <= GuardedPagePool + PageSize => n = 0
  BY <1>1, <1>2, Z3 DEF k
<1>8. ~ (p > GuardedPagePoolEnd - PageSize)
  BY <1>1, <1>2, SlotInPool, Z3 DEF k, GuardedPagePoolEnd
<1> QED
  BY <1>4, <1>5, <1>6, <1>7, <1>8 DEF GetNearestSlot

\* The half of a guard page next to a slot belongs to it: the half after it ...
LEMMA NearestAfterSlot ==
    ASSUME NEW n \in Slots,
           NEW p \in SlotToAddr(n) + PageSize .. SlotToAddr(n) + PageSize + PageSize \div 2
    PROVE  IsGuardPage(p) /\ GetNearestSlot(p) = n
<1> DEFINE k == 2 + n + n
           o == p - (SlotToAddr(n) + PageSize)
           h == PageSize \div 2
<1>1. /\ n \in Nat /\ MaxSimultaneousAllocations \in Nat \ {0}
      /\ n < MaxSimultaneousAllocations
      /\ PageSize \in Nat \ {0} /\ GuardedPagePool \in Nat /\ SlotToAddr(n) \in Nat
  BY PoolAssumption, SlotInPool DEF Slots
<1>2. h \in Nat /\ h < PageSize
  BY <1>1
<1>3. p \in Nat /\ o \in 0 .. h /\ o \in 0 .. PageSize - 1
  BY <1>1, <1>2
<1>4. p = GuardedPagePool + PageSize * k + o
  BY <1>1, <1>3, Z3 DEF SlotToAddr
<1>5. k \in Nat /\ k % 2 = 0
  BY <1>1
<1> HIDE DEF o, k, h
<1>6. IsGuardPage(p) /\ p % PageSize = o
  BY <1>3, <1>4, <1>5, PoolOffset
<1>7. AddrToSlot(p - PageSize) = n
  <2>1. /\ p - PageSize = GuardedPagePool + (PageSize + PageSize) * n + (PageSize + o)
        /\ PageSize + o \in 0 .. PageSize + PageSize - 1 /\ p - PageSize \in Nat
    BY <1>1, <1>3, <1>4, Z3 DEF k
  <2> QED
    BY <1>1, <2>1, PairOffset
<1>8. ~ (p <= GuardedPagePool + PageSize)
  BY <1>1, <1>3, <1>4, Z3 DEF k
<1>9. p > GuardedPagePoolEnd - PageSize => n = MaxSimultaneousAllocations - 1
  BY <1>1, <1>3, <1>4, Z3 DEF k, GuardedPagePoolEnd
<1> QED
  BY <1>3, <1>6, <1>7, <1>8, <1>9 DEF GetNearestSlot, h

\* ... and the half before it.
LEMMA NearestBeforeSlot ==
    ASSUME NEW n \in Slots, NEW p \in SlotToAddr(n) - PageSize \div 2 + 1 .. SlotToAddr(n) - 1
    PROVE  IsGuardPage(p) /\ GetNearestSlot(p) = n
<1> DEFINE k == n + n
           h == PageSize \div 2
           o == p - (SlotToAddr(n) - PageSize)
<1>1. /\ n \in Nat /\ MaxSimultaneousAllocations \in Nat \ {0}
      /\ n < MaxSimultaneousAllocations
      /\ PageSize \in Nat \ {0} /\ GuardedPagePool \in Nat /\ SlotToAddr(n) \in Nat
      /\ SlotToAddr(n) >= GuardedPagePool + PageSize
  BY PoolAssumption, SlotInPool DEF Slots
<1>2. h \in Nat /\ h + h <= PageSize
  BY <1>1
<1>3. p \in Nat /\ o \in 0 .. PageSize - 1 /\ o > h
  BY <1>1, <1>2
<1>4. p = GuardedPagePool + PageSize * k + o
  BY <1>1, <1>3, Z3 DEF SlotToAddr
<1>5. k \in Nat /\ k % 2 = 0
  BY <1>1
<1> HIDE DEF o, k, h
<1>6. IsGuardPage(p) /\ p % PageSize = o
  BY <1>3, <1>4, <1>5, PoolOffset
<1>7. AddrToSlot(p + PageSize) = n
  <2>1. /\ p + PageSize = GuardedPagePool + (PageSize + PageSize) * n + (PageSize + o)
        /\ PageSize + o \in 0 .. PageSize + PageSize - 1 /\ p + PageSize \in Nat
    BY <1>1, <1>3, <1>4, Z3 DEF k
  <2> QED
    BY <1>1, <2>1, PairOffset
<1>8. p <= GuardedPagePool + PageSize => n = 0
  BY <1>1, <1>3, <1>4, Z3 DEF k
<1>9. ~ (p > GuardedPagePoolEnd - PageSize)
  BY <1>1, <1>3, <1>4, Z3 DEF k, GuardedPagePoolEnd
<1>10. ~ (p % PageSize <= PageSize \div 2)
  BY <1>2, <1>3, <1>6 DEF h
<1> QED
  BY <1>6, <1>7, <1>8, <1>9, <1>10 DEF GetNearestSlot

\* addrToMetadata(SlotStart) is the slot's own metadata.
LEMMA NearestOfSlotStart ==
    ASSUME NEW n \in Slots
    PROVE  GetNearestSlot(SlotToAddr(n)) = n
<1>1. SlotToAddr(n) \in SlotToAddr(n) .. SlotToAddr(n) + PageSize - 1
  BY SlotInPool, PoolAssumption
<1> QED BY <1>1, NearestInSlot

\* Two slots never start at the same address.
LEMMA SlotToAddrInjective ==
    ASSUME NEW m \in Slots, NEW n \in Slots, SlotToAddr(m) = SlotToAddr(n)
    PROVE  m = n
  BY NearestOfSlotStart

\* Every address of the pool, in a guard page or not, has a nearest slot: the
\* metadata array is never indexed out of its bounds.
LEMMA NearestIsSlot ==
    ASSUME NEW p \in PoolAddresses
    PROVE  GetNearestSlot(p) \in Slots
<1> DEFINE q == p - GuardedPagePool
           k == q \div PageSize
           o == q % PageSize
           N == MaxSimultaneousAllocations
<1>1. /\ p \in Nat /\ q \in Nat
      /\ GuardedPagePool <= p /\ p < GuardedPagePoolEnd
      /\ PageSize \in Nat \ {0} /\ GuardedPagePool \in Nat \ {0}
      /\ N \in Nat
  BY PoolAssumption, Z3 DEF PoolAddresses, GuardedPagePoolEnd
<1>2. N > 0 /\ GuardedPagePoolEnd = GuardedPagePool + PageSize * (1 + 2 * N)
  BY <1>1 DEF GuardedPagePoolEnd
<1>3. k \in Nat /\ o \in 0 .. PageSize - 1 /\ q = PageSize * k + o
  BY <1>1, DivMod
<1>4. p = GuardedPagePool + PageSize * k + o
  BY <1>1, <1>3, Z3
<1> HIDE DEF q, k, o
<1>5. /\ p % PageSize = o
      /\ k % 2 = 0 => IsGuardPage(p)
      /\ k % 2 = 1 => ~ IsGuardPage(p)
  <2>1. p \in Nat /\ k \in Nat /\ o \in 0 .. PageSize - 1
    BY <1>1, <1>3
  <2> QED BY <1>4, <2>1, PoolOffset
<1>6. CASE p <= GuardedPagePool + PageSize
  BY <1>1, <1>2, <1>6 DEF GetNearestSlot, Slots
<1>7. CASE p > GuardedPagePoolEnd - PageSize /\ ~ (p <= GuardedPagePool + PageSize)
  BY <1>1, <1>2, <1>7 DEF GetNearestSlot, Slots
<1>8. CASE ~ (p > GuardedPagePoolEnd - PageSize) /\ ~ (p <= GuardedPagePool + PageSize)
  <2>1. PageSize * k + o <= PageSize * (2 * N)
    BY <1>1, <1>2, <1>3, <1>4, <1>8, Z3
  <2>2. k <= 2 * N /\ k >= 1 /\ (k = 2 * N => o = 0)
    BY <1>1, <1>2, <1>3, <1>4, <1>8, <2>1, Z3
  <2>3. CASE k % 2 = 1
    <3>1. PICK j \in Nat : k = 2 * j + 1 /\ j < N
      <4>1. k \div 2 \in Nat /\ k = 2 * (k \div 2) + 1 /\ k \div 2 < N
        BY <1>1, <1>3, <2>2, <2>3
      <4> QED BY <4>1
    <3>2. p = GuardedPagePool + (PageSize + PageSize) * j + (PageSize + o)
      BY <1>1, <1>3, <1>4, <3>1, Z3
    <3>3. AddrToSlot(p) = j
      <4>1. PageSize + o \in 0 .. PageSize + PageSize - 1
        BY <1>1, <1>3
      <4> QED BY <1>1, <3>1, <3>2, <4>1, PairOffset
    <3>4. GetNearestSlot(p) = j
      BY <1>5, <1>8, <2>3, <3>3 DEF GetNearestSlot
    <3> QED BY <1>1, <3>1, <3>4 DEF Slots
  <2>4. CASE k % 2 = 0
    <3>1. PICK j \in Nat : k = 2 * j /\ j <= N /\ j >= 1
      <4>1. k \div 2 \in Nat /\ k = 2 * (k \div 2) /\ k \div 2 <= N /\ k \div 2 >= 1
        BY <1>1, <1>3, <2>2, <2>4
      <4> QED BY <4>1
    <3>2. p - PageSize = GuardedPagePool + (PageSize + PageSize) * (j - 1) + (PageSize + o)
      BY <1>1, <1>3, <1>4, <3>1, Z3
    <3>3. AddrToSlot(p - PageSize) = j - 1
      <4>1. p - PageSize \in Nat /\ j - 1 \in Nat /\ PageSize + o \in 0 .. PageSize + PageSize - 1
        BY <1>1, <1>3, <1>8, <3>1
      <4> HIDE DEF N
      <4> QED BY <3>2, <4>1, PairOffset
    <3>4. p + PageSize = GuardedPagePool + (PageSize + PageSize) * j + (PageSize + o)
      BY <1>1, <1>3, <1>4, <3>1, Z3
    <3>5. AddrToSlot(p + PageSize) = j
      <4>1. p + PageSize \in Nat /\ PageSize + o \in 0 .. PageSize + PageSize - 1
        BY <1>1, <1>3
      <4> QED BY <3>1, <3>4, <4>1, PairOffset
    <3>6. CASE o <= PageSize \div 2
      <4>1. GetNearestSlot(p) = j - 1
        BY <1>5, <1>8, <2>4, <3>3, <3>6 DEF GetNearestSlot
      <4> QED BY <1>1, <3>1, <4>1 DEF Slots
    <3>7. CASE ~ (o <= PageSize \div 2)
      <4>1. GetNearestSlot(p) = j
        BY <1>5, <1>8, <2>4, <3>5, <3>7 DEF GetNearestSlot
      <4>2. PageSize \div 2 \in Nat
        BY <1>1
      <4>3. j < N
        BY <1>1, <1>3, <2>2, <3>1, <3>7, <4>2
      <4> QED BY <1>1, <3>1, <4>1, <4>3 DEF Slots
    <3> QED BY <3>6, <3>7
  <2> QED BY <1>3, <2>3, <2>4
<1> QED BY <1>6, <1>7, <1>8

\* The alignment of a request the pool serves divides the start of every slot.
LEMMA SlotStartAligned ==
    ASSUME NEW n \in Slots, NEW r \in [size : Nat, alignment : Nat], Servable(r)
    PROVE  /\ EffectiveSize(r) \in 1 .. PageSize
           /\ EffectiveAlignment(r) \in 1 .. PageSize
           /\ SlotToAddr(n) % EffectiveAlignment(r) = 0
<1> DEFINE S == SlotToAddr(n)
           a == EffectiveAlignment(r)
<1>1. /\ PageSize \in Nat \ {0} /\ S \in Nat
      /\ EffectiveSize(r) \in 1 .. PageSize /\ a \in 1 .. PageSize
      /\ PageSize % a = 0
  <2>1. PageSize \in Nat \ {0} /\ S \in Nat
    BY PoolAssumption, SlotInPool
  <2>2. EffectiveSize(r) \in 1 .. PageSize
    BY <2>1 DEF Servable, EffectiveSize
  <2>3. a \in 1 .. PageSize /\ IsPowerOfTwo(a)
    <3>1. a \in Nat \ {0}
      BY AlignmentAssumption, <2>1 DEF EffectiveAlignment
    <3> HIDE DEF a
    <3> QED BY <2>1, <3>1 DEF Servable, a
  <2> HIDE DEF a, S
  <2>4. PageSize % a = 0
    BY <2>3, AlignmentAssumption
  <2> QED BY <2>1, <2>2, <2>3, <2>4
<1> HIDE DEF S, a
<1>2. S % a = 0
  <2> DEFINE b == GuardedPagePool \div PageSize
             m == PageSize \div a
             q == m * (b + 1 + n + n)
  <2>1. b \in Nat /\ GuardedPagePool = PageSize * b /\ n \in Nat
    <3>1. GuardedPagePool \in Nat /\ PageSize \in Nat \ {0} /\ GuardedPagePool % PageSize = 0
      BY PoolAssumption
    <3>2. n \in Nat
      BY PoolAssumption DEF Slots
    <3>3. b \in Nat /\ GuardedPagePool = PageSize * b
      BY DivMod, <3>1
    <3> QED BY <3>2, <3>3
  <2>2. m \in Nat /\ PageSize = a * m
    <3>1. a \in Nat \ {0} /\ PageSize \in Nat
      BY <1>1
    <3>2. m \in Nat /\ PageSize = a * m + (PageSize % a)
      BY <3>1, DivMod
    <3> HIDE DEF m
    <3>3. a * m \in Nat
      BY <3>1, <3>2, Z3
    <3> QED BY <1>1, <3>2, <3>3
  <2> HIDE DEF b, m
  <2>3. S = PageSize * (b + 1 + n + n)
    BY <1>1, <2>1, Z3 DEF SlotToAddr, S
  <2>4. q \in Nat /\ S = a * q + 0
    BY <1>1, <2>1, <2>2, <2>3, Z3
  <2>5. a \in Nat \ {0} /\ 0 \in 0 .. a - 1
    BY <1>1
  <2> HIDE DEF q
  <2> QED BY <1>1, <2>4, <2>5, DivUnique
<1> QED
  BY <1>1, <1>2 DEF S, a

\* Where allocate puts a block: wholly inside the slot's page, at either end.
LEMMA UserPointerInSlot ==
    ASSUME NEW n \in Slots, NEW r \in [size : Nat, alignment : Nat], Servable(r),
           NEW p \in UserPointers(n, r)
    PROVE  /\ p \in Nat
           /\ EffectiveSize(r) \in 1 .. PageSize
           /\ SlotToAddr(n) <= p
           /\ p + EffectiveSize(r) <= SlotToAddr(n) + PageSize
<1> DEFINE S == SlotToAddr(n)
           a == EffectiveAlignment(r)
           z == EffectiveSize(r)
           e == S + PageSize - z
<1>1. /\ PageSize \in Nat \ {0} /\ S \in Nat
      /\ z \in 1 .. PageSize /\ a \in 1 .. PageSize
      /\ e \in Nat /\ e >= S
  <2>1. PageSize \in Nat \ {0} /\ S \in Nat
    BY PoolAssumption, SlotInPool
  <2>2. z \in 1 .. PageSize /\ a \in 1 .. PageSize
    BY SlotStartAligned
  <2> HIDE DEF a, S, z
  <2>3. e \in Nat /\ e >= S
    BY <2>1, <2>2
  <2> QED BY <2>1, <2>2, <2>3
<1> HIDE DEF S, a, z, e
<1>2. S % a = 0
  BY SlotStartAligned DEF S, a
<1>3. CASE p = AlignUp(S, a)
  BY <1>1, <1>2, <1>3 DEF AlignUp, e, S, z
<1>4. CASE p = AlignDown(e, a)
  <2>1. e % a \in 0 .. a - 1
    BY <1>1
  <2>2. p = e - (e % a)
    BY <1>4 DEF AlignDown
  \* S is a multiple of a at or below e, so rounding e down stops at or above S.
  <2>3. p >= S
    <3> DEFINE f == e \div a
               s == S \div a
    <3>1. a \in Nat \ {0} /\ e \in Nat /\ S \in Nat
      BY <1>1
    <3>2. f \in Nat /\ e = a * f + (e % a) /\ s \in Nat /\ S = a * s
      BY <1>2, <3>1, DivMod
    <3> HIDE DEF f, s
    <3>3. p = a * f
      BY <2>1, <2>2, <3>1, <3>2
    <3>4. s <= f
      <4>1. SUFFICES ASSUME s >= f + 1 PROVE FALSE
        BY <3>2
      <4>2. a * s >= a * f + a
        BY <3>1, <3>2, <4>1, Z3
      <4> QED BY <1>1, <2>1, <3>1, <3>2, <4>2
    <3> QED BY <3>1, <3>2, <3>3, <3>4, Z3
  <2> QED BY <1>1, <2>1, <2>2, <2>3 DEF e, S, z
<1> QED
  BY <1>3, <1>4 DEF UserPointers, S, a, z, e

\* ... aligned as asked, at either end.
LEMMA UserPointerAligned ==
    ASSUME NEW n \in Slots, NEW r \in [size : Nat, alignment : Nat], Servable(r),
           NEW p \in UserPointers(n, r)
    PROVE  p % EffectiveAlignment(r) = 0
<1> DEFINE S == SlotToAddr(n)
           a == EffectiveAlignment(r)
           e == S + PageSize - EffectiveSize(r)
<1>1. /\ a \in Nat \ {0} /\ S % a = 0 /\ e \in Nat
  <2>1. /\ PageSize \in Nat /\ S \in Nat
        /\ EffectiveSize(r) \in 1 .. PageSize /\ a \in 1 .. PageSize /\ S % a = 0
    BY PoolAssumption, SlotInPool, SlotStartAligned
  <2> HIDE DEF a, S
  <2> QED BY <2>1 DEF e
<1> HIDE DEF S, a, e
<1>2. ASSUME p = AlignUp(S, a) PROVE p % a = 0
  BY <1>1, <1>2 DEF AlignUp
<1>3. ASSUME p = AlignDown(e, a) PROVE p % a = 0
  <2> DEFINE f == e \div a
  <2>1. f \in Nat /\ e = a * f + (e % a) /\ e % a \in 0 .. a - 1
    BY <1>1, DivMod
  <2> HIDE DEF f
  <2>2. a * f \in Nat
    BY <1>1, <2>1, Z3
  <2>3. p = a * f + 0 /\ p \in Nat /\ 0 \in 0 .. a - 1
    BY <1>1, <1>3, <2>1, <2>2 DEF AlignDown
  <2> QED
    BY <1>1, <2>1, <2>3, DivUnique
<1> QED
  BY <1>2, <1>3 DEF UserPointers, S, a, e

\* ... and the mprotect that goes with it opens that page and no other.
LEMMA PagesOfUserPointer ==
    ASSUME NEW n \in Slots, NEW r \in [size : Nat, alignment : Nat], Servable(r),
           NEW p \in UserPointers(n, r)
    PROVE  PagesOf(p, r) = {SlotToAddr(n)}
<1> DEFINE z == EffectiveSize(r)
           c == (z + PageSize - 1) \div PageSize
<1>1. /\ p \in SlotToAddr(n) .. SlotToAddr(n) + PageSize - 1
      /\ z \in 1 .. PageSize
      /\ PageSize \in Nat \ {0} /\ SlotToAddr(n) \in Nat
  BY UserPointerInSlot, SlotInPool, PoolAssumption
<1>2. PageAddr(p) = SlotToAddr(n)
  BY <1>1, NearestInSlot
<1> HIDE DEF z
<1>3. c = 1
  <2>1. CASE z = PageSize /\ PageSize = 1
    BY <2>1
  <2>2. CASE ~ (z = 1)
    <3>1. /\ z + PageSize - 1 = PageSize * 1 + (z - 1)
          /\ z - 1 \in 0 .. PageSize - 1 /\ z + PageSize - 1 \in Nat
      BY <1>1
    <3> QED BY <1>1, <3>1, DivUnique
  <2>3. CASE z = 1
    <3>1. z + PageSize - 1 = PageSize * 1 + 0 /\ 0 \in 0 .. PageSize - 1
      BY <1>1, <2>3
    <3> QED BY <1>1, <3>1, DivUnique
  <2> QED BY <2>1, <2>2, <2>3
<1> HIDE DEF c
<1>4. RoundUpTo(z, PageSize) = PageSize
  BY <1>1, <1>3 DEF RoundUpTo, c
<1>5. RoundUpTo(z, PageSize) \div PageSize = 1
  BY <1>1, <1>4
<1>6. 0 .. (RoundUpTo(z, PageSize) \div PageSize) - 1 = {0}
  BY <1>5
<1>7. PagesOf(p, r) = { PageAddr(p) + PageSize * i : i \in {0} }
  BY <1>6 DEF PagesOf, z
<1>8. PageAddr(p) + PageSize * 0 = SlotToAddr(n)
  BY <1>1, <1>2
<1> QED BY <1>7, <1>8

===============================================================================
