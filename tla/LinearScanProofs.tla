---------------------------- MODULE LinearScanProofs ----------------------------
(***************************************************************************)
(* The linear scan allocator is correct for every machine, and for every   *)
(* sequence of functions whose live ranges are well formed: values that    *)
(* are live together are apart, registers the code names are left alone,   *)
(* and values survive calls.                                               *)
(***************************************************************************)
EXTENDS LinearScan, TLAPS

\* The loop takes the intervals by increasing start.
ScanInv == \A h \in Handled, u \in Unhandled : h.StartPoint <= u.StartPoint

\* Every interval the loop has seen has a location.
PlacedInv == \A h \in Handled : LocationOf(h) \in FreeRegs \cup StackSlots

\* The active intervals hold registers, each its own, none of them free.
ActiveInv ==
    /\ \A a \in Active : /\ LocationOf(a) \in FreeRegs
                         /\ ~ FreeRegisters[LocationOf(a)]
    /\ \A a, b \in Active : a # b => LocationOf(a) # LocationOf(b)

\* An interval with a register that is active no more has ended.
RetiredInv ==
    \A h \in Handled, u \in Unhandled :
        LocationOf(h) \in FreeRegs /\ h \notin Active => h.EndPoint <= u.StartPoint

\* The stack slots and the spilled intervals correspond.
SlotInv ==
    /\ StackSlotIndex = Len(Spilled)
    /\ \A h \in Handled :
           LocationOf(h) \in StackSlots =>
               /\ LocationOf(h).StackSlot < Len(Spilled)
               /\ Spilled[LocationOf(h).StackSlot + 1] = h
    /\ \A n \in 1 .. Len(Spilled) : LocationOf(Spilled[n]) = index2StackSlot(n - 1)

IInv ==
    /\ TypeOK
    /\ ScanInv
    /\ PlacedInv
    /\ ActiveInv
    /\ RetiredInv
    /\ SlotInv
    /\ LiveValuesAreApart
    /\ FixedRegistersAreReserved
    /\ ValuesSurviveCalls

-------------------------------------------------------------------------------
(* Live intervals *)

\* The intervals of the virtual registers are one for each, and not empty.
LEMMA VirtIntervalFacts ==
    ASSUME NEW m, WellFormed(m)
    PROVE  /\ \A i \in VirtIntervals(m) :
                 /\ i.StartPoint \in Nat
                 /\ i.EndPoint \in Nat
                 /\ i.StartPoint < i.EndPoint
                 /\ i.Reg \in VirtRegs
                 /\ i.UsedAcrossCall \in BOOLEAN
           /\ \A i, j \in VirtIntervals(m) : i.Reg = j.Reg => i = j
<1>1. ASSUME NEW v \in VirtRegsOf(m)
      PROVE  LET i == VirtInterval(m, v) IN
                 /\ i.StartPoint \in Nat
                 /\ i.EndPoint \in Nat
                 /\ i.StartPoint < i.EndPoint
                 /\ i.Reg = v
                 /\ i.UsedAcrossCall \in BOOLEAN
  <2> DEFINE s == m[v]
  <2>1. s \in Seq(LiveRange) /\ s # << >>
    BY <1>1 DEF WellFormed, IsLiveRangesMap, VirtRegsOf
  <2>2. Len(s) \in 1 .. Len(s)
    BY <2>1
  <2>3. s[Len(s)] \in LiveRange
    BY <2>1, <2>2
  <2>4. s[Len(s)].StartPoint < s[Len(s)].EndPoint
    BY <1>1, <2>2 DEF WellFormed, IsLiveRangesMap, VirtRegsOf
  <2>5. VirtInterval(m, v) = IntervalOf(v, s[Len(s)])
    BY DEF VirtInterval
  <2> HIDE DEF s
  <2> QED
    BY <2>3, <2>4, <2>5 DEF IntervalOf, LiveRange
<1>2. \A v \in VirtRegsOf(m) : v \in VirtRegs
  BY DEF VirtRegsOf
<1> QED
  BY <1>1, <1>2 DEF VirtIntervals

\* A value that is live for longer than one that is used across a call is used
\* across that call too.
LEMMA EnclosingIntervalCrosses ==
    ASSUME NEW m, WellFormed(m),
           NEW i \in VirtIntervals(m), NEW j \in VirtIntervals(m),
           j.StartPoint <= i.StartPoint, i.EndPoint <= j.EndPoint, i.UsedAcrossCall
    PROVE  j.UsedAcrossCall
<1>1. PICK v \in VirtRegsOf(m) : i = VirtInterval(m, v)
  BY DEF VirtIntervals
<1>2. PICK w \in VirtRegsOf(m) : j = VirtInterval(m, w)
  BY DEF VirtIntervals
<1>3. PICK k \in i.StartPoint .. i.EndPoint - 1 :
        \A x \in VirtRegsOf(m) :
            LiveAt(VirtInterval(m, x), k) => VirtInterval(m, x).UsedAcrossCall
  BY <1>1 DEF WellFormed, FlagsComeFromCalls
<1>4. LiveAt(j, k)
  BY <1>3, VirtIntervalFacts DEF LiveAt
<1> QED
  BY <1>2, <1>3, <1>4

\* The intervals of physical registers are not empty.
LEMMA FixedIntervalFacts ==
    ASSUME NEW m, WellFormed(m), NEW f \in FixedIntervals(m)
    PROVE  /\ f.StartPoint \in Nat
           /\ f.EndPoint \in Nat
           /\ f.StartPoint < f.EndPoint
           /\ f.Reg \in PhysRegs
<1>1. PICK r \in DOMAIN m \cap PhysRegs : \E k \in 1 .. Len(m[r]) : f = IntervalOf(r, m[r][k])
  BY DEF FixedIntervals
<1>2. PICK k \in 1 .. Len(m[r]) : f = IntervalOf(r, m[r][k])
  BY <1>1
<1> DEFINE s == m[r]
<1>3. s \in Seq(LiveRange)
  BY <1>1 DEF WellFormed, IsLiveRangesMap
<1>4. s[k] \in LiveRange
  BY <1>2, <1>3
<1>5. s[k].StartPoint < s[k].EndPoint
  BY <1>1, <1>2 DEF WellFormed, IsLiveRangesMap
<1>6. f = IntervalOf(r, s[k])
  BY <1>2
<1> HIDE DEF s
<1> QED
  BY <1>1, <1>4, <1>5, <1>6 DEF IntervalOf, LiveRange

\* A register whose ranges are not empty conflicts with every interval: one
\* of the two tests of getFreePhysReg always succeeds.
LEMMA AnyFixedRangeConflicts ==
    ASSUME TypeOK, NEW LI \in Unhandled, NEW f \in Fixed
    PROVE  ConflictWithFixed(f.Reg, LI)
<1>1. LI.StartPoint \in Nat /\ LI.EndPoint \in Nat /\ LI.StartPoint < LI.EndPoint
  BY VirtIntervalFacts DEF TypeOK
<1>2. f.StartPoint \in Nat /\ f.EndPoint \in Nat /\ f.StartPoint < f.EndPoint
  BY FixedIntervalFacts DEF TypeOK
<1> QED
  BY <1>1, <1>2 DEF ConflictWithFixed

-------------------------------------------------------------------------------
(* One iteration of the loop *)

\* An iteration handles LI and nothing else.
LEMMA IterateHandles ==
    ASSUME IInv, NEW LI \in Unhandled, Iterate(LI)
    PROVE  /\ VirtIntervals(RegLiveRangesMap)' = VirtIntervals(RegLiveRangesMap)
           /\ LI \in VirtIntervals(RegLiveRangesMap)
           /\ LI \notin Handled
           /\ Handled' = Handled \cup {LI}
           /\ Unhandled' = Unhandled \ {LI}
           /\ \A h \in Handled : h.Reg # LI.Reg /\ h.StartPoint <= LI.StartPoint
           /\ \A u \in Unhandled : LI.StartPoint <= u.StartPoint
           /\ \A h, g \in Handled : h # g => h.Reg # g.Reg
<1>1. Unhandled \subseteq VirtIntervals(RegLiveRangesMap)
  BY DEF IInv, TypeOK
<1>2. RegLiveRangesMap' = RegLiveRangesMap /\ Unhandled' = Unhandled \ {LI}
  BY DEF Iterate
<1>3. VirtIntervals(RegLiveRangesMap)' = VirtIntervals(RegLiveRangesMap)
  BY <1>2 DEF VirtIntervals, VirtRegsOf, VirtInterval
<1>4. Handled' = Handled \cup {LI} /\ LI \notin Handled
  BY <1>1, <1>2, <1>3 DEF Handled
<1>5. /\ \A h \in Handled : h.Reg # LI.Reg
      /\ \A h, g \in Handled : h # g => h.Reg # g.Reg
  BY <1>1, <1>4, VirtIntervalFacts DEF Handled, IInv, TypeOK
<1>6. \A h \in Handled : h.StartPoint <= LI.StartPoint
  BY DEF IInv, ScanInv
<1>7. \A u \in Unhandled : LI.StartPoint <= u.StartPoint
  BY <1>1, VirtIntervalFacts DEF Iterate, IsTop, IInv, TypeOK
<1> QED
  BY <1>1, <1>2, <1>3, <1>4, <1>5, <1>6, <1>7

\* The intervals of Active have not ended when their register is not given back.
LEMMA ExpiryFacts ==
    ASSUME IInv, NEW LI \in Unhandled
    PROVE  /\ FreeAfterExpiry(LI) \in [FreeRegs -> BOOLEAN]
           /\ StillActive(LI) \subseteq Active
           /\ StillActive(LI) \subseteq Handled
           /\ \A a \in StillActive(LI) : a.EndPoint > LI.StartPoint
           /\ \A a \in Active \ StillActive(LI) : a.EndPoint <= LI.StartPoint
           /\ \A a \in StillActive(LI) : ~ FreeAfterExpiry(LI)[LocationOf(a)]
           /\ \A h \in Handled :
                  LocationOf(h) \in FreeRegs /\ h \notin StillActive(LI)
                      => h.EndPoint <= LI.StartPoint
<1>1. Active \subseteq Handled /\ Handled \subseteq VirtIntervals(RegLiveRangesMap)
  BY DEF IInv, TypeOK, Handled
<1>2. LI.StartPoint \in Nat /\ \A h \in Handled : h.EndPoint \in Nat
  BY <1>1, VirtIntervalFacts DEF IInv, TypeOK
<1>3. FreeAfterExpiry(LI) \in [FreeRegs -> BOOLEAN]
  BY DEF FreeAfterExpiry, IInv, TypeOK
<1>4. ASSUME NEW a \in StillActive(LI)
      PROVE  ~ FreeAfterExpiry(LI)[LocationOf(a)]
  <2>1. a \in Active /\ a \notin Expired(LI)
    BY <1>4 DEF StillActive
  <2>2. LocationOf(a) \in FreeRegs /\ ~ FreeRegisters[LocationOf(a)]
    BY <2>1 DEF IInv, ActiveInv
  <2>3. \A b \in Expired(LI) : LocationOf(b) # LocationOf(a)
    BY <2>1 DEF IInv, ActiveInv, Expired
  <2> QED
    BY <2>2, <2>3 DEF FreeAfterExpiry, LocationOf
<1>5. \A h \in Handled :
          LocationOf(h) \in FreeRegs /\ h \notin StillActive(LI)
              => h.EndPoint <= LI.StartPoint
  BY <1>2 DEF StillActive, Expired, IInv, RetiredInv
<1> QED
  BY <1>1, <1>2, <1>3, <1>4, <1>5 DEF StillActive, Expired

\* Registers and stack slots are different locations.
LEMMA LocationFacts ==
    /\ FreeRegs \cap StackSlots = {}
    /\ NoRegister \notin FreeRegs \cup StackSlots
    /\ \A n \in Nat : index2StackSlot(n) \in StackSlots /\ index2StackSlot(n).StackSlot = n
    /\ \A x \in StackSlots : x.StackSlot \in Nat /\ x = index2StackSlot(x.StackSlot)
<1>1. /\ FreeRegs \cap StackSlots = {}
      /\ NoRegister \notin FreeRegs \cup StackSlots
  BY TargetAssumption
<1>2. \A n \in Nat : index2StackSlot(n) \in StackSlots /\ index2StackSlot(n).StackSlot = n
  BY DEF StackSlots, index2StackSlot
<1>3. \A x \in StackSlots : x.StackSlot \in Nat /\ x = index2StackSlot(x.StackSlot)
  BY DEF StackSlots, index2StackSlot
<1> QED
  BY <1>1, <1>2, <1>3

\* The first case: LI gets a register that no interval live with it has.
LEMMA AssignFacts ==
    ASSUME IInv, NEW LI \in Unhandled, Iterate(LI), AssignPhysReg(LI)
    PROVE  \E r \in FreeRegs :
               /\ FreeAfterExpiry(LI)[r]
               /\ FreeRegisters' = [FreeAfterExpiry(LI) EXCEPT ![r] = FALSE]
               /\ \A f \in Fixed : f.Reg # r
               /\ LI.UsedAcrossCall => r \in CalleeSavedRegs
               /\ LocationOf(LI)' = r
               /\ \A h \in Handled : LocationOf(h)' = LocationOf(h)
               /\ Active' = StillActive(LI) \cup {LI}
               /\ Spilled' = Spilled
               /\ StackSlotIndex' = StackSlotIndex
               /\ VirtRegToAllocatedRegMap' \in [VirtRegs -> Locations]
<1>1. PICK r \in FreePhysRegs(LI) :
          /\ FreeRegisters' = [FreeAfterExpiry(LI) EXCEPT ![r] = FALSE]
          /\ VirtRegToAllocatedRegMap' = [VirtRegToAllocatedRegMap EXCEPT ![LI.Reg] = r]
          /\ Active' = StillActive(LI) \cup {LI}
          /\ UNCHANGED << Spilled, StackSlotIndex >>
  BY DEF AssignPhysReg
<1>2. r \in FreeRegs /\ FreeAfterExpiry(LI)[r] /\ SuitsCalls(r, LI)
  BY DEF FreePhysRegs
<1>3. \A f \in Fixed : f.Reg # r
  BY AnyFixedRangeConflicts DEF FreePhysRegs, IInv
<1>4. LI.Reg \in VirtRegs /\ VirtRegToAllocatedRegMap \in [VirtRegs -> Locations]
  BY IterateHandles, VirtIntervalFacts DEF IInv, TypeOK
<1>5. \A h \in Handled : h.Reg # LI.Reg /\ h.Reg \in VirtRegs
  BY IterateHandles, VirtIntervalFacts DEF IInv, TypeOK, Handled
<1>6. LocationOf(LI)' = r /\ \A h \in Handled : LocationOf(h)' = LocationOf(h)
  BY <1>1, <1>4, <1>5 DEF LocationOf
<1>7. VirtRegToAllocatedRegMap' \in [VirtRegs -> Locations]
  BY <1>1, <1>2, <1>4 DEF Locations
<1> QED
  BY <1>1, <1>2, <1>3, <1>6, <1>7 DEF SuitsCalls

\* The second case: Back, an active interval that ends after LI, leaves its
\* register to LI.
LEMMA SpillActiveFacts ==
    ASSUME IInv, NEW LI \in Unhandled, Iterate(LI), SpillActive(LI)
    PROVE  \E Back \in StillActive(LI) :
               /\ Back.EndPoint > LI.EndPoint
               /\ FreeRegisters' = FreeAfterExpiry(LI)
               /\ LocationOf(LI)' = LocationOf(Back)
               /\ LocationOf(Back)' = index2StackSlot(StackSlotIndex)
               /\ \A h \in Handled \ {Back} : LocationOf(h)' = LocationOf(h)
               /\ Active' = (StillActive(LI) \ {Back}) \cup {LI}
               /\ Spilled' = Append(Spilled, Back)
               /\ StackSlotIndex' = StackSlotIndex + 1
               /\ VirtRegToAllocatedRegMap' \in [VirtRegs -> Locations]
<1>1. PICK Back \in StillActive(LI) :
          /\ Back.EndPoint > LI.EndPoint
          /\ VirtRegToAllocatedRegMap' =
                 [VirtRegToAllocatedRegMap EXCEPT
                     ![LI.Reg] = VirtRegToAllocatedRegMap[Back.Reg],
                     ![Back.Reg] = index2StackSlot(StackSlotIndex)]
          /\ Active' = (StillActive(LI) \ {Back}) \cup {LI}
          /\ Spilled' = Append(Spilled, Back)
          /\ StackSlotIndex' = StackSlotIndex + 1
  BY DEF SpillActive, IsBack
<1>2. Back \in Handled
  BY ExpiryFacts
<1>3. LI.Reg \in VirtRegs /\ VirtRegToAllocatedRegMap \in [VirtRegs -> Locations]
  BY IterateHandles, VirtIntervalFacts DEF IInv, TypeOK
<1>4. \A h \in Handled : h.Reg # LI.Reg /\ h.Reg \in VirtRegs
  BY IterateHandles, VirtIntervalFacts DEF IInv, TypeOK, Handled
<1>5. \A h \in Handled \ {Back} : h.Reg # Back.Reg
  BY <1>2, IterateHandles
<1>6. /\ LocationOf(LI)' = LocationOf(Back)
      /\ LocationOf(Back)' = index2StackSlot(StackSlotIndex)
      /\ \A h \in Handled \ {Back} : LocationOf(h)' = LocationOf(h)
  BY <1>1, <1>2, <1>3, <1>4, <1>5 DEF LocationOf
<1>7. index2StackSlot(StackSlotIndex) \in Locations
  BY LocationFacts DEF IInv, TypeOK, Locations
<1>8. VirtRegToAllocatedRegMap' \in [VirtRegs -> Locations]
  BY <1>1, <1>2, <1>3, <1>4, <1>7
<1>9. FreeRegisters' = FreeAfterExpiry(LI)
  BY DEF SpillActive
<1> QED
  BY <1>1, <1>6, <1>8, <1>9

\* The third case: LI gets a stack slot.
LEMMA SpillCurrentFacts ==
    ASSUME IInv, NEW LI \in Unhandled, Iterate(LI), SpillCurrent(LI)
    PROVE  /\ FreeRegisters' = FreeAfterExpiry(LI)
           /\ LocationOf(LI)' = index2StackSlot(StackSlotIndex)
           /\ \A h \in Handled : LocationOf(h)' = LocationOf(h)
           /\ Active' = StillActive(LI)
           /\ Spilled' = Append(Spilled, LI)
           /\ StackSlotIndex' = StackSlotIndex + 1
           /\ VirtRegToAllocatedRegMap' \in [VirtRegs -> Locations]
<1>1. LI.Reg \in VirtRegs /\ VirtRegToAllocatedRegMap \in [VirtRegs -> Locations]
  BY IterateHandles, VirtIntervalFacts DEF IInv, TypeOK
<1>2. \A h \in Handled : h.Reg # LI.Reg /\ h.Reg \in VirtRegs
  BY IterateHandles, VirtIntervalFacts DEF IInv, TypeOK, Handled
<1>3. VirtRegToAllocatedRegMap' =
          [VirtRegToAllocatedRegMap EXCEPT ![LI.Reg] = index2StackSlot(StackSlotIndex)]
  BY DEF SpillCurrent
<1>4. /\ LocationOf(LI)' = index2StackSlot(StackSlotIndex)
      /\ \A h \in Handled : LocationOf(h)' = LocationOf(h)
  BY <1>1, <1>2, <1>3 DEF LocationOf
<1>5. index2StackSlot(StackSlotIndex) \in Locations
  BY LocationFacts DEF IInv, TypeOK, Locations
<1>6. VirtRegToAllocatedRegMap' \in [VirtRegs -> Locations]
  BY <1>1, <1>3, <1>5
<1> QED
  BY <1>4, <1>6 DEF SpillCurrent

\* Giving LI a register keeps the invariant.
LEMMA AssignKeeps ==
    ASSUME IInv, NEW LI \in Unhandled, Iterate(LI), AssignPhysReg(LI)
    PROVE  IInv'
<1> DEFINE V == VirtIntervals(RegLiveRangesMap)
<1>1. PICK r \in FreeRegs :
          /\ FreeAfterExpiry(LI)[r]
          /\ FreeRegisters' = [FreeAfterExpiry(LI) EXCEPT ![r] = FALSE]
          /\ \A f \in Fixed : f.Reg # r
          /\ LI.UsedAcrossCall => r \in CalleeSavedRegs
          /\ LocationOf(LI)' = r
          /\ \A h \in Handled : LocationOf(h)' = LocationOf(h)
          /\ Active' = StillActive(LI) \cup {LI}
          /\ Spilled' = Spilled
          /\ StackSlotIndex' = StackSlotIndex
          /\ VirtRegToAllocatedRegMap' \in [VirtRegs -> Locations]
  BY AssignFacts
<1>2. /\ V' = V
      /\ LI \in V
      /\ LI \notin Handled
      /\ Handled' = Handled \cup {LI}
      /\ Unhandled' = Unhandled \ {LI}
      /\ \A h \in Handled : h.StartPoint <= LI.StartPoint
      /\ \A u \in Unhandled : LI.StartPoint <= u.StartPoint
  BY IterateHandles
<1>3. /\ RegLiveRangesMap' = RegLiveRangesMap
      /\ Fixed' = Fixed
  BY DEF Iterate
<1>4. \A i \in V : /\ i.StartPoint \in Nat
                    /\ i.EndPoint \in Nat
                    /\ i.StartPoint < i.EndPoint
  BY VirtIntervalFacts DEF IInv, TypeOK
<1>5. Handled \subseteq V /\ Unhandled \subseteq V
  BY DEF Handled, IInv, TypeOK
<1>6. StillActive(LI) \subseteq Handled /\ StillActive(LI) \subseteq Active
  BY ExpiryFacts
<1>7. \A h \in Handled : LocationOf(h) = r => h.EndPoint <= LI.StartPoint
  BY <1>1, ExpiryFacts
<1>a. TypeOK'
  <2>1. Spilled' \in Seq(Handled')
    BY <1>1, <1>2 DEF IInv, TypeOK
  <2>2. FreeRegisters' \in [FreeRegs -> BOOLEAN]
    BY <1>1, ExpiryFacts
  <2>3. Fixed' = FixedIntervals(RegLiveRangesMap)'
    BY <1>3 DEF IInv, TypeOK, FixedIntervals
  <2>4. WellFormed(RegLiveRangesMap)'
    BY <1>3 DEF IInv, TypeOK
  <2>5. Active' \subseteq Handled'
    BY <1>1, <1>2, <1>6
  <2>6. Unhandled' \subseteq V'
    BY <1>2, <1>5
  <2>7. StackSlotIndex' \in Nat
    BY <1>1 DEF IInv, TypeOK
  <2> QED
    BY <1>1, <2>1, <2>2, <2>3, <2>4, <2>5, <2>6, <2>7 DEF TypeOK
<1>b. ScanInv'
  BY <1>2 DEF IInv, ScanInv
<1>c. PlacedInv'
  BY <1>1, <1>2 DEF IInv, PlacedInv
<1>d. ActiveInv'
  <2>1. \A a \in StillActive(LI) : /\ LocationOf(a)' = LocationOf(a)
                                   /\ LocationOf(a) \in FreeRegs
                                   /\ ~ FreeAfterExpiry(LI)[LocationOf(a)]
    BY <1>1, <1>6, ExpiryFacts DEF IInv, ActiveInv
  <2>2. \A a \in StillActive(LI) : LocationOf(a) # r
    BY <1>1, <2>1
  <2>3. ASSUME NEW a \in Active'
        PROVE  /\ LocationOf(a)' \in FreeRegs
               /\ ~ FreeRegisters'[LocationOf(a)']
    <3>1. CASE a = LI
      BY <1>1, <3>1, ExpiryFacts
    <3>2. CASE a \in StillActive(LI)
      BY <1>1, <2>1, <2>2, <3>2, ExpiryFacts
    <3> QED
      BY <1>1, <3>1, <3>2
  <2>4. \A a, b \in StillActive(LI) : a # b => LocationOf(a) # LocationOf(b)
    BY <1>6 DEF IInv, ActiveInv
  <2>5. \A a, b \in Active' : a # b => LocationOf(a)' # LocationOf(b)'
    BY <1>1, <2>1, <2>2, <2>4
  <2> QED
    BY <2>3, <2>5 DEF ActiveInv
<1>e. RetiredInv'
  <2>1. ASSUME NEW h \in Handled', NEW u \in Unhandled',
               LocationOf(h)' \in FreeRegs, h \notin Active'
        PROVE  h.EndPoint <= u.StartPoint
    <3>1. h \in Handled /\ LocationOf(h) \in FreeRegs /\ h \notin StillActive(LI)
      BY <1>1, <1>2, <2>1
    <3>2. h.EndPoint <= LI.StartPoint
      BY <3>1, ExpiryFacts
    <3>3. LI.StartPoint <= u.StartPoint
      BY <1>2
    <3> QED
      BY <1>2, <1>4, <1>5, <3>1, <3>2, <3>3
  <2> QED
    BY <2>1 DEF RetiredInv
<1>f. SlotInv'
  <2>1. \A n \in 1 .. Len(Spilled) : Spilled[n] \in Handled
    BY DEF IInv, TypeOK
  <2>2. LocationOf(LI)' \notin StackSlots
    BY <1>1, LocationFacts
  <2>3. \A h \in Handled' :
            LocationOf(h)' \in StackSlots =>
                /\ LocationOf(h)'.StackSlot < Len(Spilled')
                /\ Spilled'[LocationOf(h)'.StackSlot + 1] = h
    BY <1>1, <1>2, <2>2 DEF IInv, SlotInv
  <2>4. \A n \in 1 .. Len(Spilled') : LocationOf(Spilled[n])' = index2StackSlot(n - 1)
    <3>1. \A n \in 1 .. Len(Spilled) : LocationOf(Spilled[n])' = LocationOf(Spilled[n])
      BY <1>1, <2>1
    <3> QED
      BY <1>1, <3>1 DEF IInv, SlotInv, LocationOf
  <2>5. StackSlotIndex' = Len(Spilled')
    BY <1>1 DEF IInv, SlotInv
  <2> QED
    BY <2>3, <2>4, <2>5 DEF SlotInv, LocationOf, index2StackSlot
<1>g. LiveValuesAreApart'
  <2>1. ASSUME NEW h \in Handled, Overlap(h, LI) \/ Overlap(LI, h)
        PROVE  LocationOf(h)' # LocationOf(LI)'
    BY <1>1, <1>2, <1>4, <1>5, <1>7, <2>1 DEF Overlap
  <2>2. ASSUME NEW h \in Handled, NEW g \in Handled, h # g, Overlap(h, g)
        PROVE  LocationOf(h)' # LocationOf(g)'
    BY <1>1, <2>2 DEF IInv, LiveValuesAreApart
  <2> QED
    BY <1>2, <2>1, <2>2 DEF LiveValuesAreApart
<1>h. FixedRegistersAreReserved'
  BY <1>1, <1>2, <1>3 DEF IInv, FixedRegistersAreReserved
<1>i. ValuesSurviveCalls'
  BY <1>1, <1>2 DEF IInv, ValuesSurviveCalls
<1> QED
  BY <1>a, <1>b, <1>c, <1>d, <1>e, <1>f, <1>g, <1>h, <1>i DEF IInv

\* Sending Back to the stack and giving its register to LI keeps the invariant.
LEMMA SpillActiveKeeps ==
    ASSUME IInv, NEW LI \in Unhandled, Iterate(LI), SpillActive(LI)
    PROVE  IInv'
<1> DEFINE V == VirtIntervals(RegLiveRangesMap)
<1>1. PICK Back \in StillActive(LI) :
          /\ Back.EndPoint > LI.EndPoint
          /\ FreeRegisters' = FreeAfterExpiry(LI)
          /\ LocationOf(LI)' = LocationOf(Back)
          /\ LocationOf(Back)' = index2StackSlot(StackSlotIndex)
          /\ \A h \in Handled \ {Back} : LocationOf(h)' = LocationOf(h)
          /\ Active' = (StillActive(LI) \ {Back}) \cup {LI}
          /\ Spilled' = Append(Spilled, Back)
          /\ StackSlotIndex' = StackSlotIndex + 1
          /\ VirtRegToAllocatedRegMap' \in [VirtRegs -> Locations]
  BY SpillActiveFacts
<1>2. /\ V' = V
      /\ LI \in V
      /\ LI \notin Handled
      /\ Handled' = Handled \cup {LI}
      /\ Unhandled' = Unhandled \ {LI}
      /\ \A h \in Handled : h.StartPoint <= LI.StartPoint
      /\ \A u \in Unhandled : LI.StartPoint <= u.StartPoint
  BY IterateHandles
<1>3. /\ RegLiveRangesMap' = RegLiveRangesMap
      /\ Fixed' = Fixed
  BY DEF Iterate
<1>4. \A i \in V : /\ i.StartPoint \in Nat
                    /\ i.EndPoint \in Nat
                    /\ i.StartPoint < i.EndPoint
  BY VirtIntervalFacts DEF IInv, TypeOK
<1>5. Handled \subseteq V /\ Unhandled \subseteq V
  BY DEF Handled, IInv, TypeOK
<1>6. StillActive(LI) \subseteq Handled /\ StillActive(LI) \subseteq Active
  BY ExpiryFacts
<1>7. /\ Back \in Handled
      /\ LocationOf(Back) \in FreeRegs
      /\ \A a \in StillActive(LI) \ {Back} : LocationOf(a) # LocationOf(Back)
  BY <1>6 DEF IInv, ActiveInv
<1>8. /\ index2StackSlot(StackSlotIndex) \in StackSlots
      /\ index2StackSlot(StackSlotIndex).StackSlot = Len(Spilled)
      /\ StackSlotIndex = Len(Spilled)
      /\ \A h \in Handled : LocationOf(h) # index2StackSlot(StackSlotIndex)
  <2>1. StackSlotIndex = Len(Spilled) /\ StackSlotIndex \in Nat
    BY DEF IInv, SlotInv, TypeOK
  <2>2. /\ index2StackSlot(StackSlotIndex) \in StackSlots
        /\ index2StackSlot(StackSlotIndex).StackSlot = StackSlotIndex
    BY <2>1, LocationFacts
  <2>3. \A h \in Handled : LocationOf(h) # index2StackSlot(StackSlotIndex)
    BY <2>1, <2>2 DEF IInv, SlotInv
  <2> QED
    BY <2>1, <2>2, <2>3
<1>a. TypeOK'
  <2>1. Spilled' \in Seq(Handled')
    BY <1>1, <1>2, <1>6 DEF IInv, TypeOK
  <2>2. FreeRegisters' \in [FreeRegs -> BOOLEAN]
    BY <1>1, ExpiryFacts
  <2>3. Fixed' = FixedIntervals(RegLiveRangesMap)'
    BY <1>3 DEF IInv, TypeOK, FixedIntervals
  <2>4. WellFormed(RegLiveRangesMap)'
    BY <1>3 DEF IInv, TypeOK
  <2>5. Active' \subseteq Handled'
    BY <1>1, <1>2, <1>6
  <2>6. Unhandled' \subseteq V'
    BY <1>2, <1>5
  <2>7. StackSlotIndex' \in Nat
    BY <1>1 DEF IInv, TypeOK
  <2> QED
    BY <1>1, <2>1, <2>2, <2>3, <2>4, <2>5, <2>6, <2>7 DEF TypeOK
<1>b. ScanInv'
  BY <1>2 DEF IInv, ScanInv
<1>c. PlacedInv'
  BY <1>1, <1>2, <1>7, <1>8 DEF IInv, PlacedInv
<1>d. ActiveInv'
  <2>1. \A a \in StillActive(LI) : /\ LocationOf(a) \in FreeRegs
                                   /\ ~ FreeAfterExpiry(LI)[LocationOf(a)]
    BY <1>6, ExpiryFacts DEF IInv, ActiveInv
  <2>2. \A a \in StillActive(LI) \ {Back} : LocationOf(a)' = LocationOf(a)
    BY <1>1, <1>6
  <2>3. \A a \in Active' : /\ LocationOf(a)' \in FreeRegs
                            /\ ~ FreeRegisters'[LocationOf(a)']
    BY <1>1, <2>1, <2>2
  <2>4. \A a, b \in StillActive(LI) : a # b => LocationOf(a) # LocationOf(b)
    BY <1>6 DEF IInv, ActiveInv
  <2>5. \A a, b \in Active' : a # b => LocationOf(a)' # LocationOf(b)'
    BY <1>1, <2>2, <2>4
  <2> QED
    BY <2>3, <2>5 DEF ActiveInv
<1>e. RetiredInv'
  <2>1. ASSUME NEW h \in Handled', NEW u \in Unhandled',
               LocationOf(h)' \in FreeRegs, h \notin Active'
        PROVE  h.EndPoint <= u.StartPoint
    <3>1. h \in Handled /\ LocationOf(h) \in FreeRegs /\ h \notin StillActive(LI)
      BY <1>1, <1>2, <1>8, <2>1, LocationFacts
    <3>2. h.EndPoint <= LI.StartPoint
      BY <3>1, ExpiryFacts
    <3>3. LI.StartPoint <= u.StartPoint
      BY <1>2
    <3> QED
      BY <1>2, <1>4, <1>5, <3>1, <3>2, <3>3
  <2> QED
    BY <2>1 DEF RetiredInv
<1>f. SlotInv'
  <2>1. \A n \in 1 .. Len(Spilled) : Spilled[n] \in Handled \ {Back}
    <3>1. LocationOf(Back) \notin StackSlots
      BY <1>7, LocationFacts
    <3>2. ASSUME NEW n \in 1 .. Len(Spilled)
          PROVE  LocationOf(Spilled[n]) \in StackSlots
      <4>1. n - 1 \in Nat /\ LocationOf(Spilled[n]) = index2StackSlot(n - 1)
        BY DEF IInv, SlotInv
      <4> QED
        BY <4>1, LocationFacts
    <3>3. \A n \in 1 .. Len(Spilled) : Spilled[n] \in Handled
      BY DEF IInv, TypeOK
    <3> QED
      BY <3>1, <3>2, <3>3
  <2>2. LocationOf(LI)' \notin StackSlots
    BY <1>1, <1>7, LocationFacts
  <2>3. /\ Len(Spilled') = Len(Spilled) + 1
        /\ Spilled'[Len(Spilled) + 1] = Back
        /\ \A n \in 1 .. Len(Spilled) : Spilled'[n] = Spilled[n]
        /\ Len(Spilled) \in Nat
    BY <1>1 DEF IInv, TypeOK
  <2>4. ASSUME NEW h \in Handled', LocationOf(h)' \in StackSlots
        PROVE  /\ LocationOf(h)'.StackSlot < Len(Spilled')
               /\ Spilled'[LocationOf(h)'.StackSlot + 1] = h
    <3>1. CASE h = Back
      BY <1>1, <1>8, <2>3, <3>1
    <3>2. CASE h # Back
      <4>1. h \in Handled /\ LocationOf(h)' = LocationOf(h)
        BY <1>1, <1>2, <2>2, <2>4, <3>2
      <4>2. /\ LocationOf(h) \in StackSlots
            /\ LocationOf(h).StackSlot \in Nat
            /\ LocationOf(h).StackSlot < Len(Spilled)
            /\ Spilled[LocationOf(h).StackSlot + 1] = h
        BY <2>4, <4>1, LocationFacts DEF IInv, SlotInv
      <4> QED
        BY <2>3, <4>1, <4>2
    <3> QED
      BY <3>1, <3>2
  <2>5. \A n \in 1 .. Len(Spilled') : LocationOf(Spilled[n])' = index2StackSlot(n - 1)
    <3>1. \A n \in 1 .. Len(Spilled) : LocationOf(Spilled[n])' = LocationOf(Spilled[n])
      BY <1>1, <2>1, <2>3 DEF LocationOf
    <3>2. \A n \in 1 .. Len(Spilled) : LocationOf(Spilled[n]) = index2StackSlot(n - 1)
      BY DEF IInv, SlotInv
    <3>3. LocationOf(Spilled[Len(Spilled)])' = LocationOf(Back)'
      BY <2>3, <1>1 DEF LocationOf
    <3> QED
      BY <1>1, <1>8, <2>3, <3>1, <3>2, <3>3
  <2>6. StackSlotIndex' = Len(Spilled')
    BY <1>1, <1>8, <2>3
  <2> QED
    BY <2>4, <2>5, <2>6 DEF SlotInv, LocationOf, index2StackSlot
<1>g. LiveValuesAreApart'
  <2>1. ASSUME NEW h \in Handled \ {Back}, Overlap(h, LI) \/ Overlap(LI, h)
        PROVE  LocationOf(h) # LocationOf(Back)
    <3>1. h.EndPoint > LI.StartPoint
      BY <2>1 DEF Overlap
    <3>2. LocationOf(h) \in FreeRegs => h \in StillActive(LI)
      BY <1>2, <1>4, <1>5, <3>1, ExpiryFacts
    <3> QED
      BY <1>7, <3>2
  <2>2. ASSUME NEW h \in Handled', h # LI, Overlap(h, LI) \/ Overlap(LI, h)
        PROVE  LocationOf(h)' # LocationOf(LI)'
    BY <1>1, <1>2, <1>7, <1>8, <2>1, <2>2, LocationFacts
  <2>3. \A h \in Handled \ {Back} : LocationOf(h)' # LocationOf(Back)'
    BY <1>1, <1>8
  <2>4. ASSUME NEW h \in Handled \ {Back}, NEW g \in Handled \ {Back},
               h # g, Overlap(h, g)
        PROVE  LocationOf(h)' # LocationOf(g)'
    BY <1>1, <2>4 DEF IInv, LiveValuesAreApart
  <2>5. ASSUME NEW h \in Handled', NEW g \in Handled', h # g, Overlap(h, g)
        PROVE  LocationOf(h)' # LocationOf(g)'
    <3>1. CASE h = LI \/ g = LI
      BY <2>2, <2>5, <3>1
    <3>2. CASE h \in Handled /\ g \in Handled
      BY <2>3, <2>4, <2>5, <3>2
    <3> QED
      BY <1>2, <3>1, <3>2
  <2> QED
    BY <2>5 DEF LiveValuesAreApart
<1>h. FixedRegistersAreReserved'
  <2>1. \A f \in Fixed : f.Reg \in PhysRegs /\ f.Reg \notin StackSlots
    BY FixedIntervalFacts, TargetAssumption DEF IInv, TypeOK
  <2> QED
    BY <1>1, <1>2, <1>3, <1>7, <1>8, <2>1 DEF IInv, FixedRegistersAreReserved
<1>i. ValuesSurviveCalls'
  <2>1. ASSUME LI.UsedAcrossCall
        PROVE  LocationOf(Back) \in CalleeSavedRegs
    <3>1. Back.StartPoint <= LI.StartPoint /\ LI.EndPoint <= Back.EndPoint
      BY <1>1, <1>2, <1>4, <1>5, <1>7
    <3>2. Back.UsedAcrossCall
      BY <1>2, <1>5, <1>7, <2>1, <3>1, EnclosingIntervalCrosses DEF IInv, TypeOK
    <3> QED
      BY <1>7, <3>2, LocationFacts DEF IInv, ValuesSurviveCalls
  <2> QED
    BY <1>1, <1>2, <1>7, <1>8, <2>1 DEF IInv, ValuesSurviveCalls
<1> QED
  BY <1>a, <1>b, <1>c, <1>d, <1>e, <1>f, <1>g, <1>h, <1>i DEF IInv

\* Sending LI to the stack keeps the invariant.
LEMMA SpillCurrentKeeps ==
    ASSUME IInv, NEW LI \in Unhandled, Iterate(LI), SpillCurrent(LI)
    PROVE  IInv'
<1> DEFINE V == VirtIntervals(RegLiveRangesMap)
<1>1. /\ FreeRegisters' = FreeAfterExpiry(LI)
      /\ LocationOf(LI)' = index2StackSlot(StackSlotIndex)
      /\ \A h \in Handled : LocationOf(h)' = LocationOf(h)
      /\ Active' = StillActive(LI)
      /\ Spilled' = Append(Spilled, LI)
      /\ StackSlotIndex' = StackSlotIndex + 1
      /\ VirtRegToAllocatedRegMap' \in [VirtRegs -> Locations]
  BY SpillCurrentFacts
<1>2. /\ V' = V
      /\ LI \in V
      /\ LI \notin Handled
      /\ Handled' = Handled \cup {LI}
      /\ Unhandled' = Unhandled \ {LI}
      /\ \A h \in Handled : h.StartPoint <= LI.StartPoint
      /\ \A u \in Unhandled : LI.StartPoint <= u.StartPoint
  BY IterateHandles
<1>3. /\ RegLiveRangesMap' = RegLiveRangesMap
      /\ Fixed' = Fixed
  BY DEF Iterate
<1>4. \A i \in V : /\ i.StartPoint \in Nat
                    /\ i.EndPoint \in Nat
                    /\ i.StartPoint < i.EndPoint
  BY VirtIntervalFacts DEF IInv, TypeOK
<1>5. Handled \subseteq V /\ Unhandled \subseteq V
  BY DEF Handled, IInv, TypeOK
<1>6. StillActive(LI) \subseteq Handled /\ StillActive(LI) \subseteq Active
  BY ExpiryFacts
<1>8. /\ index2StackSlot(StackSlotIndex) \in StackSlots
      /\ index2StackSlot(StackSlotIndex).StackSlot = Len(Spilled)
      /\ StackSlotIndex = Len(Spilled)
      /\ \A h \in Handled : LocationOf(h) # index2StackSlot(StackSlotIndex)
  <2>1. StackSlotIndex = Len(Spilled) /\ StackSlotIndex \in Nat
    BY DEF IInv, SlotInv, TypeOK
  <2>2. /\ index2StackSlot(StackSlotIndex) \in StackSlots
        /\ index2StackSlot(StackSlotIndex).StackSlot = StackSlotIndex
    BY <2>1, LocationFacts
  <2>3. \A h \in Handled : LocationOf(h) # index2StackSlot(StackSlotIndex)
    BY <2>1, <2>2 DEF IInv, SlotInv
  <2> QED
    BY <2>1, <2>2, <2>3
<1>a. TypeOK'
  <2>1. Spilled' \in Seq(Handled')
    BY <1>1, <1>2, <1>6 DEF IInv, TypeOK
  <2>2. FreeRegisters' \in [FreeRegs -> BOOLEAN]
    BY <1>1, ExpiryFacts
  <2>3. Fixed' = FixedIntervals(RegLiveRangesMap)'
    BY <1>3 DEF IInv, TypeOK, FixedIntervals
  <2>4. WellFormed(RegLiveRangesMap)'
    BY <1>3 DEF IInv, TypeOK
  <2>5. Active' \subseteq Handled'
    BY <1>1, <1>2, <1>6
  <2>6. Unhandled' \subseteq V'
    BY <1>2, <1>5
  <2>7. StackSlotIndex' \in Nat
    BY <1>1 DEF IInv, TypeOK
  <2> QED
    BY <1>1, <2>1, <2>2, <2>3, <2>4, <2>5, <2>6, <2>7 DEF TypeOK
<1>b. ScanInv'
  BY <1>2 DEF IInv, ScanInv
<1>c. PlacedInv'
  BY <1>1, <1>2, <1>8 DEF IInv, PlacedInv
<1>d. ActiveInv'
  BY <1>1, <1>6, ExpiryFacts DEF IInv, ActiveInv
<1>e. RetiredInv'
  <2>1. ASSUME NEW h \in Handled', NEW u \in Unhandled',
               LocationOf(h)' \in FreeRegs, h \notin Active'
        PROVE  h.EndPoint <= u.StartPoint
    <3>1. h \in Handled /\ LocationOf(h) \in FreeRegs /\ h \notin StillActive(LI)
      BY <1>1, <1>2, <1>8, <2>1, LocationFacts
    <3>2. h.EndPoint <= LI.StartPoint
      BY <3>1, ExpiryFacts
    <3>3. LI.StartPoint <= u.StartPoint
      BY <1>2
    <3> QED
      BY <1>2, <1>4, <1>5, <3>1, <3>2, <3>3
  <2> QED
    BY <2>1 DEF RetiredInv
<1>f. SlotInv'
  <2>1. \A n \in 1 .. Len(Spilled) : Spilled[n] \in Handled
    BY DEF IInv, TypeOK
  <2>3. /\ Len(Spilled') = Len(Spilled) + 1
        /\ Spilled'[Len(Spilled) + 1] = LI
        /\ \A n \in 1 .. Len(Spilled) : Spilled'[n] = Spilled[n]
        /\ Len(Spilled) \in Nat
    BY <1>1 DEF IInv, TypeOK
  <2>4. ASSUME NEW h \in Handled', LocationOf(h)' \in StackSlots
        PROVE  /\ LocationOf(h)'.StackSlot < Len(Spilled')
               /\ Spilled'[LocationOf(h)'.StackSlot + 1] = h
    <3>1. CASE h = LI
      BY <1>1, <1>8, <2>3, <3>1
    <3>2. CASE h # LI
      <4>1. h \in Handled /\ LocationOf(h)' = LocationOf(h)
        BY <1>1, <1>2, <3>2
      <4>2. /\ LocationOf(h) \in StackSlots
            /\ LocationOf(h).StackSlot \in Nat
            /\ LocationOf(h).StackSlot < Len(Spilled)
            /\ Spilled[LocationOf(h).StackSlot + 1] = h
        BY <2>4, <4>1, LocationFacts DEF IInv, SlotInv
      <4> QED
        BY <2>3, <4>1, <4>2
    <3> QED
      BY <3>1, <3>2
  <2>5. \A n \in 1 .. Len(Spilled') : LocationOf(Spilled[n])' = index2StackSlot(n - 1)
    <3>1. \A n \in 1 .. Len(Spilled) : LocationOf(Spilled[n])' = LocationOf(Spilled[n])
      BY <1>1, <2>1, <2>3 DEF LocationOf
    <3>2. \A n \in 1 .. Len(Spilled) : LocationOf(Spilled[n]) = index2StackSlot(n - 1)
      BY DEF IInv, SlotInv
    <3>3. LocationOf(Spilled[Len(Spilled)])' = LocationOf(LI)'
      BY <2>3, <1>1 DEF LocationOf
    <3> QED
      BY <1>1, <1>8, <2>3, <3>1, <3>2, <3>3
  <2>6. StackSlotIndex' = Len(Spilled')
    BY <1>1, <1>8, <2>3
  <2> QED
    BY <2>4, <2>5, <2>6 DEF SlotInv, LocationOf, index2StackSlot
<1>g. LiveValuesAreApart'
  <2>1. \A h \in Handled : LocationOf(h)' # LocationOf(LI)'
    BY <1>1, <1>8
  <2>2. ASSUME NEW h \in Handled, NEW g \in Handled, h # g, Overlap(h, g)
        PROVE  LocationOf(h)' # LocationOf(g)'
    BY <1>1, <2>2 DEF IInv, LiveValuesAreApart
  <2> QED
    BY <1>2, <2>1, <2>2 DEF LiveValuesAreApart
<1>h. FixedRegistersAreReserved'
  <2>1. \A f \in Fixed : f.Reg \in PhysRegs /\ f.Reg \notin StackSlots
    BY FixedIntervalFacts, TargetAssumption DEF IInv, TypeOK
  <2> QED
    BY <1>1, <1>2, <1>3, <1>8, <2>1 DEF IInv, FixedRegistersAreReserved
<1>i. ValuesSurviveCalls'
  BY <1>1, <1>2, <1>8 DEF IInv, ValuesSurviveCalls
<1> QED
  BY <1>a, <1>b, <1>c, <1>d, <1>e, <1>f, <1>g, <1>h, <1>i DEF IInv

-------------------------------------------------------------------------------
(* The invariant *)

\* Between two functions nothing is left but the free registers.
LEMMA FunctionBoundaries ==
    ASSUME IInv, Reset \/ \E m \in LiveRangesMaps : InitIntervalSets(m)
    PROVE  IInv'
<1>1. CASE Reset
  <2>1. /\ VirtIntervals(<< >>) = {}
        /\ FixedIntervals(<< >>) = {}
        /\ WellFormed(<< >>)
    BY DEF VirtIntervals, VirtRegsOf, FixedIntervals, WellFormed, IsLiveRangesMap,
           FlagsComeFromCalls
  <2>2. VirtIntervals(RegLiveRangesMap)' = {} /\ FixedIntervals(RegLiveRangesMap)' = {}
    BY <1>1, <2>1 DEF Reset, VirtIntervals, VirtRegsOf, VirtInterval, FixedIntervals
  <2>3. Handled' = {} /\ Unhandled' = {} /\ Active' = {} /\ Fixed' = {}
        /\ Spilled' = << >> /\ StackSlotIndex' = 0
    BY <1>1, <2>2 DEF Reset, Handled
  <2>4. VirtRegToAllocatedRegMap' \in [VirtRegs -> Locations]
    BY <1>1 DEF Reset, NoAllocation, Locations
  <2>5. WellFormed(RegLiveRangesMap)' /\ FreeRegisters' = FreeRegisters
    BY <1>1, <2>1 DEF Reset
  <2>6. TypeOK'
    BY <2>2, <2>3, <2>4, <2>5 DEF IInv, TypeOK
  <2> QED
    BY <2>3, <2>6 DEF IInv, ScanInv, PlacedInv, ActiveInv, RetiredInv, SlotInv,
       LiveValuesAreApart, FixedRegistersAreReserved, ValuesSurviveCalls
<1>2. ASSUME NEW m \in LiveRangesMaps, InitIntervalSets(m)
      PROVE  IInv'
  <2>1. VirtIntervals(<< >>) = {}
    BY DEF VirtIntervals, VirtRegsOf
  <2>2. Handled = {} /\ Active = {} /\ Spilled = << >> /\ StackSlotIndex = 0
    <3>1. Handled = {}
      BY <1>2, <2>1 DEF InitIntervalSets, Handled
    <3>2. Active = {} /\ Spilled \in Seq({})
      BY <3>1 DEF IInv, TypeOK
    <3>3. Spilled = << >>
      BY <3>2
    <3> QED
      BY <3>1, <3>2, <3>3 DEF IInv, SlotInv
  <2>3. /\ RegLiveRangesMap' = m
        /\ Unhandled' = VirtIntervals(m)
        /\ Fixed' = FixedIntervals(m)
        /\ UNCHANGED << Active, Spilled, FreeRegisters, VirtRegToAllocatedRegMap,
                        StackSlotIndex >>
    BY <1>2 DEF InitIntervalSets
  <2>4. VirtIntervals(RegLiveRangesMap)' = VirtIntervals(m)
    BY <2>3 DEF VirtIntervals, VirtRegsOf, VirtInterval
  <2>5. FixedIntervals(RegLiveRangesMap)' = FixedIntervals(m)
    BY <2>3 DEF FixedIntervals
  <2>6. Handled' = {}
    BY <2>3, <2>4 DEF Handled
  <2>7. WellFormed(RegLiveRangesMap)'
    BY <2>3, InputAssumption
  <2>8. TypeOK'
    BY <2>2, <2>3, <2>4, <2>5, <2>6, <2>7 DEF IInv, TypeOK
  <2> QED
    BY <2>2, <2>3, <2>6, <2>8 DEF IInv, ScanInv, PlacedInv, ActiveInv, RetiredInv,
       SlotInv, LiveValuesAreApart, FixedRegistersAreReserved, ValuesSurviveCalls
<1> QED
  BY <1>1, <1>2

\* The constructor establishes the invariant.
LEMMA InitHolds == Init => IInv
<1> SUFFICES ASSUME Init PROVE IInv
  OBVIOUS
<1>1. /\ VirtIntervals(<< >>) = {}
      /\ FixedIntervals(<< >>) = {}
      /\ WellFormed(<< >>)
  BY DEF VirtIntervals, VirtRegsOf, FixedIntervals, WellFormed, IsLiveRangesMap,
         FlagsComeFromCalls
<1>2. Handled = {} /\ Unhandled = {} /\ Active = {} /\ Fixed = {}
      /\ Spilled = << >> /\ StackSlotIndex = 0
  BY <1>1 DEF Init, Handled
<1>3. VirtRegToAllocatedRegMap \in [VirtRegs -> Locations]
  BY DEF Init, NoAllocation, Locations
<1>4. TypeOK
  BY <1>1, <1>2, <1>3 DEF Init, TypeOK
<1> QED
  BY <1>2, <1>4 DEF IInv, ScanInv, PlacedInv, ActiveInv, RetiredInv, SlotInv,
     LiveValuesAreApart, FixedRegistersAreReserved, ValuesSurviveCalls

\* Every step keeps the invariant.
LEMMA StepKeeps == IInv /\ [Next]_vars => IInv'
<1> SUFFICES ASSUME IInv, [Next]_vars PROVE IInv'
  OBVIOUS
<1>1. CASE Reset \/ \E m \in LiveRangesMaps : InitIntervalSets(m)
  BY <1>1, FunctionBoundaries
<1>2. ASSUME NEW LI \in Unhandled, Iterate(LI)
      PROVE  IInv'
  BY <1>2, AssignKeeps, SpillActiveKeeps, SpillCurrentKeeps DEF Iterate
<1>3. CASE UNCHANGED vars
  <2>1. /\ Handled' = Handled
        /\ VirtIntervals(RegLiveRangesMap)' = VirtIntervals(RegLiveRangesMap)
        /\ FixedIntervals(RegLiveRangesMap)' = FixedIntervals(RegLiveRangesMap)
        /\ WellFormed(RegLiveRangesMap)' = WellFormed(RegLiveRangesMap)
    BY <1>3 DEF vars, Handled, VirtIntervals, VirtRegsOf, VirtInterval, FixedIntervals
  <2> QED
    BY <1>3, <2>1 DEF vars, IInv, TypeOK, ScanInv, PlacedInv, ActiveInv, RetiredInv,
       SlotInv, LiveValuesAreApart, FixedRegistersAreReserved, ValuesSurviveCalls,
       LocationOf
<1> QED
  BY <1>1, <1>2, <1>3 DEF Next

LEMMA Inductive == Spec => []IInv
BY InitHolds, StepKeeps, PTL DEF Spec

-------------------------------------------------------------------------------
(* Theorems *)

\* Every variable of the allocator keeps its type.
THEOREM TypeCorrect == Spec => []TypeOK
<1>1. IInv => TypeOK
  BY DEF IInv
<1> QED
  BY <1>1, Inductive, PTL

\* Values that are live together are in different registers and stack slots.
THEOREM ValuesAreApart == Spec => []LiveValuesAreApart
<1>1. IInv => LiveValuesAreApart
  BY DEF IInv
<1> QED
  BY <1>1, Inductive, PTL

\* No value is in a register that the instructions of the function name.
THEOREM NamedRegistersAreReserved == Spec => []FixedRegistersAreReserved
<1>1. IInv => FixedRegistersAreReserved
  BY DEF IInv
<1> QED
  BY <1>1, Inductive, PTL

\* A value that is used across a call is on the stack or in a register that
\* the callee preserves.
THEOREM CallsPreserveValues == Spec => []ValuesSurviveCalls
<1>1. IInv => ValuesSurviveCalls
  BY DEF IInv
<1> QED
  BY <1>1, Inductive, PTL

\* The spill area has room for every stack slot that is used.
THEOREM SlotsFitTheSpillArea == Spec => []SpillAreaHoldsTheSlots
<1>1. IInv => SpillAreaHoldsTheSlots
  BY DEF IInv, SlotInv, SpillAreaHoldsTheSlots
<1> QED
  BY <1>1, Inductive, PTL

\* Expiry moves registers from the active intervals to the free ones only.
LEMMA ExpiryLosesNone ==
    ASSUME IInv, NEW LI \in Unhandled
    PROVE  LostRegs = { r \in FreeRegs :
                            /\ ~ FreeAfterExpiry(LI)[r]
                            /\ \A a \in StillActive(LI) : LocationOf(a) # r }
<1>1. Active = StillActive(LI) \cup Expired(LI)
  BY DEF StillActive, Expired
<1>2. \A r \in FreeRegs :
          ~ FreeAfterExpiry(LI)[r] <=>
              ~ FreeRegisters[r] /\ \A a \in Expired(LI) : LocationOf(a) # r
  BY DEF FreeAfterExpiry, LocationOf
<1> QED
  BY <1>1, <1>2 DEF LostRegs

\* An iteration takes a register away for an active interval only, and from no
\* active interval but for another.
LEMMA IterationLosesNone ==
    ASSUME IInv, Next, NEW LI \in Unhandled, Unhandled' = Unhandled \ {LI}
    PROVE  LostRegs' = LostRegs
<1>1. Iterate(LI)
  <2>1. ~ Reset
    BY DEF Reset
  <2>2. ASSUME NEW m \in LiveRangesMaps, InitIntervalSets(m)
        PROVE  FALSE
    BY <2>2 DEF InitIntervalSets, IInv, TypeOK, VirtIntervals, VirtRegsOf
  <2>3. PICK J \in Unhandled : Iterate(J)
    BY <2>1, <2>2 DEF Next
  <2>4. J = LI
    BY <2>3 DEF Iterate
  <2> QED
    BY <2>3, <2>4
<1>2. /\ StillActive(LI) \subseteq Handled
      /\ LI \notin Handled
      /\ FreeAfterExpiry(LI) \in [FreeRegs -> BOOLEAN]
  BY <1>1, IterateHandles, ExpiryFacts
<1>3. LostRegs = { r \in FreeRegs :
                       /\ ~ FreeAfterExpiry(LI)[r]
                       /\ \A a \in StillActive(LI) : LocationOf(a) # r }
  BY ExpiryLosesNone
<1>4. LostRegs' = { r \in FreeRegs :
                        ~ FreeRegisters'[r] /\ \A a \in Active' : LocationOf(a)' # r }
  BY DEF LostRegs, LocationOf
<1>5. CASE AssignPhysReg(LI)
  <2>1. PICK r \in FreeRegs :
            /\ FreeAfterExpiry(LI)[r]
            /\ FreeRegisters' = [FreeAfterExpiry(LI) EXCEPT ![r] = FALSE]
            /\ LocationOf(LI)' = r
            /\ \A h \in Handled : LocationOf(h)' = LocationOf(h)
            /\ Active' = StillActive(LI) \cup {LI}
    BY <1>1, <1>5, AssignFacts
  <2>2. ASSUME NEW x \in FreeRegs
        PROVE  x \in LostRegs' <=> x \in LostRegs
    BY <1>2, <1>3, <1>4, <2>1
  <2> QED
    BY <1>3, <1>4, <2>2
<1>6. CASE SpillActive(LI)
  <2>1. PICK Back \in StillActive(LI) :
            /\ FreeRegisters' = FreeAfterExpiry(LI)
            /\ LocationOf(LI)' = LocationOf(Back)
            /\ \A h \in Handled \ {Back} : LocationOf(h)' = LocationOf(h)
            /\ Active' = (StillActive(LI) \ {Back}) \cup {LI}
    BY <1>1, <1>6, SpillActiveFacts
  <2>2. ASSUME NEW x \in FreeRegs
        PROVE  x \in LostRegs' <=> x \in LostRegs
    BY <1>2, <1>3, <1>4, <2>1
  <2> QED
    BY <1>3, <1>4, <2>2
<1>7. CASE SpillCurrent(LI)
  <2>1. /\ FreeRegisters' = FreeAfterExpiry(LI)
        /\ \A h \in Handled : LocationOf(h)' = LocationOf(h)
        /\ Active' = StillActive(LI)
    BY <1>1, <1>7, SpillCurrentFacts
  <2> QED
    BY <1>2, <1>3, <1>4, <2>1
<1> QED
  BY <1>1, <1>5, <1>6, <1>7 DEF Iterate

\* Within a function the allocator neither loses a register nor finds one that
\* was lost.
THEOREM RegistersAreConserved == Spec => NoRegisterIsLost
<1>1. IInv /\ [Next]_vars =>
          [\A LI \in Unhandled :
               Unhandled' = Unhandled \ {LI} => LostRegs' = LostRegs]_vars
  BY IterationLosesNone
<1> QED
  BY <1>1, Inductive, PTL DEF Spec, NoRegisterIsLost

===============================================================================
