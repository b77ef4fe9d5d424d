------------------------- MODULE AsmCodeGeneratorProofs ------------------------
(***************************************************************************)
(* The builder and the allocator, proved apart in LiveRangesProofs and     *)
(* LinearScanProofs, put together: every step of the whole is a step of    *)
(* each or leaves it alone, the builder delivers what the allocator        *)
(* assumes, and so the places given out are right for the instructions.    *)
(***************************************************************************)
EXTENDS AsmCodeGenerator, LiveRangesProofs, TLAPS

A == INSTANCE LinearScanProofs
        WITH RegLiveRangesMap <- AllocRanges, LiveRangesMaps <- WellFormedMaps

\* The two properties of the builder that the allocation rests on, of any code and
\* any ranges.
UsesAreCovered(insts, m) ==
    \A k \in 1 .. Len(insts), reg \in VirtRegs \cup PhysRegs :
        NamedBy(insts[k], reg) =>
            /\ reg \in DOMAIN m
            /\ reg \in VirtRegs => LiveAt(VirtInterval(m, reg), k - 1)

CallsAreFlagged(insts, m) ==
    \A v \in VirtRegs, i, c, j \in 1 .. Len(insts) :
        /\ i <= c /\ c < j /\ insts[c].isCall
        /\ NamedBy(insts[i], v) /\ NamedBy(insts[j], v)
        => VirtInterval(m, v).UsedAcrossCall

AsmFunction == [InstList : Seq(Instruction), RegLiveRangesMap : WellFormedMaps]

\* What the rewriter finds, and that the allocator works on the function at hand.
HandoverInv ==
    /\ AsmFunctions \in Seq(AsmFunction)
    /\ \A n \in 1 .. Len(AsmFunctions) :
           /\ UsesAreCovered(AsmFunctions[n].InstList, AsmFunctions[n].RegLiveRangesMap)
           /\ CallsAreFlagged(AsmFunctions[n].InstList, AsmFunctions[n].RegLiveRangesMap)
    /\ phase \in {"build", "reset", "allocate"}
    /\ current \in 0 .. Len(AsmFunctions)
    /\ phase # "build" => current # 0
    /\ phase = "allocate" => AllocRanges = CurrentFunction.RegLiveRangesMap

\* The live ranges are a function.
MapInv == RegLiveRangesMap = [r \in DOMAIN RegLiveRangesMap |-> RegLiveRangesMap[r]]

-------------------------------------------------------------------------------
(* The builder *)

\* Every step of the whole is one of the builder or leaves it alone.
LEMMA BuilderSteps == [CompileNext]_allVars => [Next]_vars
<1> SUFFICES ASSUME [CompileNext]_allVars PROVE [Next]_vars
  OBVIOUS
<1>1. CASE BuildAsmFunction
  BY <1>1 DEF BuildAsmFunction, Next
<1>2. CASE BuildInstruction
  BY <1>2 DEF BuildInstruction, Next
<1>3. CASE RewriteNext \/ InitIntervalSets \/ Iterate \/ UNCHANGED allVars
  BY <1>3 DEF RewriteNext, InitIntervalSets, Iterate, allVars, vars
<1> QED
  BY <1>1, <1>2, <1>3 DEF CompileNext

\* The builder works as LiveRanges has it, until all functions are built.
THEOREM BuilderIsLiveRanges == CompileSpec => Spec
<1>1. CompileInit => Init
  BY DEF CompileInit
<1> QED
  BY <1>1, BuilderSteps, PTL DEF CompileSpec, Spec

\* What LiveRangesProofs proves of the builder.
LEMMA BuilderFacts ==
    CompileSpec => [](ExactInv /\ UsesAreLive /\ CallsAreNoticed /\ RangesAreWellFormed)
BY InductiveExact, EveryUseIsLive, FlagsAreThoseOfCalls, RangesMeetTheAssumption,
   BuilderIsLiveRanges, PTL

-------------------------------------------------------------------------------
(* The handover *)

\* The builder's map may be passed to the allocator.
LEMMA BuiltMaps ==
    ASSUME MapInv, RangesAreWellFormed
    PROVE  RegLiveRangesMap \in WellFormedMaps
<1>1. WellFormed(RegLiveRangesMap)
  BY DEF RangesAreWellFormed
<1>2. /\ DOMAIN RegLiveRangesMap \subseteq VirtRegs \cup PhysRegs
      /\ \A r \in DOMAIN RegLiveRangesMap : RegLiveRangesMap[r] \in Seq(LiveRange)
  BY <1>1 DEF WellFormed, IsLiveRangesMap
<1>3. RegLiveRangesMap \in [DOMAIN RegLiveRangesMap -> Seq(LiveRange)]
  BY <1>2 DEF MapInv
<1> QED
  BY <1>1, <1>2, <1>3 DEF WellFormedMaps

\* When an instruction is complete, what the builder keeps is exact.
LEMMA BuiltCodeIsExact ==
    ASSUME ExactInv, UsesAreLive, CallsAreNoticed, operands = << >>
    PROVE  /\ InstList \in Seq(Instruction)
           /\ UsesAreCovered(InstList, RegLiveRangesMap)
           /\ CallsAreFlagged(InstList, RegLiveRangesMap)
<1> DEFINE insts == InstList
           m == RegLiveRangesMap
<1>1. /\ insts \in Seq(Instruction) /\ Len(insts) \in Nat
      /\ \A v \in DOMAIN m \cap VirtRegs : Len(m[v]) = 1
  BY DEF ExactInv, IInv, TypeOK, OneRangeInv, VirtRegsOf
<1>2. Code = insts /\ Indexes = 0 .. Len(insts) - 1
  BY DEF Code, Indexes
<1>3. ASSUME NEW k \in 1 .. Len(insts), NEW reg, NamedBy(insts[k], reg)
      PROVE  k - 1 \in Indexes /\ Names(k - 1, reg)
  <2>1. k - 1 \in 0 .. Len(insts) - 1 /\ (k - 1) + 1 = k
    BY <1>1
  <2> QED
    BY <1>2, <1>3, <2>1 DEF NamedBy, Names
<1>4. ASSUME NEW k \in 1 .. Len(insts), NEW reg \in VirtRegs \cup PhysRegs,
             NamedBy(insts[k], reg)
      PROVE  /\ reg \in DOMAIN m
             /\ reg \in VirtRegs => LiveAt(VirtInterval(m, reg), k - 1)
  <2>1. reg \in DOMAIN m /\ \E n \in 1 .. Len(m[reg]) : LiveAt(m[reg][n], k - 1)
    BY <1>3, <1>4 DEF UsesAreLive
  <2>2. CASE reg \in VirtRegs
    <3>1. LiveAt(m[reg][Len(m[reg])], k - 1)
      BY <1>1, <2>1, <2>2
    <3> QED
      BY <2>1, <3>1 DEF LiveAt, VirtInterval, IntervalOf
  <2> QED
    BY <2>1, <2>2
<1>5. ASSUME NEW v \in VirtRegs, NEW i \in 1 .. Len(insts), NEW c \in 1 .. Len(insts),
             NEW j \in 1 .. Len(insts), i <= c, c < j, insts[c].isCall,
             NamedBy(insts[i], v), NamedBy(insts[j], v)
      PROVE  VirtInterval(m, v).UsedAcrossCall
  <2>1. v \in VirtRegsOf(m)
    BY <1>4, <1>5 DEF VirtRegsOf
  <2>2. /\ c - 1 \in Indexes /\ (c - 1) + 1 = c
        /\ i - 1 \in 0 .. (c - 1) + 1 /\ i - 1 \in Indexes
        /\ j - 1 \in (c - 1) + 1 .. Len(Code) - 1
    BY <1>1, <1>2, <1>5
  <2>3. Names(i - 1, v) /\ Names(j - 1, v)
    BY <1>3, <1>5
  <2>4. Code[(c - 1) + 1].isCall
    BY <1>2, <1>5, <2>2
  <2> QED
    BY <2>1, <2>2, <2>3, <2>4 DEF CallsAreNoticed
<1> QED
  BY <1>1, <1>4, <1>5 DEF UsesAreCovered, CallsAreFlagged

LEMMA MapIsAFunction == CompileSpec => []MapInv
<1>1. CompileInit => MapInv
  BY DEF CompileInit, Init, MapInv
<1>2. MapInv /\ [CompileNext]_allVars => MapInv'
  <2> SUFFICES ASSUME MapInv, [CompileNext]_allVars PROVE MapInv'
    OBVIOUS
  <2>1. CASE BuildAsmFunction
    BY <2>1 DEF BuildAsmFunction, BuildFunction, MapInv
  <2>2. CASE BuildInstruction
    <3>1. ASSUME NEW reg \in VirtRegs \cup PhysRegs, UpdateRegLiveRanges(reg)
          PROVE  MapInv'
      <4>1. PICK f : RegLiveRangesMap' = [r \in DOMAIN RegLiveRangesMap \cup {reg} |-> f[r]]
        <5> DEFINE f == [r \in DOMAIN RegLiveRangesMap \cup {reg} |->
                            IF r # reg THEN RegLiveRangesMap[r]
                            ELSE IF reg \in VirtRegs
                                 THEN UpdateVirtReg(RangesOf(reg))
                                 ELSE UpdatePhysReg(RangesOf(reg))]
        <5>1. RegLiveRangesMap' = f
          BY <3>1 DEF UpdateRegLiveRanges
        <5>2. f = [r \in DOMAIN RegLiveRangesMap \cup {reg} |-> f[r]]
          OBVIOUS
        <5> QED
          BY <5>1, <5>2
      <4> QED
        BY <4>1 DEF MapInv
    <3>2. CASE CreateInst \/ CreateCALLInst
      BY <3>2 DEF CreateInst, CreateCALLInst, MapInv
    <3> QED
      BY <2>2, <3>1, <3>2 DEF BuildInstruction
  <2>3. CASE RewriteNext \/ InitIntervalSets \/ Iterate \/ UNCHANGED allVars
    BY <2>3 DEF RewriteNext, InitIntervalSets, Iterate, allVars, vars, MapInv
  <2> QED
    BY <2>1, <2>2, <2>3 DEF CompileNext
<1> QED
  BY <1>1, <1>2, PTL DEF CompileSpec

LEMMA HandoverInit == CompileInit => HandoverInv
<1> SUFFICES ASSUME CompileInit PROVE HandoverInv
  OBVIOUS
<1>1. AsmFunctions = << >> /\ current = 0 /\ phase = "build"
  BY DEF CompileInit
<1> QED
  BY <1>1 DEF HandoverInv

LEMMA HandoverNext ==
    ASSUME HandoverInv, MapInv, ExactInv, UsesAreLive, CallsAreNoticed,
           RangesAreWellFormed, [CompileNext]_allVars
    PROVE  HandoverInv'
<1> DEFINE Good(f) == /\ UsesAreCovered(f.InstList, f.RegLiveRangesMap)
                      /\ CallsAreFlagged(f.InstList, f.RegLiveRangesMap)
<1>1. /\ AsmFunctions \in Seq(AsmFunction) /\ Len(AsmFunctions) \in Nat
      /\ \A n \in 1 .. Len(AsmFunctions) : Good(AsmFunctions[n])
      /\ phase \in {"build", "reset", "allocate"}
      /\ current \in 0 .. Len(AsmFunctions)
      /\ phase # "build" => current # 0
      /\ phase = "allocate" => AllocRanges = AsmFunctions[current].RegLiveRangesMap
  BY DEF HandoverInv, CurrentFunction
<1> SUFFICES /\ AsmFunctions' \in Seq(AsmFunction)
             /\ \A n \in 1 .. Len(AsmFunctions') : Good(AsmFunctions'[n])
             /\ phase' \in {"build", "reset", "allocate"}
             /\ current' \in 0 .. Len(AsmFunctions')
             /\ phase' # "build" => current' # 0
             /\ phase' = "allocate" =>
                    AllocRanges' = AsmFunctions'[current'].RegLiveRangesMap
  BY DEF HandoverInv, CurrentFunction
<1>2. CASE BuildAsmFunction
  <2> DEFINE f == [InstList |-> InstList, RegLiveRangesMap |-> RegLiveRangesMap]
  <2>1. /\ phase = "build" /\ phase' = phase /\ current' = current
        /\ AsmFunctions' = Append(AsmFunctions, f) /\ operands = << >>
    BY <1>2 DEF BuildAsmFunction, BuildFunction
  <2>2. f \in AsmFunction /\ Good(f)
    BY <2>1, BuiltMaps, BuiltCodeIsExact DEF AsmFunction
  <2> HIDE DEF f, Good
  <2>3. /\ AsmFunctions' \in Seq(AsmFunction) /\ Len(AsmFunctions') = Len(AsmFunctions) + 1
        /\ \A n \in 1 .. Len(AsmFunctions') :
               AsmFunctions'[n] = IF n <= Len(AsmFunctions) THEN AsmFunctions[n] ELSE f
    <3> HIDE DEF AsmFunction
    <3> QED
      BY <1>1, <2>1, <2>2
  <2> QED
    BY <1>1, <2>1, <2>2, <2>3
<1> HIDE DEF Good
<1>3. CASE BuildInstruction
  BY <1>1, <1>3 DEF BuildInstruction
<1>4. CASE RewriteNext
  BY <1>1, <1>4 DEF RewriteNext
<1>5. CASE InitIntervalSets
  BY <1>1, <1>5 DEF InitIntervalSets, Allocator!InitIntervalSets, CurrentFunction
<1>6. CASE Iterate
  BY <1>1, <1>6 DEF Iterate, Allocator!Iterate
<1>7. CASE UNCHANGED allVars
  BY <1>1, <1>7 DEF allVars, alloc
<1> QED
  BY <1>2, <1>3, <1>4, <1>5, <1>6, <1>7 DEF CompileNext

LEMMA Handover == CompileSpec => []HandoverInv
BY HandoverInit, HandoverNext, BuilderFacts, MapIsAFunction, PTL DEF CompileSpec

-------------------------------------------------------------------------------
(* The allocator *)

\* Every step of the whole is one of the allocator or leaves it alone; what it is
\* called with is well formed.
LEMMA AllocatorSteps == HandoverInv /\ [CompileNext]_allVars => [Allocator!Next]_(Allocator!vars)
<1> SUFFICES ASSUME HandoverInv, [CompileNext]_allVars PROVE [Allocator!Next]_(Allocator!vars)
  OBVIOUS
<1>1. CASE BuildAsmFunction \/ BuildInstruction \/ UNCHANGED allVars
  BY <1>1 DEF BuildAsmFunction, BuildInstruction, allVars, alloc, Allocator!vars
<1>2. CASE RewriteNext
  BY <1>2 DEF RewriteNext, Allocator!Next
<1>3. CASE InitIntervalSets
  <2>1. current \in 1 .. Len(AsmFunctions) /\ AsmFunctions \in Seq(AsmFunction)
    BY <1>3 DEF InitIntervalSets, HandoverInv
  <2>2. AsmFunctions[current] \in AsmFunction
    <3> HIDE DEF AsmFunction
    <3> QED
      BY <2>1
  <2>3. CurrentFunction.RegLiveRangesMap \in WellFormedMaps
    BY <2>2 DEF AsmFunction, CurrentFunction
  <2> QED
    BY <1>3, <2>3 DEF InitIntervalSets, Allocator!Next
<1>4. CASE Iterate
  BY <1>4 DEF Iterate, Allocator!Next
<1> QED
  BY <1>1, <1>2, <1>3, <1>4 DEF CompileNext

\* The allocator works as LinearScan has it, under its assumption.
THEOREM AllocatorIsLinearScan == CompileSpec => Allocator!Spec
<1>1. CompileInit => Allocator!Init
  BY DEF CompileInit
<1> QED
  BY <1>1, AllocatorSteps, Handover, PTL DEF CompileSpec, Allocator!Spec

LEMMA SameAllocator == Allocator!Spec => A!Spec
<1>1. Allocator!StackSlots = A!StackSlots /\ Allocator!NoAllocation = A!NoAllocation
  BY DEF Allocator!StackSlots, A!StackSlots, Allocator!NoAllocation, A!NoAllocation
<1>2. Allocator!Init => A!Init
  BY <1>1, Zenon DEF Allocator!Init, A!Init
<1>3. [Allocator!Next]_(Allocator!vars) => [A!Next]_(A!vars)
  <2>1. Allocator!Reset => A!Reset
    BY <1>1, Zenon DEF Allocator!Reset, A!Reset
  <2>2. \A m : Allocator!InitIntervalSets(m) => A!InitIntervalSets(m)
    <3>1. \A m : Allocator!VirtRegsOf(m) = A!VirtRegsOf(m)
      BY DEF Allocator!VirtRegsOf, A!VirtRegsOf
    <3>2. \A r, range : Allocator!IntervalOf(r, range) = A!IntervalOf(r, range)
      BY DEF Allocator!IntervalOf, A!IntervalOf
    <3>3. \A m, v : Allocator!VirtInterval(m, v) = A!VirtInterval(m, v)
      BY <3>2, Zenon DEF Allocator!VirtInterval, A!VirtInterval
    <3>4. \A m : Allocator!VirtIntervals(m) = A!VirtIntervals(m)
      BY <3>1, <3>3 DEF Allocator!VirtIntervals, A!VirtIntervals
    <3>5. \A m : Allocator!FixedIntervals(m) = A!FixedIntervals(m)
      BY <3>2 DEF Allocator!FixedIntervals, A!FixedIntervals
    <3> QED
      BY <3>4, <3>5, Zenon DEF Allocator!InitIntervalSets, A!InitIntervalSets
  <2>3. ASSUME NEW LI, Allocator!Iterate(LI) PROVE A!Iterate(LI)
    <3>1. Allocator!Expired(LI) = A!Expired(LI)
      BY DEF Allocator!Expired, A!Expired
    <3>2. Allocator!StillActive(LI) = A!StillActive(LI)
      BY <3>1, Zenon DEF Allocator!StillActive, A!StillActive
    <3>3. Allocator!FreeAfterExpiry(LI) = A!FreeAfterExpiry(LI)
      BY <3>1 DEF Allocator!FreeAfterExpiry, A!FreeAfterExpiry
    <3>4. \A r : /\ Allocator!ConflictWithFixed(r, LI) <=> A!ConflictWithFixed(r, LI)
                 /\ Allocator!SuitsCalls(r, LI) <=> A!SuitsCalls(r, LI)
      BY DEF Allocator!ConflictWithFixed, A!ConflictWithFixed, Allocator!SuitsCalls,
         A!SuitsCalls
    <3>5. Allocator!FreePhysRegs(LI) = A!FreePhysRegs(LI)
      BY <3>3, <3>4 DEF Allocator!FreePhysRegs, A!FreePhysRegs
    <3>6. \A n : Allocator!index2StackSlot(n) = A!index2StackSlot(n)
      BY DEF Allocator!index2StackSlot, A!index2StackSlot
    <3>7. \A Back : Allocator!IsBack(Back, LI) <=> A!IsBack(Back, LI)
      BY <3>2, Zenon DEF Allocator!IsBack, A!IsBack
    <3>8. Allocator!AssignPhysReg(LI) => A!AssignPhysReg(LI)
      BY <3>2, <3>3, <3>5, Zenon DEF Allocator!AssignPhysReg, A!AssignPhysReg
    <3>9. Allocator!SpillActive(LI) => A!SpillActive(LI)
      BY <3>2, <3>3, <3>5, <3>6, <3>7, Zenon DEF Allocator!SpillActive, A!SpillActive
    <3>10. Allocator!SpillCurrent(LI) => A!SpillCurrent(LI)
      BY <3>2, <3>3, <3>5, <3>6, Zenon DEF Allocator!SpillCurrent, A!SpillCurrent
    <3>11. Allocator!IsTop(LI) => A!IsTop(LI)
      BY Zenon DEF Allocator!IsTop, A!IsTop
    <3> QED
      BY <2>3, <3>8, <3>9, <3>10, <3>11, Zenon DEF Allocator!Iterate, A!Iterate
  <2>4. Allocator!Next => A!Next
    BY <2>1, <2>2, <2>3, Zenon DEF Allocator!Next, A!Next
  <2>5. UNCHANGED Allocator!vars => UNCHANGED A!vars
    BY DEF Allocator!vars, A!vars
  <2> QED
    BY <2>4, <2>5
<1> QED
  BY <1>2, <1>3, PTL DEF Allocator!Spec, A!Spec

\* What LinearScanProofs proves of the allocator.
LEMMA AllocatorFacts == CompileSpec => []A!IInv
<1>1. A!RegisterAssumption
  BY RegisterAssumption DEF A!RegisterAssumption
<1>2. A!TargetAssumption
  BY TargetAssumption DEF A!TargetAssumption, A!StackSlots
<1>3. A!InputAssumption
  <2>1. \A m : WellFormed(m) => A!WellFormed(m)
    BY DEF A!WellFormed, A!IsLiveRangesMap, A!FlagsComeFromCalls, A!LiveRange, A!VirtRegsOf,
       A!VirtInterval, A!IntervalOf, A!LiveAt, WellFormed, IsLiveRangesMap,
       FlagsComeFromCalls, LiveRange, VirtRegsOf, VirtInterval, IntervalOf, LiveAt
  <2> QED
    BY <2>1 DEF A!InputAssumption, WellFormedMaps
<1>4. A!Spec => []A!IInv
  BY <1>1, <1>2, <1>3, A!Inductive
<1> QED
  BY <1>4, AllocatorIsLinearScan, SameAllocator, PTL

-------------------------------------------------------------------------------
(* The allocation *)

\* What the allocator gave out, of the function at hand, in the terms of the
\* whole: each virtual register that has live ranges has a place, apart from what
\* is live with it and from the registers the code names, and safe from calls.
LEMMA Allocation ==
    ASSUME A!IInv, Unhandled = {},
           NEW v \in DOMAIN AllocRanges \cap VirtRegs
    PROVE  /\ Place(v) \in FreeRegs \cup Allocator!StackSlots
           /\ \A w \in DOMAIN AllocRanges \cap VirtRegs :
                 w # v /\ Overlap(VirtInterval(AllocRanges, v), VirtInterval(AllocRanges, w))
                     => Place(w) # Place(v)
           /\ \A r \in DOMAIN AllocRanges \cap PhysRegs : Place(v) # r
           /\ VirtInterval(AllocRanges, v).UsedAcrossCall =>
                  Place(v) \in CalleeSavedRegs \cup Allocator!StackSlots
<1> DEFINE m == AllocRanges
           I(w) == A!VirtInterval(m, w)
<1>1. \A w \in DOMAIN m \cap VirtRegs :
          I(w) \in A!Handled /\ I(w).Reg = w /\ A!LocationOf(I(w)) = Place(w)
  BY DEF A!Handled, A!VirtIntervals, A!VirtRegsOf, A!VirtInterval, A!IntervalOf,
     A!LocationOf, Place
<1>2. \A w : VirtInterval(m, w) = I(w)
  BY DEF VirtInterval, IntervalOf, A!VirtInterval, A!IntervalOf
<1>3. Allocator!StackSlots = A!StackSlots
  BY DEF Allocator!StackSlots, A!StackSlots
<1>4. Place(v) \in FreeRegs \cup A!StackSlots
  BY <1>1 DEF A!IInv, A!PlacedInv
<1>5. ASSUME NEW w \in DOMAIN m \cap VirtRegs, w # v, Overlap(I(v), I(w))
      PROVE  Place(w) # Place(v)
  <2>1. I(v) # I(w) /\ A!Overlap(I(v), I(w))
    BY <1>1, <1>5 DEF Overlap, A!Overlap
  <2> QED
    BY <1>1, <2>1 DEF A!IInv, A!LiveValuesAreApart
<1>6. ASSUME NEW r \in DOMAIN m \cap PhysRegs PROVE Place(v) # r
  <2>1. m[r] \in Seq(A!LiveRange) /\ m[r] # << >>
    BY DEF A!IInv, A!TypeOK, A!WellFormed, A!IsLiveRangesMap
  <2>2. 1 \in 1 .. Len(m[r])
    <3> HIDE DEF m
    <3> QED
      BY <2>1
  <2>3. A!IntervalOf(r, m[r][1]) \in Fixed
    BY <2>2 DEF A!IInv, A!TypeOK, A!FixedIntervals
  <2>4. A!IntervalOf(r, m[r][1]).Reg = r
    BY DEF A!IntervalOf
  <2> QED
    BY <1>1, <2>3, <2>4 DEF A!IInv, A!FixedRegistersAreReserved
<1>7. I(v).UsedAcrossCall => Place(v) \in A!StackSlots \cup CalleeSavedRegs
  BY <1>1 DEF A!IInv, A!ValuesSurviveCalls
<1> HIDE DEF I
<1> QED
  BY <1>2, <1>3, <1>4, <1>5, <1>6, <1>7

\* The places are right for the instructions, which the allocator never saw.
LEMMA PlacesFitTheCode ==
    ASSUME HandoverInv, A!IInv
    PROVE  ValuesArePreserved
<1> SUFFICES ASSUME phase = "allocate", Unhandled = {},
                    NEW v \in VirtRegs,
                    NEW i \in 1 .. Len(CurrentFunction.InstList),
                    NEW j \in 1 .. Len(CurrentFunction.InstList),
                    i <= j, NamedBy(CurrentFunction.InstList[i], v),
                    NamedBy(CurrentFunction.InstList[j], v)
             PROVE  /\ Place(v) \in FreeRegs \cup Allocator!StackSlots
                    /\ \A k \in i .. j :
                        /\ \A reg \in VirtRegs \cup PhysRegs :
                              reg # v /\ NamedBy(CurrentFunction.InstList[k], reg)
                                  => Place(reg) # Place(v)
                        /\ CurrentFunction.InstList[k].isCall /\ k < j =>
                              Place(v) \in CalleeSavedRegs \cup Allocator!StackSlots
  BY DEF ValuesArePreserved
<1> DEFINE insts == CurrentFunction.InstList
           m == AllocRanges
<1>1. /\ current \in 1 .. Len(AsmFunctions)
      /\ m = CurrentFunction.RegLiveRangesMap
  BY DEF HandoverInv
<1>2. Len(insts) \in Nat
  <2>1. AsmFunctions[current] \in AsmFunction
    <3>1. AsmFunctions \in Seq(AsmFunction)
      BY DEF HandoverInv
    <3> HIDE DEF AsmFunction
    <3> QED
      BY <1>1, <3>1
  <2>2. insts \in Seq(Instruction)
    BY <2>1 DEF AsmFunction, CurrentFunction
  <2> HIDE DEF insts
  <2> QED
    BY <2>2
<1>3. UsesAreCovered(insts, m) /\ CallsAreFlagged(insts, m)
  BY <1>1 DEF HandoverInv, CurrentFunction
<1>4. /\ v \in DOMAIN m
      /\ LiveAt(VirtInterval(m, v), i - 1) /\ LiveAt(VirtInterval(m, v), j - 1)
  BY <1>3 DEF UsesAreCovered
<1>5. \A w \in DOMAIN m \cap VirtRegs :
          VirtInterval(m, w).StartPoint \in Nat /\ VirtInterval(m, w).EndPoint \in Nat
  <2>1. \A w \in DOMAIN m \cap VirtRegs :
            m[w] \in Seq(A!LiveRange) /\ m[w] # << >>
    BY DEF A!IInv, A!TypeOK, A!WellFormed, A!IsLiveRangesMap
  <2> SUFFICES ASSUME NEW w \in DOMAIN m \cap VirtRegs
               PROVE  VirtInterval(m, w).StartPoint \in Nat
                      /\ VirtInterval(m, w).EndPoint \in Nat
    OBVIOUS
  <2> DEFINE s == m[w]
  <2>2. s \in Seq(A!LiveRange) /\ s # << >>
    BY <2>1
  <2>3. VirtInterval(m, w) = IntervalOf(w, s[Len(s)])
    BY DEF VirtInterval
  <2> HIDE DEF s
  <2>4. s[Len(s)] \in A!LiveRange
    BY <2>2
  <2> QED
    BY <2>3, <2>4 DEF IntervalOf, A!LiveRange
<1>6. ASSUME NEW k \in i .. j, NEW reg \in VirtRegs \cup PhysRegs,
             reg # v, NamedBy(insts[k], reg)
      PROVE  Place(reg) # Place(v)
  <2>1. k \in 1 .. Len(insts)
    BY <1>2
  <2>2. reg \in DOMAIN m
    BY <1>3, <1>6, <2>1 DEF UsesAreCovered
  <2>3. CASE reg \in VirtRegs
    <3>1. LiveAt(VirtInterval(m, reg), k - 1)
      BY <1>3, <1>6, <2>1, <2>3 DEF UsesAreCovered
    <3>2. Overlap(VirtInterval(m, v), VirtInterval(m, reg))
      BY <1>4, <1>5, <2>1, <2>2, <2>3, <3>1 DEF LiveAt, Overlap
    <3> QED
      BY <1>4, <1>6, <2>2, <2>3, <3>2, Allocation
  <2>4. CASE reg \in PhysRegs
    <3>1. Place(reg) = reg
      BY <2>4, RegisterAssumption DEF Place
    <3> QED
      BY <1>4, <2>2, <2>4, <3>1, Allocation
  <2> QED
    BY <2>3, <2>4
<1>7. ASSUME NEW k \in i .. j, insts[k].isCall, k < j
      PROVE  Place(v) \in CalleeSavedRegs \cup Allocator!StackSlots
  <2>1. k \in 1 .. Len(insts)
    BY <1>2
  <2>2. VirtInterval(m, v).UsedAcrossCall
    BY <1>3, <1>7, <2>1 DEF CallsAreFlagged
  <2> QED
    BY <1>4, <2>2, Allocation
<1> QED
  BY <1>4, <1>6, <1>7, Allocation

\* From one use of a register to another no instruction touches its place, in every
\* function of every module: AsmBuilder::build and AsmRewriter::rewrite together.
THEOREM PlacesAreUntouched == CompileSpec => []ValuesArePreserved
BY Handover, AllocatorFacts, PlacesFitTheCode, PTL

===============================================================================
