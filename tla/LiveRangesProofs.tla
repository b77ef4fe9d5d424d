---------------------------- MODULE LiveRangesProofs ----------------------------
(***************************************************************************)
(* The live ranges of every function are well formed, whatever its         *)
(* instructions: the assumption under which LinearScanProofs proves the    *)
(* register allocator correct.  They are also exact: no use is outside of  *)
(* them, none is longer than its uses, and calls are noticed exactly.      *)
(***************************************************************************)
EXTENDS LiveRanges, TLAPS

\* No range extends past the instruction that is being built.
EndInv ==
    \A r \in DOMAIN RegLiveRangesMap :
        \A n \in 1 .. Len(RegLiveRangesMap[r]) :
            /\ RegLiveRangesMap[r][n].EndPoint <= Len(InstList) + 1
            /\ operands = << >> => RegLiveRangesMap[r][n].EndPoint <= Len(InstList)

LastRange(r) == RegLiveRangesMap[r][Len(RegLiveRangesMap[r])]

\* The flag of a virtual register says whether an index that was noted lies in
\* its range.
FlagInv ==
    \A v \in VirtRegsOf(RegLiveRangesMap) :
        LastRange(v).UsedAcrossCall <=>
            \E k \in CurrentCallInstIndexes : LiveAt(LastRange(v), k)

IInv == TypeOK /\ EndInv /\ FlagInv

\* WithFlag sets a flag and keeps the rest.
LEMMA WithFlagFacts ==
    ASSUME NEW range \in LiveRange
    PROVE  /\ WithFlag(range) \in LiveRange
           /\ WithFlag(range).StartPoint = range.StartPoint
           /\ WithFlag(range).EndPoint = range.EndPoint
           /\ WithFlag(range).UsedAcrossCall <=>
                  \/ range.UsedAcrossCall
                  \/ \E k \in CurrentCallInstIndexes : LiveAt(range, k)
BY DEF WithFlag, LiveRange

\* A fresh range covers the instruction that is being built, and nothing else.
LEMMA ThisInstructionFacts ==
    ASSUME TypeOK
    PROVE  /\ ThisInstruction \in LiveRange
           /\ ThisInstruction.StartPoint = Len(InstList)
           /\ ThisInstruction.EndPoint = Len(InstList) + 1
           /\ ~ ThisInstruction.UsedAcrossCall
           /\ Len(InstList) \in Nat
<1>1. Len(InstList) \in Nat
  BY DEF TypeOK
<1> QED
  BY <1>1 DEF ThisInstruction, LiveRange

\* What is known of the ranges of a register.
RangesInv(ranges) ==
    /\ ranges \in Seq(LiveRange)
    /\ \A n \in 1 .. Len(ranges) :
           /\ ranges[n].StartPoint < ranges[n].EndPoint
           /\ ranges[n].EndPoint <= Len(InstList) + 1

\* ... and of the flag of its last one.
FlagIsExact(ranges) ==
    ranges[Len(ranges)].UsedAcrossCall <=>
        \E k \in CurrentCallInstIndexes : LiveAt(ranges[Len(ranges)], k)

LEMMA NewRangeFacts ==
    ASSUME TypeOK, NEW ranges, RangesInv(ranges)
    PROVE  /\ RangesInv(NewRange(ranges))
           /\ NewRange(ranges) # << >>
           /\ FlagIsExact(NewRange(ranges))
<1> DEFINE new == WithFlag(ThisInstruction)
           s == NewRange(ranges)
<1>1. /\ new \in LiveRange
      /\ new.StartPoint = Len(InstList)
      /\ new.EndPoint = Len(InstList) + 1
      /\ new.UsedAcrossCall <=>
             \E k \in CurrentCallInstIndexes : LiveAt(ThisInstruction, k)
      /\ Len(InstList) \in Nat
  BY ThisInstructionFacts, WithFlagFacts
<1>2. \A k : LiveAt(ThisInstruction, k) <=> LiveAt(new, k)
  BY ThisInstructionFacts, WithFlagFacts DEF LiveAt
<1>3. s = Append(ranges, new) /\ ranges \in Seq(LiveRange)
  BY DEF NewRange, RangesInv
<1> HIDE DEF new, s
<1>4. /\ s \in Seq(LiveRange)
      /\ s # << >>
      /\ Len(s) = Len(ranges) + 1
      /\ s[Len(s)] = new
      /\ \A n \in 1 .. Len(ranges) : s[n] = ranges[n]
      /\ Len(ranges) \in Nat
  BY <1>1, <1>3
<1>5. RangesInv(s)
  BY <1>1, <1>4 DEF RangesInv
<1>6. FlagIsExact(s)
  BY <1>1, <1>2, <1>4 DEF FlagIsExact
<1> QED
  BY <1>4, <1>5, <1>6 DEF s

LEMMA ExtendLastFacts ==
    ASSUME TypeOK, NEW ranges, RangesInv(ranges), ranges # << >>
    PROVE  /\ RangesInv(ExtendLast(ranges))
           /\ ExtendLast(ranges) # << >>
           /\ FlagIsExact(ranges) => FlagIsExact(ExtendLast(ranges))
<1> DEFINE last == ranges[Len(ranges)]
           longer == [last EXCEPT !.EndPoint = ThisInstruction.EndPoint]
           new == WithFlag(longer)
           s == ExtendLast(ranges)
<1>1. /\ ranges \in Seq(LiveRange)
      /\ Len(ranges) \in 1 .. Len(ranges)
      /\ last \in LiveRange
      /\ last.StartPoint < last.EndPoint
      /\ last.EndPoint <= Len(InstList) + 1
      /\ Len(InstList) \in Nat
  BY DEF RangesInv, TypeOK
<1>2. /\ longer \in LiveRange
      /\ longer.StartPoint = last.StartPoint
      /\ longer.EndPoint = Len(InstList) + 1
      /\ longer.UsedAcrossCall = last.UsedAcrossCall
  BY <1>1, ThisInstructionFacts DEF LiveRange
<1>3. /\ new \in LiveRange
      /\ new.StartPoint = last.StartPoint
      /\ new.EndPoint = Len(InstList) + 1
      /\ new.UsedAcrossCall <=>
             \/ last.UsedAcrossCall
             \/ \E k \in CurrentCallInstIndexes : LiveAt(longer, k)
  BY <1>2, WithFlagFacts
<1>4. \A k \in CurrentCallInstIndexes :
          /\ LiveAt(longer, k) <=> LiveAt(new, k)
          /\ LiveAt(last, k) => LiveAt(new, k)
  <2>1. \A k \in CurrentCallInstIndexes : k \in Nat
    BY DEF TypeOK
  <2> QED
    BY <1>1, <1>2, <1>3, <2>1 DEF LiveAt, LiveRange
<1>5. s = [ranges EXCEPT ![Len(ranges)] = new]
  BY DEF ExtendLast
<1> HIDE DEF longer, new, s
<1>6. /\ s \in Seq(LiveRange)
      /\ s # << >>
      /\ Len(s) = Len(ranges)
      /\ s[Len(s)] = new
      /\ \A n \in 1 .. Len(ranges) : n # Len(ranges) => s[n] = ranges[n]
  BY <1>1, <1>3, <1>5
<1>7. RangesInv(s)
  <2>1. ASSUME NEW n \in 1 .. Len(s)
        PROVE  /\ s[n].StartPoint < s[n].EndPoint
               /\ s[n].EndPoint <= Len(InstList) + 1
    <3>1. CASE n = Len(s)
      <4>1. last.StartPoint \in Nat /\ last.EndPoint \in Nat
        BY <1>1 DEF LiveRange
      <4> QED
        BY <1>1, <1>3, <1>6, <3>1, <4>1
    <3>2. CASE n # Len(s)
      BY <1>6, <2>1, <3>2 DEF RangesInv
    <3> QED
      BY <3>1, <3>2
  <2> QED
    BY <1>6, <2>1 DEF RangesInv
<1>8. ASSUME FlagIsExact(ranges) PROVE FlagIsExact(s)
  BY <1>3, <1>4, <1>6, <1>8 DEF FlagIsExact
<1> QED
  BY <1>6, <1>7, <1>8 DEF s

\* updateRegLiveRanges keeps what is known of the ranges of reg.
LEMMA UpdateFacts ==
    ASSUME IInv, NEW reg \in VirtRegs \cup PhysRegs, UpdateRegLiveRanges(reg)
    PROVE  /\ RegLiveRangesMap'[reg] # << >>
           /\ RangesInv(RegLiveRangesMap'[reg])
           /\ reg \in VirtRegs => FlagIsExact(RegLiveRangesMap'[reg])
<1>1. RegLiveRangesMap'[reg] =
          IF reg \in VirtRegs THEN UpdateVirtReg(RangesOf(reg))
          ELSE UpdatePhysReg(RangesOf(reg))
  BY DEF UpdateRegLiveRanges
<1>2. RangesInv(RangesOf(reg))
  <2>1. CASE reg \in DOMAIN RegLiveRangesMap
    BY <2>1 DEF IInv, EndInv, TypeOK, IsLiveRangesMap, RangesOf, RangesInv
  <2>2. CASE reg \notin DOMAIN RegLiveRangesMap
    BY <2>2 DEF RangesOf, RangesInv
  <2> QED
    BY <2>1, <2>2
<1>3. reg \in VirtRegs /\ RangesOf(reg) # << >> => FlagIsExact(RangesOf(reg))
  BY DEF IInv, FlagInv, FlagIsExact, LastRange, RangesOf, VirtRegsOf
<1>4. CASE reg \in VirtRegs
  BY <1>1, <1>2, <1>3, <1>4, NewRangeFacts, ExtendLastFacts DEF UpdateVirtReg, IInv
<1>5. CASE reg \notin VirtRegs
  BY <1>1, <1>2, <1>5, NewRangeFacts, ExtendLastFacts DEF UpdatePhysReg, IInv
<1> QED
  BY <1>4, <1>5

\* An update keeps the invariant.
LEMMA UpdateKeeps ==
    ASSUME IInv, NEW reg \in VirtRegs \cup PhysRegs, UpdateRegLiveRanges(reg)
    PROVE  IInv'
<1>1. /\ DOMAIN RegLiveRangesMap' = DOMAIN RegLiveRangesMap \cup {reg}
      /\ \A r \in DOMAIN RegLiveRangesMap : r # reg => RegLiveRangesMap'[r] = RegLiveRangesMap[r]
      /\ operands' = Append(operands, reg)
      /\ InstList' = InstList
      /\ CurrentCallInstIndexes' = CurrentCallInstIndexes
  BY DEF UpdateRegLiveRanges
<1>2. /\ RegLiveRangesMap'[reg] # << >>
      /\ RangesInv(RegLiveRangesMap'[reg])
      /\ reg \in VirtRegs => FlagIsExact(RegLiveRangesMap'[reg])
  BY UpdateFacts
<1>3. operands' # << >> /\ operands' \in Seq(VirtRegs \cup PhysRegs)
  BY <1>1 DEF IInv, TypeOK
<1>4. TypeOK'
  <2>1. IsLiveRangesMap(RegLiveRangesMap)'
    <3>1. DOMAIN RegLiveRangesMap' \subseteq VirtRegs \cup PhysRegs
      BY <1>1 DEF IInv, TypeOK, IsLiveRangesMap
    <3>2. ASSUME NEW r \in DOMAIN RegLiveRangesMap'
          PROVE  /\ RegLiveRangesMap'[r] \in Seq(LiveRange)
                 /\ RegLiveRangesMap'[r] # << >>
                 /\ \A k \in 1 .. Len(RegLiveRangesMap'[r]) :
                        RegLiveRangesMap'[r][k].StartPoint < RegLiveRangesMap'[r][k].EndPoint
      <4>1. CASE r = reg
        BY <1>2, <4>1 DEF RangesInv
      <4>2. CASE r # reg
        BY <1>1, <4>2 DEF IInv, TypeOK, IsLiveRangesMap
      <4> QED
        BY <4>1, <4>2
    <3> QED
      BY <3>1, <3>2 DEF IsLiveRangesMap
  <2> QED
    BY <1>1, <1>3, <2>1 DEF IInv, TypeOK
<1>5. EndInv'
  <2>1. ASSUME NEW r \in DOMAIN RegLiveRangesMap', NEW n \in 1 .. Len(RegLiveRangesMap'[r])
        PROVE  RegLiveRangesMap'[r][n].EndPoint <= Len(InstList) + 1
    <3>1. CASE r = reg
      BY <1>2, <2>1, <3>1 DEF RangesInv
    <3>2. CASE r # reg
      BY <1>1, <2>1, <3>2 DEF IInv, EndInv
    <3> QED
      BY <3>1, <3>2
  <2> QED
    BY <1>1, <1>3, <2>1 DEF EndInv
<1>6. FlagInv'
  <2>1. ASSUME NEW v \in VirtRegsOf(RegLiveRangesMap)'
        PROVE  FlagIsExact(RegLiveRangesMap'[v])
    <3>1. CASE v = reg
      BY <1>2, <2>1, <3>1 DEF VirtRegsOf
    <3>2. CASE v # reg
      BY <1>1, <2>1, <3>2 DEF IInv, FlagInv, FlagIsExact, VirtRegsOf, LastRange
    <3> QED
      BY <3>1, <3>2
  <2> QED
    BY <1>1, <2>1 DEF FlagInv, FlagIsExact, LastRange, LiveAt
<1> QED
  BY <1>4, <1>5, <1>6 DEF IInv

\* Appending an instruction keeps the invariant: no range reaches past it.
LEMMA CreateKeeps ==
    ASSUME IInv, CreateInst \/ CreateCALLInst
    PROVE  IInv'
<1>1. PICK inst \in Instruction : InstList' = Append(InstList, inst)
  BY DEF CreateInst, CreateCALLInst, IInv, TypeOK, Instruction
<1>2. /\ operands' = << >>
      /\ RegLiveRangesMap' = RegLiveRangesMap
      /\ \/ CurrentCallInstIndexes' = CurrentCallInstIndexes
         \/ CurrentCallInstIndexes' = CurrentCallInstIndexes \cup {Len(InstList')}
  BY DEF CreateInst, CreateCALLInst
<1>3. /\ InstList' \in Seq(Instruction)
      /\ Len(InstList') = Len(InstList) + 1
      /\ Len(InstList) \in Nat
  BY <1>1 DEF IInv, TypeOK
<1>4. TypeOK'
  <2>1. CurrentCallInstIndexes' \subseteq 1 .. Len(InstList')
    <3>1. CurrentCallInstIndexes \subseteq 1 .. Len(InstList)
      BY DEF IInv, TypeOK
    <3>2. 1 .. Len(InstList) \subseteq 1 .. Len(InstList')
      BY <1>3
    <3>3. Len(InstList') \in 1 .. Len(InstList')
      BY <1>3
    <3> QED
      BY <1>2, <3>1, <3>2, <3>3
  <2> QED
    BY <1>2, <1>3, <2>1 DEF IInv, TypeOK, IsLiveRangesMap
<1>5. EndInv'
  <2>1. ASSUME NEW r \in DOMAIN RegLiveRangesMap,
               NEW n \in 1 .. Len(RegLiveRangesMap[r])
        PROVE  RegLiveRangesMap[r][n].EndPoint <= Len(InstList')
    BY <1>3 DEF IInv, EndInv
  <2>2. ASSUME NEW r \in DOMAIN RegLiveRangesMap,
               NEW n \in 1 .. Len(RegLiveRangesMap[r])
        PROVE  RegLiveRangesMap[r][n].EndPoint \in Nat
    <3>1. RegLiveRangesMap[r] \in Seq(LiveRange)
      BY DEF IInv, TypeOK, IsLiveRangesMap
    <3>2. RegLiveRangesMap[r][n] \in LiveRange
      BY <3>1
    <3> QED
      BY <3>2 DEF LiveRange
  <2> QED
    BY <1>2, <1>3, <2>1, <2>2 DEF EndInv
<1>6. FlagInv'
  <2>1. ASSUME NEW v \in VirtRegsOf(RegLiveRangesMap)
        PROVE  ~ LiveAt(LastRange(v), Len(InstList'))
    <3> DEFINE s == RegLiveRangesMap[v]
    <3>1. s \in Seq(LiveRange) /\ s # << >>
      BY <2>1 DEF IInv, TypeOK, IsLiveRangesMap, VirtRegsOf
    <3>2. Len(s) \in 1 .. Len(s) /\ s[Len(s)] \in LiveRange
      BY <3>1
    <3>3. s[Len(s)].EndPoint <= Len(InstList) + 1
      BY <2>1, <3>2 DEF IInv, EndInv, VirtRegsOf
    <3>4. s[Len(s)].EndPoint \in Nat
      BY <3>2 DEF LiveRange
    <3> QED
      BY <1>3, <3>3, <3>4 DEF LiveAt, LastRange
  <2>2. ASSUME NEW v \in VirtRegsOf(RegLiveRangesMap)
        PROVE  (\E k \in CurrentCallInstIndexes' : LiveAt(LastRange(v), k)) <=>
               (\E k \in CurrentCallInstIndexes : LiveAt(LastRange(v), k))
    BY <1>2, <2>1
  <2>3. ASSUME NEW v \in VirtRegsOf(RegLiveRangesMap)
        PROVE  LastRange(v)' = LastRange(v)
    BY <1>2 DEF LastRange
  <2>4. VirtRegsOf(RegLiveRangesMap)' = VirtRegsOf(RegLiveRangesMap)
    BY <1>2 DEF VirtRegsOf
  <2> QED
    BY <2>2, <2>3, <2>4 DEF IInv, FlagInv, LiveAt
<1> QED
  BY <1>4, <1>5, <1>6 DEF IInv

\* A function with no instruction yet.
LEMMA EmptyFunction ==
    ASSUME InstList = << >>, CurrentCallInstIndexes = {}, RegLiveRangesMap = << >>,
           operands = << >>
    PROVE  IInv
BY DEF IInv, TypeOK, IsLiveRangesMap, EndInv, FlagInv, VirtRegsOf

LEMMA Inductive == Spec => []IInv
<1>1. Init => IInv
  BY EmptyFunction DEF Init
<1>2. IInv /\ [Next]_vars => IInv'
  <2> SUFFICES ASSUME IInv, [Next]_vars PROVE IInv'
    OBVIOUS
  <2>1. CASE BuildFunction
    BY <2>1 DEF BuildFunction, IInv, TypeOK, IsLiveRangesMap, EndInv, FlagInv, VirtRegsOf
  <2>2. ASSUME NEW reg \in VirtRegs \cup PhysRegs, UpdateRegLiveRanges(reg)
        PROVE  IInv'
    BY <2>2, UpdateKeeps
  <2>3. CASE CreateInst \/ CreateCALLInst
    BY <2>3, CreateKeeps
  <2>4. CASE UNCHANGED vars
    BY <2>4 DEF vars, IInv, TypeOK, IsLiveRangesMap, EndInv, FlagInv, VirtRegsOf,
       LastRange, LiveAt
  <2> QED
    BY <2>1, <2>2, <2>3, <2>4 DEF Next
<1> QED
  BY <1>1, <1>2, PTL DEF Spec

-------------------------------------------------------------------------------

\* Flags that are exact come from calls.
LEMMA ExactFlagsComeFromCalls == IInv => RangesAreWellFormed
<1> SUFFICES ASSUME IInv PROVE RangesAreWellFormed
  OBVIOUS
<1> DEFINE m == RegLiveRangesMap
<1>1. ASSUME NEW v \in VirtRegsOf(m)
      PROVE  /\ VirtInterval(m, v).UsedAcrossCall = LastRange(v).UsedAcrossCall
             /\ \A k : LiveAt(VirtInterval(m, v), k) <=> LiveAt(LastRange(v), k)
             /\ VirtInterval(m, v).StartPoint \in Nat
             /\ VirtInterval(m, v).EndPoint \in Nat
  <2> DEFINE s == RegLiveRangesMap[v]
  <2>1. s \in Seq(LiveRange) /\ s # << >>
    BY <1>1 DEF IInv, TypeOK, IsLiveRangesMap, VirtRegsOf
  <2>2. s[Len(s)] \in LiveRange
    BY <2>1
  <2>3. VirtInterval(m, v) = IntervalOf(v, s[Len(s)])
    BY DEF VirtInterval
  <2>4. LastRange(v) = s[Len(s)]
    BY DEF LastRange
  <2> HIDE DEF s
  <2> QED
    BY <2>2, <2>3, <2>4 DEF IntervalOf, LiveAt, LiveRange
<1>2. ASSUME NEW v \in VirtRegsOf(m), VirtInterval(m, v).UsedAcrossCall
      PROVE  \E k \in VirtInterval(m, v).StartPoint .. VirtInterval(m, v).EndPoint - 1 :
                 \A w \in VirtRegsOf(m) :
                     LiveAt(VirtInterval(m, w), k) => VirtInterval(m, w).UsedAcrossCall
  <2>1. PICK k \in CurrentCallInstIndexes : LiveAt(LastRange(v), k)
    BY <1>1, <1>2 DEF IInv, FlagInv
  <2>2. k \in Int /\ LiveAt(VirtInterval(m, v), k)
    BY <1>1, <2>1 DEF IInv, TypeOK
  <2>3. k \in VirtInterval(m, v).StartPoint .. VirtInterval(m, v).EndPoint - 1
    BY <1>1, <2>2 DEF LiveAt
  <2>4. ASSUME NEW w \in VirtRegsOf(m), LiveAt(VirtInterval(m, w), k)
        PROVE  VirtInterval(m, w).UsedAcrossCall
    BY <1>1, <2>4 DEF IInv, FlagInv
  <2> QED
    BY <2>3, <2>4
<1>3. FlagsComeFromCalls(m)
  BY <1>2 DEF FlagsComeFromCalls
<1> QED
  BY <1>3 DEF RangesAreWellFormed, WellFormed, IInv, TypeOK

\* The builder's variables keep their types.
THEOREM TypeCorrect == Spec => []TypeOK
<1>1. IInv => TypeOK
  BY DEF IInv
<1> QED
  BY <1>1, Inductive, PTL

\* What the builder hands to the register allocator is what the allocator
\* relies on.
THEOREM RangesMeetTheAssumption == Spec => []RangesAreWellFormed
BY ExactFlagsComeFromCalls, Inductive, PTL

-------------------------------------------------------------------------------
(***************************************************************************)
(* The ranges are exact: they cover every use, begin and end at uses, and  *)
(* are flagged exactly when a call lies between.                           *)
(***************************************************************************)

\* A virtual register has one range.
OneRangeInv == \A v \in VirtRegsOf(RegLiveRangesMap) : Len(RegLiveRangesMap[v]) = 1

\* The noted indexes are those after the calls.
NotedInv ==
    \A k \in 1 .. Len(InstList) : k \in CurrentCallInstIndexes <=> InstList[k].isCall

\* The instructions of list, with one that names ops when it is not empty.
CodeOf(list, ops) ==
    IF ops = << >> THEN list ELSE Append(list, [operands |-> ops, isCall |-> FALSE])

LEMMA CodeFacts ==
    ASSUME NEW list \in Seq(Instruction), NEW ops \in Seq(VirtRegs \cup PhysRegs)
    PROVE  /\ Len(list) \in Nat
           /\ 0 .. Len(CodeOf(list, ops)) - 1 =
                  IF ops = << >> THEN 0 .. Len(list) - 1 ELSE 0 .. Len(list)
           /\ \A k \in 0 .. Len(list) - 1 : CodeOf(list, ops)[k + 1] = list[k + 1]
           /\ ops # << >> => /\ CodeOf(list, ops)[Len(list) + 1].operands = ops
                             /\ ~ CodeOf(list, ops)[Len(list) + 1].isCall
<1>1. Len(list) \in Nat
  OBVIOUS
<1>2. CASE ops = << >>
  BY <1>1, <1>2 DEF CodeOf
<1>3. CASE ops # << >>
  <2> DEFINE inst == [operands |-> ops, isCall |-> FALSE]
  <2>1. CodeOf(list, ops) = Append(list, inst)
    BY <1>3 DEF CodeOf
  <2>2. inst.operands = ops /\ ~ inst.isCall
    OBVIOUS
  <2> HIDE DEF inst
  <2>3. /\ Len(CodeOf(list, ops)) = Len(list) + 1
        /\ CodeOf(list, ops)[Len(list) + 1] = inst
        /\ \A k \in 0 .. Len(list) - 1 : CodeOf(list, ops)[k + 1] = list[k + 1]
    BY <1>1, <2>1
  <2> QED
    BY <1>1, <1>3, <2>2, <2>3
<1> QED
  BY <1>2, <1>3

\* Instruction k of code names reg.
NamedIn(code, k, reg) ==
    \E n \in 1 .. Len(code[k + 1].operands) : code[k + 1].operands[n] = reg

\* The two properties, of any code and any ranges.
Covered(code, m) ==
    \A k \in 0 .. Len(code) - 1, reg \in VirtRegs \cup PhysRegs :
        NamedIn(code, k, reg) =>
            /\ reg \in DOMAIN m
            /\ \E n \in 1 .. Len(m[reg]) : LiveAt(m[reg][n], k)

TightRange(code, reg, range) ==
    /\ NamedIn(code, range.StartPoint, reg) /\ NamedIn(code, range.EndPoint - 1, reg)
    /\ reg \in PhysRegs =>
           \A k \in range.StartPoint .. range.EndPoint - 1 : NamedIn(code, k, reg)

Tight(code, m) ==
    \A reg \in DOMAIN m : \A n \in 1 .. Len(m[reg]) : TightRange(code, reg, m[reg][n])

ExactInv ==
    /\ IInv
    /\ OneRangeInv
    /\ NotedInv
    /\ Covered(Code, RegLiveRangesMap)
    /\ Tight(Code, RegLiveRangesMap)

\* An update makes the instruction that is being built name reg, and changes
\* nothing else.
LEMMA UpdateNames ==
    ASSUME TypeOK, NEW reg \in VirtRegs \cup PhysRegs, UpdateRegLiveRanges(reg), TypeOK'
    PROVE  /\ 0 .. Len(Code') - 1 = 0 .. Len(InstList)
           /\ \A r : \A k \in 0 .. Len(Code) - 1 : NamedIn(Code, k, r) => NamedIn(Code', k, r)
           /\ NamedIn(Code', Len(InstList), reg)
           /\ \A r : \A k \in 0 .. Len(Code') - 1 :
                  NamedIn(Code', k, r) => \/ k \in 0 .. Len(Code) - 1 /\ NamedIn(Code, k, r)
                                          \/ k = Len(InstList) /\ r = reg
<1> DEFINE last == Len(InstList)
<1>1. /\ operands' = Append(operands, reg)
      /\ InstList' = InstList
      /\ operands \in Seq(VirtRegs \cup PhysRegs)
      /\ InstList \in Seq(Instruction)
      /\ last \in Nat
  BY DEF UpdateRegLiveRanges, TypeOK
<1>2. /\ operands' # << >>
      /\ operands' \in Seq(VirtRegs \cup PhysRegs)
      /\ \A r : (\E n \in 1 .. Len(operands') : operands'[n] = r) <=>
                r = reg \/ \E n \in 1 .. Len(operands) : operands[n] = r
      /\ operands = << >> => Len(operands) = 0
  BY <1>1
<1>3. /\ 0 .. Len(Code) - 1 = IF operands = << >> THEN 0 .. last - 1 ELSE 0 .. last
      /\ \A k \in 0 .. last - 1 : Code[k + 1] = InstList[k + 1]
      /\ operands # << >> => Code[last + 1].operands = operands
  <2>1. Code = CodeOf(InstList, operands)
    BY DEF Code, CodeOf
  <2> QED
    BY <1>1, <2>1, CodeFacts
<1>4. /\ 0 .. Len(Code') - 1 = 0 .. last
      /\ \A k \in 0 .. last - 1 : Code'[k + 1] = InstList[k + 1]
      /\ Code'[last + 1].operands = operands'
  <2> DEFINE ops == operands'
  <2>1. Code' = CodeOf(InstList, ops)
    BY <1>1 DEF Code, CodeOf
  <2>2. ops \in Seq(VirtRegs \cup PhysRegs) /\ ops # << >>
    BY <1>2
  <2> HIDE DEF ops
  <2>3. /\ 0 .. Len(CodeOf(InstList, ops)) - 1 = 0 .. last
        /\ \A k \in 0 .. last - 1 : CodeOf(InstList, ops)[k + 1] = InstList[k + 1]
        /\ CodeOf(InstList, ops)[last + 1].operands = ops
    BY <1>1, <2>2, CodeFacts
  <2> QED
    BY <2>1, <2>3 DEF ops
<1>5. \A r : \A k \in 0 .. last - 1 : NamedIn(Code', k, r) <=> NamedIn(Code, k, r)
  BY <1>3, <1>4 DEF NamedIn
<1>6. \A r : NamedIn(Code', last, r) <=>
             r = reg \/ \E n \in 1 .. Len(operands) : operands[n] = r
  BY <1>2, <1>4 DEF NamedIn
<1>7. operands # << >> =>
          \A r : NamedIn(Code, last, r) <=> \E n \in 1 .. Len(operands) : operands[n] = r
  BY <1>3 DEF NamedIn
<1> HIDE DEF last
<1>8. ASSUME NEW k \in 0 .. Len(Code) - 1, NEW r, NamedIn(Code, k, r)
      PROVE  NamedIn(Code', k, r)
  BY <1>1, <1>3, <1>5, <1>6, <1>7, <1>8
<1>9. ASSUME NEW k \in 0 .. Len(Code') - 1, NEW r, NamedIn(Code', k, r)
      PROVE  \/ k \in 0 .. Len(Code) - 1 /\ NamedIn(Code, k, r)
             \/ k = last /\ r = reg
  <2>1. CASE k \in 0 .. last - 1
    BY <1>1, <1>3, <1>5, <1>9, <2>1
  <2>2. CASE k = last
    BY <1>1, <1>2, <1>3, <1>6, <1>7, <1>9, <2>2
  <2> QED
    BY <1>1, <1>4, <2>1, <2>2
<1> QED
  BY <1>4, <1>6, <1>8, <1>9 DEF last

\* Appending the instruction changes no name: the one that was being built is
\* now in the list, or one without registers is new.
LEMMA CreateNames ==
    ASSUME TypeOK, CreateInst \/ CreateCALLInst
    PROVE  /\ 0 .. Len(Code) - 1 \subseteq 0 .. Len(Code') - 1
           /\ \A r : \A k \in 0 .. Len(Code) - 1 : NamedIn(Code', k, r) <=> NamedIn(Code, k, r)
           /\ \A r : \A k \in 0 .. Len(Code') - 1 :
                  NamedIn(Code', k, r) => k \in 0 .. Len(Code) - 1
<1> DEFINE last == Len(InstList)
<1>1. PICK inst \in Instruction : InstList' = Append(InstList, inst) /\ inst.operands = operands
  <2>1. ASSUME NEW b \in BOOLEAN
        PROVE  /\ [operands |-> operands, isCall |-> b] \in Instruction
               /\ [operands |-> operands, isCall |-> b].operands = operands
    BY DEF TypeOK, Instruction
  <2> QED
    BY <2>1 DEF CreateInst, CreateCALLInst
<1>2. /\ Len(InstList') = last + 1
      /\ InstList'[last + 1] = inst
      /\ \A k \in 0 .. last - 1 : InstList'[k + 1] = InstList[k + 1]
      /\ last \in Nat
  BY <1>1 DEF TypeOK
<1>3. /\ 0 .. Len(Code) - 1 = IF operands = << >> THEN 0 .. last - 1 ELSE 0 .. last
      /\ \A k \in 0 .. last - 1 : Code[k + 1] = InstList[k + 1]
      /\ operands # << >> => Code[last + 1].operands = operands
  <2>1. Code = CodeOf(InstList, operands)
    BY DEF Code, CodeOf
  <2> QED
    BY <2>1, CodeFacts DEF TypeOK
<1>4. Code' = InstList'
  BY DEF CreateInst, CreateCALLInst, Code
<1>5. /\ 0 .. Len(Code') - 1 = 0 .. last
      /\ \A k \in 0 .. last - 1 : Code'[k + 1] = InstList[k + 1]
      /\ Code'[last + 1].operands = operands
  BY <1>1, <1>2, <1>4
<1>6. \A r : \A k \in 0 .. last - 1 : NamedIn(Code', k, r) <=> NamedIn(Code, k, r)
  BY <1>3, <1>5 DEF NamedIn
<1>7. \A r : NamedIn(Code', last, r) <=> \E n \in 1 .. Len(operands) : operands[n] = r
  BY <1>5 DEF NamedIn
<1>8. operands # << >> =>
          \A r : NamedIn(Code, last, r) <=> \E n \in 1 .. Len(operands) : operands[n] = r
  BY <1>3 DEF NamedIn
<1>9. operands = << >> => \A r : ~ NamedIn(Code', last, r)
  BY <1>7
<1> HIDE DEF last
<1> QED
  BY <1>2, <1>3, <1>5, <1>6, <1>7, <1>8, <1>9

\* What updateRegLiveRanges makes of the ranges of a register: the earlier ones
\* stay, and the last one ends with the instruction that is being built and
\* starts with it, or where the last one did.
Extends(new, old, reg) ==
    /\ Len(old) <= Len(new) /\ new # << >>
    /\ \A n \in 1 .. Len(new) : n # Len(new) => n \in 1 .. Len(old) /\ new[n] = old[n]
    /\ new[Len(new)].EndPoint = Len(InstList) + 1
    /\ \/ Len(new) = Len(old) + 1 /\ new[Len(new)].StartPoint = Len(InstList)
       \/ /\ Len(new) = Len(old)
          /\ new[Len(new)].StartPoint = old[Len(old)].StartPoint
          /\ reg \in PhysRegs => old[Len(old)].EndPoint >= Len(InstList)
    /\ reg \in VirtRegs /\ old # << >> => Len(new) = Len(old)

LEMMA UpdateExtends ==
    ASSUME IInv, NEW reg \in VirtRegs \cup PhysRegs, UpdateRegLiveRanges(reg)
    PROVE  /\ RangesInv(RangesOf(reg))
           /\ Extends(RegLiveRangesMap'[reg], RangesOf(reg), reg)
<1> DEFINE old == RangesOf(reg)
           last == Len(InstList)
<1>1. RegLiveRangesMap'[reg] =
          IF reg \in VirtRegs THEN UpdateVirtReg(old) ELSE UpdatePhysReg(old)
  BY DEF UpdateRegLiveRanges
<1>2. RangesInv(old)
  <2>1. CASE reg \in DOMAIN RegLiveRangesMap
    BY <2>1 DEF IInv, EndInv, TypeOK, IsLiveRangesMap, RangesOf, RangesInv
  <2>2. CASE reg \notin DOMAIN RegLiveRangesMap
    BY <2>2 DEF RangesOf, RangesInv
  <2> QED
    BY <2>1, <2>2
<1>3. /\ TypeOK
      /\ last \in Nat
      /\ old \in Seq(LiveRange)
      /\ Len(old) \in Nat
  BY <1>2 DEF IInv, TypeOK, RangesInv
<1>4. /\ ThisInstruction \in LiveRange
      /\ ThisInstruction.StartPoint = last
      /\ ThisInstruction.EndPoint = last + 1
  BY <1>3, ThisInstructionFacts
<1> HIDE DEF old
<1>5. ASSUME reg \in VirtRegs => old = << >>
      PROVE  Extends(NewRange(old), old, reg)
  <2> DEFINE new == WithFlag(ThisInstruction)
  <2>1. /\ NewRange(old) = Append(old, new)
        /\ new.StartPoint = last
        /\ new.EndPoint = last + 1
    BY <1>4, WithFlagFacts DEF NewRange
  <2> HIDE DEF new
  <2> QED
    BY <1>3, <1>5, <2>1 DEF Extends
<1>6. ASSUME old # << >>,
             reg \in PhysRegs => old[Len(old)].EndPoint >= last
      PROVE  Extends(ExtendLast(old), old, reg)
  <2> DEFINE longer == [old[Len(old)] EXCEPT !.EndPoint = ThisInstruction.EndPoint]
             new == WithFlag(longer)
  <2>1. old[Len(old)] \in LiveRange /\ Len(old) \in 1 .. Len(old)
    BY <1>3, <1>6
  <2>2. /\ longer \in LiveRange
        /\ longer.StartPoint = old[Len(old)].StartPoint
        /\ longer.EndPoint = last + 1
    BY <1>3, <1>4, <2>1 DEF LiveRange
  <2>3. /\ new.StartPoint = old[Len(old)].StartPoint
        /\ new.EndPoint = last + 1
    BY <2>2, WithFlagFacts
  <2>4. ExtendLast(old) = [old EXCEPT ![Len(old)] = new]
    BY DEF ExtendLast
  <2> HIDE DEF longer, new
  <2> QED
    BY <1>3, <1>6, <2>1, <2>3, <2>4 DEF Extends
<1>7. CASE reg \in VirtRegs
  BY <1>1, <1>2, <1>5, <1>6, <1>7, RegisterAssumption DEF UpdateVirtReg, old
<1>8. CASE reg \notin VirtRegs
  <2>1. ASSUME old # << >> PROVE old[Len(old)].EndPoint \in Nat
    <3>1. old[Len(old)] \in LiveRange
      BY <1>3, <2>1
    <3> QED
      BY <3>1 DEF LiveRange
  <2> QED
    BY <1>1, <1>2, <1>3, <1>4, <1>5, <1>6, <1>8, <2>1 DEF UpdatePhysReg, old
<1> QED
  BY <1>7, <1>8

\* A tight range stays tight when no instruction loses a name.
LEMMA TightRangeKept ==
    ASSUME NEW code, NEW more, NEW reg, NEW range,
           range.StartPoint \in Nat, range.EndPoint \in Nat,
           range.StartPoint < range.EndPoint, range.EndPoint <= Len(code),
           Len(code) \in Nat, TightRange(code, reg, range),
           \A k \in 0 .. Len(code) - 1 : NamedIn(code, k, reg) => NamedIn(more, k, reg)
    PROVE  TightRange(more, reg, range)
<1>1. /\ range.StartPoint \in 0 .. Len(code) - 1
      /\ range.EndPoint - 1 \in 0 .. Len(code) - 1
      /\ range.StartPoint .. range.EndPoint - 1 \subseteq 0 .. Len(code) - 1
  OBVIOUS
<1> QED
  BY <1>1 DEF TightRange

\* What the invariant says of each range.
LEMMA RangeTypes ==
    ASSUME IInv, NEW r \in DOMAIN RegLiveRangesMap, NEW n \in 1 .. Len(RegLiveRangesMap[r])
    PROVE  /\ RegLiveRangesMap[r][n].StartPoint \in Nat
           /\ RegLiveRangesMap[r][n].EndPoint \in Nat
           /\ RegLiveRangesMap[r][n].StartPoint < RegLiveRangesMap[r][n].EndPoint
           /\ RegLiveRangesMap[r][n].EndPoint <= Len(Code)
           /\ Len(Code) \in Nat
<1>1. /\ RegLiveRangesMap[r] \in Seq(LiveRange)
      /\ RegLiveRangesMap[r][n].StartPoint < RegLiveRangesMap[r][n].EndPoint
  BY DEF IInv, TypeOK, IsLiveRangesMap
<1>2. RegLiveRangesMap[r][n].StartPoint \in Nat /\ RegLiveRangesMap[r][n].EndPoint \in Nat
  <2>1. RegLiveRangesMap[r][n] \in LiveRange
    BY <1>1
  <2> QED
    BY <2>1 DEF LiveRange
<1>3. Len(Code) = (IF operands = << >> THEN Len(InstList) ELSE Len(InstList) + 1)
      /\ Len(InstList) \in Nat
  BY DEF IInv, TypeOK, Code
<1> QED
  BY <1>1, <1>2, <1>3 DEF IInv, EndInv

\* An update keeps the ranges exact.
LEMMA UpdateKeepsExact ==
    ASSUME ExactInv, NEW reg \in VirtRegs \cup PhysRegs, UpdateRegLiveRanges(reg)
    PROVE  ExactInv'
<1> DEFINE m == RegLiveRangesMap
           last == Len(InstList)
           old == RangesOf(reg)
           new == m'[reg]
<1>1. IInv /\ IInv' /\ TypeOK /\ TypeOK'
  BY UpdateKeeps DEF ExactInv, IInv
<1>2. /\ DOMAIN m' = DOMAIN m \cup {reg}
      /\ \A r \in DOMAIN m : r # reg => m'[r] = m[r]
      /\ InstList' = InstList
      /\ CurrentCallInstIndexes' = CurrentCallInstIndexes
  BY DEF UpdateRegLiveRanges
<1>3. RangesInv(old) /\ Extends(new, old, reg)
  BY <1>1, UpdateExtends
<1>4. /\ reg \in DOMAIN m => old = m[reg]
      /\ reg \notin DOMAIN m => old = << >>
  BY DEF RangesOf
<1>5. /\ 0 .. Len(Code') - 1 = 0 .. last
      /\ \A r : \A k \in 0 .. Len(Code) - 1 : NamedIn(Code, k, r) => NamedIn(Code', k, r)
      /\ NamedIn(Code', last, reg)
      /\ \A r : \A k \in 0 .. Len(Code') - 1 :
             NamedIn(Code', k, r) => \/ k \in 0 .. Len(Code) - 1 /\ NamedIn(Code, k, r)
                                     \/ k = last /\ r = reg
  BY <1>1, UpdateNames
<1>6. /\ last \in Nat
      /\ Len(old) \in Nat /\ Len(new) \in Nat
      /\ \A n \in 1 .. Len(old) : old[n].StartPoint \in Nat /\ old[n].EndPoint \in Nat
  <2>1. old \in Seq(LiveRange) /\ last \in Nat
    BY <1>1, <1>3 DEF RangesInv, TypeOK
  <2>2. new \in Seq(LiveRange)
    BY <1>1, <1>2 DEF TypeOK, IsLiveRangesMap
  <2>3. \A n \in 1 .. Len(old) : old[n] \in LiveRange
    BY <2>1
  <2> HIDE DEF old, new
  <2> QED
    BY <2>1, <2>2, <2>3 DEF LiveRange
<1>7. OneRangeInv'
  <2>1. ASSUME NEW v \in VirtRegsOf(m)'
        PROVE  Len(m'[v]) = 1
    <3>1. CASE v # reg
      BY <1>2, <2>1, <3>1 DEF ExactInv, OneRangeInv, VirtRegsOf
    <3>2. CASE v = reg /\ reg \in DOMAIN m
      <4>1. Len(old) = 1 /\ old # << >>
        BY <1>4, <2>1, <3>2 DEF ExactInv, OneRangeInv, VirtRegsOf
      <4> QED
        BY <1>3, <2>1, <3>2, <4>1 DEF Extends, VirtRegsOf
    <3>3. CASE v = reg /\ reg \notin DOMAIN m
      <4>1. Len(old) = 0
        BY <1>4, <3>3
      <4>2. Len(new) = 1 \/ Len(new) = 0
        BY <1>3, <4>1 DEF Extends
      <4>3. new # << >> /\ new \in Seq(LiveRange)
        BY <1>1, <1>2 DEF TypeOK, IsLiveRangesMap
      <4> QED
        BY <3>3, <4>2, <4>3
    <3> QED
      BY <3>1, <3>2, <3>3
  <2> QED
    BY <2>1 DEF OneRangeInv
<1>8. NotedInv'
  BY <1>2 DEF ExactInv, NotedInv
<1>9. Covered(Code', m')
  <2> SUFFICES ASSUME NEW k \in 0 .. Len(Code') - 1, NEW r \in VirtRegs \cup PhysRegs,
                      NamedIn(Code', k, r)
               PROVE  r \in DOMAIN m' /\ \E n \in 1 .. Len(m'[r]) : LiveAt(m'[r][n], k)
    BY DEF Covered
  <2>1. CASE k = last /\ r = reg
    <3>1. /\ Len(new) \in 1 .. Len(new)
          /\ new[Len(new)].EndPoint = last + 1
          /\ new[Len(new)].StartPoint <= last
      <4>1. new # << >> /\ new \in Seq(LiveRange)
        BY <1>1, <1>2 DEF TypeOK, IsLiveRangesMap
      <4>2. Len(new) \in 1 .. Len(new)
        BY <4>1
      <4>3. new[Len(new)].StartPoint < new[Len(new)].EndPoint
            /\ new[Len(new)] \in LiveRange
        BY <1>1, <1>2, <4>1, <4>2 DEF TypeOK, IsLiveRangesMap
      <4> HIDE DEF new
      <4> QED
        BY <1>3, <1>6, <4>2, <4>3 DEF Extends, LiveRange
    <3> QED
      BY <1>2, <1>6, <2>1, <3>1 DEF LiveAt
  <2>2. CASE k \in 0 .. Len(Code) - 1 /\ NamedIn(Code, k, r)
    <3>1. r \in DOMAIN m /\ \E n \in 1 .. Len(m[r]) : LiveAt(m[r][n], k)
      BY <2>2 DEF ExactInv, Covered
    <3>2. CASE r # reg
      BY <1>2, <3>1, <3>2
    <3>3. CASE r = reg
      <4>1. PICK n \in 1 .. Len(old) : LiveAt(old[n], k)
        BY <1>4, <3>1, <3>3
      <4>2. /\ n \in 1 .. Len(new)
            /\ \/ new[n] = old[n]
               \/ new[n].StartPoint = old[n].StartPoint /\ new[n].EndPoint = last + 1
        BY <1>3, <1>6, <4>1 DEF Extends
      <4>3. old[n].EndPoint <= last + 1
        BY <1>3, <4>1 DEF RangesInv
      <4>4. k \in Int
        OBVIOUS
      <4>5. LiveAt(new[n], k)
        BY <1>6, <4>1, <4>2, <4>3, <4>4 DEF LiveAt
      <4> QED
        BY <1>2, <3>3, <4>2, <4>5
    <3> QED
      BY <3>2, <3>3
  <2> QED
    BY <1>5, <2>1, <2>2
<1>10. Tight(Code', m')
  <2> SUFFICES ASSUME NEW r \in DOMAIN m', NEW n \in 1 .. Len(m'[r])
               PROVE  TightRange(Code', r, m'[r][n])
    BY DEF Tight
  <2>1. ASSUME r \in DOMAIN m, n \in 1 .. Len(m[r])
        PROVE  TightRange(Code', r, m[r][n])
    <3>1. TightRange(Code, r, m[r][n])
      BY <2>1 DEF ExactInv, Tight
    <3> QED
      BY <1>1, <1>5, <2>1, <3>1, RangeTypes, TightRangeKept
  <2>2. CASE r # reg
    BY <1>2, <2>1, <2>2
  <2>3. CASE r = reg /\ n # Len(new)
    BY <1>2, <1>3, <1>4, <1>6, <2>1, <2>3 DEF Extends
  <2>4. CASE r = reg /\ n = Len(new)
    <3>1. CASE Len(new) = Len(old) + 1 /\ new[Len(new)].StartPoint = last
      <4>1. new[n].StartPoint = last /\ new[n].EndPoint - 1 = last
        BY <1>3, <1>6, <2>4, <3>1 DEF Extends
      <4>2. \A k \in last .. last : k = last
        BY <1>6
      <4> HIDE DEF new, last
      <4> QED
        BY <1>5, <2>4, <4>1, <4>2 DEF TightRange, new
    <3>2. CASE /\ Len(new) = Len(old)
               /\ new[Len(new)].StartPoint = old[Len(old)].StartPoint
               /\ reg \in PhysRegs => old[Len(old)].EndPoint >= last
      <4>1. n \in 1 .. Len(old) /\ reg \in DOMAIN m
        BY <1>4, <1>6, <2>4, <3>2
      <4>2. /\ TightRange(Code', reg, old[n])
            /\ new[n].StartPoint = old[n].StartPoint
            /\ new[n].EndPoint - 1 = last
            /\ reg \in PhysRegs => old[n].EndPoint >= last
        BY <1>3, <1>4, <1>6, <2>1, <2>4, <3>2, <4>1 DEF Extends
      <4>3. ASSUME reg \in PhysRegs, NEW k \in new[n].StartPoint .. last
            PROVE  NamedIn(Code', k, reg)
        <5>1. old[n].StartPoint \in Nat /\ old[n].EndPoint \in Nat
          BY <1>6, <4>1
        <5>2. k = last \/ k \in old[n].StartPoint .. old[n].EndPoint - 1
          BY <1>6, <4>2, <4>3, <5>1
        <5> QED
          BY <1>5, <4>2, <4>3, <5>2 DEF TightRange
      <4>4. NamedIn(Code', new[n].StartPoint, reg) /\ NamedIn(Code', new[n].EndPoint - 1, reg)
        BY <1>5, <4>2 DEF TightRange
      <4> QED
        BY <2>4, <4>2, <4>3, <4>4 DEF TightRange
    <3> QED
      BY <1>3, <3>1, <3>2 DEF Extends
  <2> QED
    BY <2>2, <2>3, <2>4
<1> QED
  BY <1>1, <1>7, <1>8, <1>9, <1>10 DEF ExactInv

\* Appending an instruction keeps them exact.
LEMMA CreateKeepsExact ==
    ASSUME ExactInv, CreateInst \/ CreateCALLInst
    PROVE  ExactInv'
<1>1. IInv /\ IInv' /\ TypeOK /\ TypeOK'
  BY CreateKeeps DEF ExactInv, IInv
<1>2. RegLiveRangesMap' = RegLiveRangesMap
  BY DEF CreateInst, CreateCALLInst
<1>3. /\ 0 .. Len(Code) - 1 \subseteq 0 .. Len(Code') - 1
      /\ \A r : \A k \in 0 .. Len(Code) - 1 : NamedIn(Code', k, r) <=> NamedIn(Code, k, r)
      /\ \A r : \A k \in 0 .. Len(Code') - 1 :
             NamedIn(Code', k, r) => k \in 0 .. Len(Code) - 1
  BY <1>1, CreateNames
<1>4. OneRangeInv'
  BY <1>2 DEF ExactInv, OneRangeInv, VirtRegsOf
<1>5. NotedInv'
  <2> DEFINE next == Len(InstList) + 1
  <2>1. /\ Len(InstList) \in Nat
        /\ \A k \in CurrentCallInstIndexes : k \in 1 .. Len(InstList)
    BY <1>1 DEF TypeOK
  <2>2. /\ Len(InstList') = next
        /\ \A k \in 1 .. Len(InstList) : InstList'[k] = InstList[k]
        /\ \/ /\ ~ InstList'[next].isCall
              /\ CurrentCallInstIndexes' = CurrentCallInstIndexes
           \/ /\ InstList'[next].isCall
              /\ CurrentCallInstIndexes' = CurrentCallInstIndexes \cup {Len(InstList')}
    <3>1. ASSUME NEW b \in BOOLEAN,
                 InstList' = Append(InstList, [operands |-> operands, isCall |-> b])
          PROVE  /\ Len(InstList') = next
                 /\ \A k \in 1 .. Len(InstList) : InstList'[k] = InstList[k]
                 /\ InstList'[next].isCall = b
      <4> DEFINE inst == [operands |-> operands, isCall |-> b]
      <4>1. inst.isCall = b /\ InstList' = Append(InstList, inst)
        BY <3>1
      <4> HIDE DEF inst
      <4>2. /\ Len(InstList') = next /\ InstList'[next] = inst
            /\ \A k \in 1 .. Len(InstList) : InstList'[k] = InstList[k]
        BY <1>1, <4>1 DEF TypeOK
      <4> QED
        BY <4>1, <4>2
    <3>2. CASE CreateInst
      BY <3>1, <3>2 DEF CreateInst
    <3>3. CASE CreateCALLInst
      BY <3>1, <3>3 DEF CreateCALLInst
    <3> QED
      BY <3>2, <3>3
  <2> QED
    BY <2>1, <2>2 DEF ExactInv, NotedInv
<1>6. Covered(Code', RegLiveRangesMap)
  BY <1>3 DEF ExactInv, Covered
<1>7. Tight(Code', RegLiveRangesMap)
  <2> SUFFICES ASSUME NEW r \in DOMAIN RegLiveRangesMap,
                      NEW n \in 1 .. Len(RegLiveRangesMap[r])
               PROVE  TightRange(Code', r, RegLiveRangesMap[r][n])
    BY DEF Tight
  <2>1. TightRange(Code, r, RegLiveRangesMap[r][n])
    BY DEF ExactInv, Tight
  <2> QED
    BY <1>1, <1>3, <2>1, RangeTypes, TightRangeKept
<1> QED
  BY <1>1, <1>2, <1>4, <1>5, <1>6, <1>7 DEF ExactInv

LEMMA EmptyIsExact ==
    ASSUME InstList = << >>, CurrentCallInstIndexes = {}, RegLiveRangesMap = << >>,
           operands = << >>
    PROVE  ExactInv
<1>1. Len(Code) = 0 /\ DOMAIN RegLiveRangesMap = {}
  BY DEF Code
<1> QED
  BY <1>1, EmptyFunction DEF ExactInv, OneRangeInv, VirtRegsOf, NotedInv, Covered, Tight

LEMMA InductiveExact == Spec => []ExactInv
<1>1. Init => ExactInv
  BY EmptyIsExact DEF Init
<1>2. ExactInv /\ [Next]_vars => ExactInv'
  <2> SUFFICES ASSUME ExactInv, [Next]_vars PROVE ExactInv'
    OBVIOUS
  <2>1. CASE BuildFunction
    <3>1. /\ InstList' = << >> /\ CurrentCallInstIndexes' = {}
          /\ RegLiveRangesMap' = << >> /\ operands' = << >>
      BY <2>1 DEF BuildFunction
    <3>2. Len(Code') = 0 /\ DOMAIN RegLiveRangesMap' = {}
      BY <3>1 DEF Code
    <3>3. IInv'
      BY <3>1 DEF IInv, TypeOK, IsLiveRangesMap, EndInv, FlagInv, VirtRegsOf
    <3> QED
      BY <3>1, <3>2, <3>3 DEF ExactInv, OneRangeInv, VirtRegsOf, NotedInv, Covered, Tight
  <2>2. ASSUME NEW reg \in VirtRegs \cup PhysRegs, UpdateRegLiveRanges(reg)
        PROVE  ExactInv'
    BY <2>2, UpdateKeepsExact
  <2>3. CASE CreateInst \/ CreateCALLInst
    BY <2>3, CreateKeepsExact
  <2>4. CASE UNCHANGED vars
    BY <2>4 DEF vars, ExactInv, IInv, TypeOK, IsLiveRangesMap, EndInv, FlagInv, VirtRegsOf,
       LastRange, LiveAt, OneRangeInv, NotedInv, Code
  <2> QED
    BY <2>1, <2>2, <2>3, <2>4 DEF Next
<1> QED
  BY <1>1, <1>2, PTL DEF Spec

\* The allocator, which never looks at the instructions, learns of every use.
THEOREM EveryUseIsLive == Spec => []UsesAreLive
<1>1. ExactInv => UsesAreLive
  BY DEF ExactInv, Covered, NamedIn, UsesAreLive, Names, Indexes
<1> QED
  BY <1>1, InductiveExact, PTL

\* No register is held longer than its uses justify.
THEOREM RangesEndAtUses == Spec => []RangesAreTight
<1>1. ExactInv => RangesAreTight
  BY DEF ExactInv, Tight, TightRange, NamedIn, RangesAreTight, Names
<1> QED
  BY <1>1, InductiveExact, PTL

\* createCALLInst notes the index after the call, and the flags that
\* updateRegLiveRanges derives from it are those of the calls.
THEOREM FlagsAreThoseOfCalls == Spec => []CallsAreNoticed
<1>1. ExactInv => CallsAreNoticed
  <2> SUFFICES ASSUME ExactInv, NEW v \in VirtRegsOf(RegLiveRangesMap)
               PROVE  VirtInterval(RegLiveRangesMap, v).UsedAcrossCall <=>
                          \E c \in Indexes :
                              /\ Code[c + 1].isCall
                              /\ \E k \in 0 .. c + 1 : k \in Indexes /\ Names(k, v)
                              /\ \E k \in c + 1 .. Len(Code) - 1 : Names(k, v)
    BY DEF CallsAreNoticed
  <2> DEFINE s == RegLiveRangesMap[v]
             range == s[1]
             last == Len(InstList)
  <2>1. IInv /\ TypeOK /\ v \in DOMAIN RegLiveRangesMap /\ v \in VirtRegs
    BY DEF ExactInv, IInv, VirtRegsOf
  <2>2. Len(s) = 1
    BY DEF ExactInv, OneRangeInv
  <2>3. /\ range.StartPoint \in Nat /\ range.EndPoint \in Nat
        /\ range.StartPoint < range.EndPoint /\ range.EndPoint <= Len(Code)
        /\ Len(Code) \in Nat
    <3>1. 1 \in 1 .. Len(RegLiveRangesMap[v])
      BY <2>2
    <3> QED
      BY <2>1, <3>1, RangeTypes
  <2>4. VirtInterval(RegLiveRangesMap, v).UsedAcrossCall = range.UsedAcrossCall
    BY <2>2 DEF VirtInterval, IntervalOf
  <2>5. range.UsedAcrossCall <=> \E k \in CurrentCallInstIndexes : LiveAt(range, k)
    BY <2>1, <2>2 DEF IInv, FlagInv, LastRange
  <2>6. \A k \in 0 .. Len(Code) - 1 : NamedIn(Code, k, v) => LiveAt(range, k)
    BY <2>1, <2>2 DEF ExactInv, Covered
  <2>7. NamedIn(Code, range.StartPoint, v) /\ NamedIn(Code, range.EndPoint - 1, v)
    BY <2>1, <2>2 DEF ExactInv, Tight, TightRange
  <2>8. \A k : Names(k, v) <=> NamedIn(Code, k, v)
    BY DEF Names, NamedIn
  <2>9. /\ last \in Nat
        /\ Indexes = IF operands = << >> THEN 0 .. last - 1 ELSE 0 .. last
        /\ \A k \in 0 .. last - 1 : Code[k + 1] = InstList[k + 1]
        /\ operands # << >> => ~ Code[last + 1].isCall
        /\ Len(Code) = IF operands = << >> THEN last ELSE last + 1
    <3>1. Code = CodeOf(InstList, operands)
      BY DEF Code, CodeOf
    <3>2. Len(Code) = (IF operands = << >> THEN last ELSE last + 1) /\ last \in Nat
      BY <2>1 DEF TypeOK, Code
    <3> QED
      BY <2>1, <3>1, <3>2, CodeFacts DEF TypeOK, Indexes
  <2>10. \A k \in 1 .. last : k \in CurrentCallInstIndexes <=> InstList[k].isCall
    BY DEF ExactInv, NotedInv
  <2>11. \A k \in CurrentCallInstIndexes : k \in 1 .. last
    BY <2>1 DEF TypeOK
  <2> HIDE DEF s, range, last
  <2>12. ASSUME NEW k \in CurrentCallInstIndexes, LiveAt(range, k)
         PROVE  \E c \in Indexes :
                    /\ Code[c + 1].isCall
                    /\ \E n \in 0 .. c + 1 : n \in Indexes /\ Names(n, v)
                    /\ \E n \in c + 1 .. Len(Code) - 1 : Names(n, v)
    <3> DEFINE c == k - 1
    <3>1. k \in 1 .. last /\ k \in Int
      BY <2>11
    <3>2. c \in Indexes /\ c \in 0 .. last - 1 /\ c + 1 = k
      BY <2>9, <3>1
    <3>3. Code[c + 1].isCall
      BY <2>9, <2>10, <3>1, <3>2
    <3>4. range.StartPoint <= k /\ k < range.EndPoint
      BY <2>12 DEF LiveAt
    <3>5. range.StartPoint \in 0 .. c + 1 /\ range.EndPoint - 1 \in c + 1 .. Len(Code) - 1
      BY <2>3, <3>1, <3>2, <3>4
    <3>6. range.StartPoint \in Indexes
      BY <2>3 DEF Indexes
    <3> QED
      BY <2>7, <2>8, <3>2, <3>3, <3>5, <3>6
  <2>13. ASSUME NEW c \in Indexes, Code[c + 1].isCall,
                NEW i \in 0 .. c + 1, i \in Indexes, Names(i, v),
                NEW j \in c + 1 .. Len(Code) - 1, Names(j, v)
         PROVE  \E k \in CurrentCallInstIndexes : LiveAt(range, k)
    <3>1. c \in 0 .. last - 1
      BY <2>9, <2>13
    <3>2. c + 1 \in CurrentCallInstIndexes
      <4>1. c + 1 \in 1 .. last
        BY <2>9, <3>1
      <4> QED
        BY <2>9, <2>10, <2>13, <3>1, <4>1
    <3>3. LiveAt(range, i) /\ LiveAt(range, j)
      <4>1. j \in 0 .. Len(Code) - 1 /\ i \in 0 .. Len(Code) - 1
        BY <2>13, <2>9, <3>1 DEF Indexes
      <4> QED
        BY <2>6, <2>8, <2>13, <4>1
    <3>4. LiveAt(range, c + 1)
      BY <2>3, <2>9, <3>1, <3>3 DEF LiveAt
    <3> QED
      BY <3>2, <3>4
  <2> QED
    BY <2>4, <2>5, <2>12, <2>13
<1> QED
  BY <1>1, InductiveExact, PTL

===============================================================================
