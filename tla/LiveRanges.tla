------------------------------- MODULE LiveRanges -------------------------------
(***************************************************************************)
(* How the instruction builder computes live ranges while it emits the     *)
(* instructions of one function after the other (src/codegen/asm/          *)
(* AsmBuilder.h, and the create...Inst functions of X86AsmBuilder.cpp and  *)
(* RISCVAsmBuilder.cpp).                                                   *)
(*                                                                         *)
(* A create...Inst function calls updateRegLiveRanges for each register    *)
(* among the operands and then appends the instruction; for a call it      *)
(* notes, after that, the number of instructions.  Each of these steps is  *)
(* an action.  Of an instruction only its registers matter here.           *)
(***************************************************************************)
EXTENDS LiveIntervals

CONSTANTS
    MaxOperands,      \* the bound on the registers of an instruction
    MaxInstructions   \* the bound on the instructions of a function

ASSUME BoundAssumption == MaxOperands \in Nat /\ MaxInstructions \in Nat

VARIABLES
    InstList,                \* CurrentFunction's instructions
    CurrentCallInstIndexes,  \* what was noted for its calls
    RegLiveRangesMap,        \* CurrentFunction's live ranges
    operands                 \* those of the next instruction seen so far

vars == << InstList, CurrentCallInstIndexes, RegLiveRangesMap, operands >>

Instruction == [operands : Seq(VirtRegs \cup PhysRegs), isCall : BOOLEAN]

Init ==
    /\ InstList = << >>
    /\ CurrentCallInstIndexes = {}
    /\ RegLiveRangesMap = << >>
    /\ operands = << >>

-------------------------------------------------------------------------------

\* AsmBuilder::build goes on to the next function.
BuildFunction ==
    /\ operands = << >>
    /\ InstList' = << >>
    /\ CurrentCallInstIndexes' = {}
    /\ RegLiveRangesMap' = << >>
    /\ UNCHANGED operands

\* The range of the instruction that is being built.
ThisInstruction ==
    [StartPoint |-> Len(InstList), EndPoint |-> Len(InstList) + 1,
     UsedAcrossCall |-> FALSE]

\* The flag is set when a noted index lies in the range.
WithFlag(range) ==
    [range EXCEPT !.UsedAcrossCall =
        @ \/ \E k \in CurrentCallInstIndexes : LiveAt(range, k)]

\* Slip: ranges as they were.
KeepLast(ranges) == ranges

\* Slip: the flag is set for a new range only.
ExtendWithoutFlag(ranges) ==
    [ranges EXCEPT ![Len(ranges)].EndPoint = ThisInstruction.EndPoint]

\* ranges with the last one extended to the instruction that is being built.
ExtendLast(ranges) ==
    [ranges EXCEPT ![Len(ranges)] =
        WithFlag([@ EXCEPT !.EndPoint = ThisInstruction.EndPoint])]

NewRange(ranges) == Append(ranges, WithFlag(ThisInstruction))

\* A virtual register has one range, from its first use to its last.
UpdateVirtReg(ranges) ==
    IF ranges = << >> THEN NewRange(ranges) ELSE ExtendLast(ranges)

\* A physical register gets a new range after a hole.
UpdatePhysReg(ranges) ==
    IF ranges = << >> THEN NewRange(ranges)
    ELSE LET last == ranges[Len(ranges)] IN
         IF \/ /\ last.StartPoint = ThisInstruction.StartPoint
               /\ last.EndPoint = ThisInstruction.EndPoint
            \/ last.EndPoint = ThisInstruction.StartPoint
         THEN ExtendLast(ranges)
         ELSE NewRange(ranges)

RangesOf(reg) ==
    IF reg \in DOMAIN RegLiveRangesMap THEN RegLiveRangesMap[reg] ELSE << >>

\* updateRegLiveRanges
UpdateRegLiveRanges(reg) ==
    /\ Len(InstList) < MaxInstructions
    /\ Len(operands) < MaxOperands
    /\ RegLiveRangesMap' =
           [r \in DOMAIN RegLiveRangesMap \cup {reg} |->
               IF r # reg THEN RegLiveRangesMap[r]
               ELSE IF reg \in VirtRegs THEN UpdateVirtReg(RangesOf(reg))
               ELSE UpdatePhysReg(RangesOf(reg))]
    /\ operands' = Append(operands, reg)
    /\ UNCHANGED << InstList, CurrentCallInstIndexes >>

\* AsmInstruction::create, of all instructions but calls.
CreateInst ==
    /\ Len(InstList) < MaxInstructions
    /\ InstList' = Append(InstList, [operands |-> operands, isCall |-> FALSE])
    /\ operands' = << >>
    /\ UNCHANGED << CurrentCallInstIndexes, RegLiveRangesMap >>

\* Slip: the index is noted before the call is appended.
CreateCALLInstNotedEarly ==
    /\ Len(InstList) < MaxInstructions
    /\ InstList' = Append(InstList, [operands |-> operands, isCall |-> TRUE])
    /\ CurrentCallInstIndexes' = CurrentCallInstIndexes \cup {Len(InstList)}
    /\ operands' = << >>
    /\ UNCHANGED RegLiveRangesMap

\* createCALLInst: the index it notes is that of the instruction after the call.
CreateCALLInst ==
    /\ Len(InstList) < MaxInstructions
    /\ InstList' = Append(InstList, [operands |-> operands, isCall |-> TRUE])
    /\ CurrentCallInstIndexes' = CurrentCallInstIndexes \cup {Len(InstList')}
    /\ operands' = << >>
    /\ UNCHANGED RegLiveRangesMap

Next ==
    \/ BuildFunction
    \/ \E reg \in VirtRegs \cup PhysRegs : UpdateRegLiveRanges(reg)
    \/ CreateInst
    \/ CreateCALLInst

Spec == Init /\ [][Next]_vars

-------------------------------------------------------------------------------
(* Properties *)

\* The instructions so far, with the one that is being built.  The instruction
\* at index k is the k+1st of the list.
Code ==
    IF operands = << >> THEN InstList
    ELSE Append(InstList, [operands |-> operands, isCall |-> FALSE])

Indexes == 0 .. Len(Code) - 1

Names(k, reg) ==
    \E n \in 1 .. Len(Code[k + 1].operands) : Code[k + 1].operands[n] = reg

TypeOK ==
    /\ InstList \in Seq(Instruction)
    /\ CurrentCallInstIndexes \subseteq 1 .. Len(InstList)
    /\ IsLiveRangesMap(RegLiveRangesMap)
    /\ operands \in Seq(VirtRegs \cup PhysRegs)

\* A register is live at every instruction that names it, also when it has many
\* ranges; the allocator never looks at the instructions themselves.
UsesAreLive ==
    \A k \in Indexes, reg \in VirtRegs \cup PhysRegs :
        Names(k, reg) =>
            /\ reg \in DOMAIN RegLiveRangesMap
            /\ \E n \in 1 .. Len(RegLiveRangesMap[reg]) :
                   LiveAt(RegLiveRangesMap[reg][n], k)

\* No range is longer than the uses justify: a virtual register's begins and
\* ends at a use, a physical register's has no holes.
RangesAreTight ==
    \A reg \in DOMAIN RegLiveRangesMap :
        \A n \in 1 .. Len(RegLiveRangesMap[reg]) :
            LET range == RegLiveRangesMap[reg][n] IN
            /\ Names(range.StartPoint, reg) /\ Names(range.EndPoint - 1, reg)
            /\ reg \in PhysRegs =>
                   \A k \in range.StartPoint .. range.EndPoint - 1 : Names(k, reg)

\* A virtual register is marked as used across a call exactly when a use follows
\* a call that the register was live at, or whose result it takes: a use in
\* the call instruction itself does not count.
CallsAreNoticed ==
    \A v \in VirtRegsOf(RegLiveRangesMap) :
        VirtInterval(RegLiveRangesMap, v).UsedAcrossCall <=>
            \E c \in Indexes :
                /\ Code[c + 1].isCall
                /\ \E k \in 0 .. c + 1 : k \in Indexes /\ Names(k, v)
                /\ \E k \in c + 1 .. Len(Code) - 1 : Names(k, v)

\* What the register allocator may rely on (InputAssumption of LinearScan).
RangesAreWellFormed == WellFormed(RegLiveRangesMap)

===============================================================================
