------------------------------- MODULE AsmRewriter -----------------------------
(***************************************************************************)
(* How the rewriter turns the instructions of a function over virtual      *)
(* registers into instructions of the machine, once each virtual register  *)
(* has a location (src/codegen/asm/AsmRewriter.h, and the functions that   *)
(* X86/X86AsmRewriter.h and RISCV/RISCVAsmRewriter.h have in common):      *)
(* allocated registers are put in, spilled ones are moved through a        *)
(* register borrowed for one instruction, and stack objects get their      *)
(* place in the frame.                                                     *)
(*                                                                         *)
(* location maps a virtual register to a register or to a stack slot;      *)
(* frame holds the function's LocalFrameSize and NumSpilledReg.            *)
(***************************************************************************)
EXTENDS AsmCode

\* The virtual functions of a target's AsmRewriter.
CONSTANTS
    UsedRegisters(_),       \* getUsedRegisters
    Borrowable,             \* the order in which getAvailableRegister looks
    LoadSlot(_, _),         \* the instruction that moves a word of the frame to a
    StoreSlot(_, _),        \* register, and the one that moves it back
    FramePointer,           \* getFramePointerRegister
    Prologue(_, _),         \* insertPrologue and insertEpilogue, for the registers
    Epilogue(_, _),         \* saved and the size of the rest of the frame
    SavedBytes(_),          \* what lies between the frame pointer and the objects
    ArgsOffset,             \* where the incoming stack arguments are
    Lowered(_)              \* the rest of adjustStackFrame, for one instruction

\* rewriteAsmInstVirtRegToPhysReg, for all instructions.
RewriteVirtRegToPhysReg(code, location) ==
    LET allocated == [v \in { v \in VirtRegs : location[v] \in PhysRegs } |-> location[v]]
    IN  [n \in DOMAIN code |->
            [code[n] EXCEPT !.operands =
                [k \in DOMAIN @ |-> Renamed(@[k], allocated)]]]

-------------------------------------------------------------------------------
(* Spill code *)

\* getAvailableRegister: the first that is not used.
AvailableRegister(used) == SelectSeq(Borrowable, LAMBDA r : r \notin used)[1]

\* getStackSlotOffsetForSpilledReg and getReservedStackSlotOffsetForReg: offsets
\* from the frame pointer.
StackSlotOffset(frame, slot) ==
    -(frame.LocalFrameSize + RegisterSize * (slot.StackSlot + 1))

ReservedSlotOffset(frame, n) ==
    -(frame.LocalFrameSize + RegisterSize * frame.NumSpilledReg + RegisterSize * n)

\* Where inst still names a virtual register, which is spilled: the number of the
\* operand and the field.
SpilledSites(inst) ==
    LET SitesOf(n) == [k \in DOMAIN RegFields(inst.operands[n]) |->
                          << n, RegFields(inst.operands[n])[k] >>]
    IN  SelectSeq(FlattenSeq([n \in DOMAIN inst.operands |-> SitesOf(n)]),
                  LAMBDA site : inst.operands[site[1]][site[2]] \in VirtRegs)

\* rewriteAsmOperandSpilledRegToStackSlot: a register is borrowed for the one at
\* site.  Its content goes to a reserved slot before the instruction and the
\* spilled value comes from its stack slot; afterwards the value goes back and the
\* content is restored, before what was inserted there for earlier sites.
SpillSite(frame, location, acc, site) ==
    LET r        == AvailableRegister(acc.used)
        spilled  == acc.inst.operands[site[1]][site[2]]
        slot     == Mem(StackSlotOffset(frame, location[spilled]), FramePointer)
        reserved == Mem(ReservedSlotOffset(frame, acc.reserved + 1), FramePointer)
    IN  [inst     |-> [acc.inst EXCEPT !.operands[site[1]][site[2]] = r],
         used     |-> acc.used \cup {r},
         reserved |-> acc.reserved + 1,
         before   |-> acc.before \o << StoreSlot(r, reserved), LoadSlot(r, slot) >>,
         after    |-> << StoreSlot(r, slot), LoadSlot(r, reserved) >> \o acc.after]

\* rewriteAsmInstSpilledRegToStackSlot.
SpillCode(inst, frame, location) ==
    LET spilled == FoldLeft(LAMBDA acc, site : SpillSite(frame, location, acc, site),
                            [inst |-> inst, used |-> UsedRegisters(inst), reserved |-> 0,
                             before |-> << >>, after |-> << >>],
                            SpilledSites(inst))
    IN  spilled.before \o << spilled.inst >> \o spilled.after

RewriteSpilledRegToStackSlot(code, frame, location) ==
    FlattenSeq([n \in DOMAIN code |-> SpillCode(code[n], frame, location)])

\* MaxNumReversedStackSlotForReg: the most that one instruction needs.
MaxNumReserved(code) ==
    FoldLeft(LAMBDA max, inst :
                 IF Len(SpilledSites(inst)) > max THEN Len(SpilledSites(inst)) ELSE max,
             0, code)

-------------------------------------------------------------------------------
(* The frame *)

\* The offset from the frame pointer of the n-th stack object: the arguments that
\* come on the stack lie upwards from ArgsOffset, the others downwards from the
\* saved registers.
ObjectOffset(sizes, stackArgs, saved, n) ==
    LET Size(first, last) ==
            FoldLeft(LAMBDA sum, size : sum + size, 0, SubSeq(sizes, first, last))
    IN  IF n <= stackArgs THEN ArgsOffset + Size(1, n - 1)
        ELSE -SavedBytes(saved) - Size(stackArgs + 1, n)

\* adjustStackFrame
AdjustStackFrame(code, sizes, stackArgs, saved) ==
    LET Placed(operand) ==
            IF operand.kind # "object" THEN operand
            ELSE Mem(ObjectOffset(sizes, stackArgs, saved, operand.number + 1),
                     FramePointer)
    IN  FlattenSeq([n \in DOMAIN code |->
            Lowered([code[n] EXCEPT !.operands = [k \in DOMAIN @ |-> Placed(@[k])]])])

===============================================================================
