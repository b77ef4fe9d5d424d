----------------------------- MODULE X86AsmRewriter ----------------------------
(***************************************************************************)
(* What the rewriter does on x86 (src/codegen/asm/X86/X86AsmRewriter.h).   *)
(* saved are the callee-saved registers to be saved, none in main.         *)
(***************************************************************************)
EXTENDS X86TargetInfo

\* Slip: an instruction's implicit registers are forgotten.
NamedRegisters(inst) ==
    UNION { ToSet(RegsOf(inst.operands[n])) : n \in DOMAIN inst.operands } \cap PhysRegs

\* getUsedRegisters
X86UsedRegisters(inst) ==
    (UNION { ToSet(RegsOf(inst.operands[n])) : n \in DOMAIN inst.operands } \cap PhysRegs)
        \cup (IF inst.opcode \in {"IDIV", "CQTO"} THEN {RAX, RDX} ELSE {})
        \cup (IF inst.opcode = "CALL"
              THEN {RAX} \cup { ArgRegs[n] : n \in { n \in DOMAIN ArgRegs :
                                                        n <= inst.operands[2].val } }
              ELSE {})

X86LoadSlot(r, slot)  == MOV(slot, Reg(r))
X86StoreSlot(r, slot) == MOV(Reg(r), slot)

\* StackSizeForCalleeSavedRegs
X86SavedBytes(saved) == RegisterSize * Len(saved)

\* The return address and RBP lie between RBP and the arguments.
X86ArgsOffset == RegisterSize * 2

\* Slip: the pushed return address is left out of the frame's size.
NeededWithoutReturnAddress(size, saved) ==
    LET total == size + RegisterSize + X86SavedBytes(saved)
    IN  size + IF total % 16 = 0 THEN 0 ELSE 16 - (total % 16)

\* NeededStackSizeInBytes: size bytes, and what keeps the whole frame, with the
\* return address, RBP and the saved registers, a multiple of 16 bytes.
NeededStackSize(size, saved) ==
    LET total == size + RegisterSize * 2 + X86SavedBytes(saved)
    IN  size + IF total % 16 = 0 THEN 0 ELSE 16 - (total % 16)

\* insertPrologue
X86Prologue(saved, size) ==
    << Inst("PUSH", << Reg(RBP) >>), MOV(Reg(RSP), Reg(RBP)) >>
        \o [n \in DOMAIN saved |-> Inst("PUSH", << Reg(saved[n]) >>)]
        \o << Inst("SUB", << Imm(NeededStackSize(size, saved)), Reg(RSP) >>) >>

\* Slip: the registers are popped in the order in which they were pushed.
EpilogueInPushOrder(saved, size) ==
    << Inst("ADD", << Imm(NeededStackSize(size, saved)), Reg(RSP) >>) >>
        \o [n \in DOMAIN saved |-> Inst("POP", << Reg(saved[n]) >>)]
        \o << Inst("POP", << Reg(RBP) >>), Inst("RET", << >>) >>

\* insertEpilogue
X86Epilogue(saved, size) ==
    << Inst("ADD", << Imm(NeededStackSize(size, saved)), Reg(RSP) >>) >>
        \o [n \in DOMAIN saved |-> Inst("POP", << Reg(Reverse(saved)[n]) >>)]
        \o << Inst("POP", << Reg(RBP) >>), Inst("RET", << >>) >>

\* adjustStackFrame does no more than place the stack objects.
X86Lowered(inst) == << inst >>

===============================================================================
