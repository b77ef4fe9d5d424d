---------------------------- MODULE RISCVAsmRewriter ---------------------------
(***************************************************************************)
(* What the rewriter does on RISC-V                                        *)
(* (src/codegen/asm/RISCV/RISCVAsmRewriter.h).  saved are the callee-saved *)
(* registers to be saved, none in main.                                    *)
(***************************************************************************)
EXTENDS RISCVTargetInfo

\* getUsedRegisters: an indirect call's argument registers are not among them.
RISCVUsedRegisters(inst) ==
    (UNION { ToSet(RegsOf(inst.operands[n])) : n \in DOMAIN inst.operands } \cap PhysRegs)
        \cup (IF inst.opcode = "CALL"
              THEN {A0} \cup { ArgRegs[n] : n \in { n \in DOMAIN ArgRegs :
                                                       n <= inst.operands[2].val } }
              ELSE {})

RISCVLoadSlot(r, slot)  == LD(Reg(r), slot)
RISCVStoreSlot(r, slot) == SD(Reg(r), slot)

\* RA, FP and StackSizeForCalleeSavedRegs.
RISCVSavedBytes(saved) == RegisterSize * 2 + RegisterSize * Len(saved)

\* FP is what SP was at the call, where the arguments begin.
RISCVArgsOffset == 0

\* TotalStackFrameSizeInBytes
TotalStackFrameSize(saved, size) ==
    LET total == size + RISCVSavedBytes(saved)
    IN  total + IF total % 16 = 0 THEN 0 ELSE 16 - (total % 16)

\* What the first adjustment of SP takes: the whole frame, or what leaves the
\* places of the saved registers within reach of an immediate.
FirstAdjustment(total) == IF total > ImmLimit - 1 THEN ImmLimit - 16 ELSE total

\* Moves the saved registers by opcode to or from their places.
SavedRegisters(opcode, saved, top) ==
    LET regs == << RA, FP >> \o saved
    IN  [n \in DOMAIN regs |->
            Inst(opcode, << Reg(regs[n]), Mem(top - RegisterSize * n, SP) >>)]

\* The rest of a frame that one immediate does not reach, through T0.
SecondAdjustment(opcode, total) ==
    IF total = FirstAdjustment(total) THEN << >>
    ELSE << LI(Reg(T0), total - FirstAdjustment(total)),
            Op3(opcode, Reg(SP), Reg(SP), Reg(T0)) >>

\* insertPrologue
RISCVPrologue(saved, size) ==
    LET total == TotalStackFrameSize(saved, size)
        first == FirstAdjustment(total)
    IN  << ADDI(Reg(SP), Reg(SP), -first) >>
            \o SavedRegisters("SD", saved, first)
            \o << ADDI(Reg(FP), Reg(SP), first) >>
            \o SecondAdjustment("SUB", total)

\* Slip: the second adjustment is not taken back.
EpilogueOfSmallFrame(saved, size) ==
    LET first == FirstAdjustment(TotalStackFrameSize(saved, size))
    IN  SavedRegisters("LD", saved, first)
            \o << ADDI(Reg(SP), Reg(SP), first), Inst("RET", << >>) >>

\* insertEpilogue
RISCVEpilogue(saved, size) ==
    LET total == TotalStackFrameSize(saved, size)
        first == FirstAdjustment(total)
    IN  SecondAdjustment("ADD", total)
            \o SavedRegisters("LD", saved, first)
            \o << ADDI(Reg(SP), Reg(SP), first), Inst("RET", << >>) >>

-------------------------------------------------------------------------------
(* The rest of adjustStackFrame *)

\* GET_STACKOBJECT_ADDRESS becomes an ADDI.
LoweredAddress(inst) ==
    IF inst.opcode # "GET_STACKOBJECT_ADDRESS" THEN inst
    ELSE ADDI(inst.operands[1], Reg(FP), inst.operands[2].disp)

\* An offset that does not fit is added up in RA, which the prologue has saved.
FarOffsets(inst) ==
    { n \in DOMAIN inst.operands :
        inst.operands[n].kind = "mem" /\ ~ FitsImm(inst.operands[n].disp) }

ThroughRA(inst) ==
    LET operands == inst.operands IN
    CASE FarOffsets(inst) # {} ->
            LET n == CHOOSE n \in FarOffsets(inst) : TRUE IN
            << LI(Reg(RA), operands[n].disp),
               Op3("ADD", Reg(RA), Reg(RA), Reg(operands[n].base)),
               [inst EXCEPT !.operands[n] = Mem(0, RA)] >>
      [] inst.opcode = "ADDI" /\ ~ FitsImm(operands[3].val) ->
            << LI(Reg(RA), operands[3].val),
               Op3("ADD", operands[1], operands[2], Reg(RA)) >>
      [] OTHER -> << inst >>

RISCVLowered(inst) == ThroughRA(LoweredAddress(inst))

===============================================================================
