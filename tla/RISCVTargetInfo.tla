---------------------------- MODULE RISCVTargetInfo ----------------------------
(***************************************************************************)
(* The registers of RISC-V that the code generator names, and some of its  *)
(* instructions (src/codegen/asm/RISCV/RISCVTargetInfo.h).  The first      *)
(* operand of an instruction is the one it changes, except in stores,      *)
(* branches and calls.                                                     *)
(***************************************************************************)
EXTENDS AsmCode

CONSTANTS
    RA, SP, FP, A0, T0,
    ImmLimit    \* an immediate is at least -ImmLimit and less than ImmLimit: 2048

ASSUME RISCVAssumption ==
    /\ {RA, SP, FP, A0, T0} \subseteq PhysRegs
    /\ ImmLimit \in Nat /\ ImmLimit % 16 = 0

FitsImm(n) == n \in -ImmLimit .. ImmLimit - 1

LD(dst, mem)  == Inst("LD", << dst, mem >>)
SD(src, mem)  == Inst("SD", << src, mem >>)
MV(dst, src)  == Inst("MV", << dst, src >>)
LI(dst, n)    == Inst("LI", << dst, Imm(n) >>)
LA(dst, label) == Inst("LA", << dst, label >>)
ADDI(dst, src, n) == Inst("ADDI", << dst, src, Imm(n) >>)
Op3(opcode, dst, src1, src2) == Inst(opcode, << dst, src1, src2 >>)

===============================================================================
