----------------------------- MODULE X86TargetInfo -----------------------------
(***************************************************************************)
(* The registers of x86 that the code generator names, and two of its      *)
(* instructions (src/codegen/asm/X86/X86TargetInfo.h).  As in the code,    *)
(* the last operand of an instruction is the one it changes.               *)
(***************************************************************************)
EXTENDS AsmCode

CONSTANTS RAX, RDX, RSP, RBP

ASSUME X86Assumption == {RAX, RDX, RSP, RBP} \subseteq PhysRegs

MOV(src, dst) == Inst("MOV", << src, dst >>)
LEA(src, dst) == Inst("LEA", << src, dst >>)

===============================================================================
