----------------------------- MODULE MCRISCVCodegen ----------------------------
(***************************************************************************)
(* Codegen on RISC-V, for TLC: a machine with some of RISC-V's registers   *)
(* and short immediates, and small programs.                               *)
(***************************************************************************)
EXTENDS Codegen, RISCVAsmBuilder, RISCVAsmRewriter, RISCVMachine, SourcePrograms

CONSTANTS T1, T2, S1, A1, S2, MaxVirtReg

SomeRegs     == << RA, SP, T0, T1, T2, FP, S1, A0, A1, S2 >>
SomeArgRegs  == << A0, A1 >>
SomeFreeRegs == << T0, T1, T2, S1, A0, A1, S2 >>
SomeOrders   == { SomeFreeRegs, Reverse(SomeFreeRegs) }
SomeVirts    == 1 .. MaxVirtReg

SomePrograms == << visitProgram(<< calls, two, nested, quotients, apply >>),
                   visitProgram(<< memory, rows, fill, sumOfQuotients >>),
                   visitProgram(<< tables, four, two >>),
                   visitProgram(<< loop >>) >>

===============================================================================
