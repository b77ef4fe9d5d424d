------------------------------ MODULE MCX86Codegen -----------------------------
(***************************************************************************)
(* Codegen on x86, for TLC: a machine with some of x86's registers, and    *)
(* small programs.                                                         *)
(***************************************************************************)
EXTENDS Codegen, X86AsmBuilder, X86AsmRewriter, X86Machine, SourcePrograms

CONSTANTS RDI, R10, RBX, R12, MaxVirtReg

SomeRegs     == << RAX, RDI, RDX, R10, RSP, RBP, RBX, R12 >>
SomeArgRegs  == << RDI, RDX >>
SomeFreeRegs == << RAX, RDI, RDX, R10, RBX, R12 >>
SomeOrders   == { SomeFreeRegs, Reverse(SomeFreeRegs) }
SomeVirts    == 1 .. MaxVirtReg

SomePrograms == << visitProgram(<< calls, two, nested, quotients, apply >>),
                   visitProgram(<< memory, rows, fill >>),
                   visitProgram(<< loop >>) >>

\* Two quotients wait at once.
TwoQuotients == << visitProgram(<< [sumOfQuotients EXCEPT !.stmts = << >>] >>) >>

\* All of the frame is used.
WithoutPad == << visitProgram(<< two, nested, [calls EXCEPT !.vars = << >>] >>) >>

===============================================================================
