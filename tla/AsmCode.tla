-------------------------------- MODULE AsmCode --------------------------------
(***************************************************************************)
(* The instructions and operands the native code generator works on, and   *)
(* what a target tells it of its registers (src/codegen/asm/AsmOperand.h,  *)
(* AsmInstruction.h, Register.h, TargetInfo.h).                            *)
(*                                                                         *)
(* In the code a register is a number.  Here the registers of the target   *)
(* are a sequence of model values in the order of the code's enumeration,  *)
(* so that an instance may leave some out; virtual registers are numbers.  *)
(***************************************************************************)
EXTENDS Integers, Sequences, SequencesExt

CONSTANTS
    RegOrder,     \* all registers, in the order of the target's enum
    ArgRegs,      \* getArgRegisters
    FreeRegs,     \* getFreeRegistersForRegisterAllocator
    CallerSaved,  \* isCallerSavedRegister
    CalleeSaved,  \* isCalleeSavedRegister
    NoRegister,
    VirtRegs      \* the numbers Register::createVirtReg gives out

PhysRegs == ToSet(RegOrder)

ASSUME RegisterFileAssumption ==
    /\ ToSet(ArgRegs) \cup ToSet(FreeRegs) \cup CallerSaved \cup CalleeSaved \subseteq PhysRegs
    /\ CallerSaved \cap CalleeSaved = {}
    /\ NoRegister \notin PhysRegs
    /\ VirtRegs \subseteq Nat

RegisterSize == 8

NumArgRegs == Len(ArgRegs)

\* Operands.  A memory operand is the word at disp + base + index * scale.
Reg(r) == [kind |-> "reg", reg |-> r]
Imm(n) == [kind |-> "imm", val |-> n]
Indexed(disp, base, index, scale) ==
    [kind |-> "mem", disp |-> disp, base |-> base, index |-> index, scale |-> scale]
Mem(disp, base) == Indexed(disp, base, NoRegister, 1)
StackObject(number) == [kind |-> "object", number |-> number]
Label(symbol) == [kind |-> "label", symbol |-> symbol]

IsReg(operand) == operand.kind = "reg"

\* The fields of an operand that name a register, in the order in which the code
\* looks at them.
RegFields(operand) ==
    CASE operand.kind = "reg" -> << "reg" >>
      [] operand.kind = "mem" -> << "base", "index" >>
      [] OTHER -> << >>

RegsOf(operand) ==
    SelectSeq([k \in DOMAIN RegFields(operand) |-> operand[RegFields(operand)[k]]],
              LAMBDA r : r # NoRegister)

\* The operand with new[r] for each register r in DOMAIN new that it names.
Renamed(operand, new) ==
    LET Name(r) == IF r \in DOMAIN new THEN new[r] ELSE r IN
    CASE operand.kind = "reg" -> Reg(Name(operand.reg))
      [] operand.kind = "mem" ->
            [operand EXCEPT !.base = Name(@), !.index = Name(@)]
      [] OTHER -> operand

Inst(opcode, operands) == [opcode |-> opcode, operands |-> operands]

IsCall(inst) == inst.opcode \in {"CALL", "JALR"}

\* What a handle... function of a builder does: the instructions it creates, the
\* operand it returns and the next virtual register.
Created(insts, result, virt) == [insts |-> insts, result |-> result, virt |-> virt]

Nothing == [kind |-> "none"]

===============================================================================
