------------------------------ MODULE RISCVMachine -----------------------------
(***************************************************************************)
(* The instructions of RISC-V that the generated code uses, under its      *)
(* calling convention.  None of this is the repository's.                  *)
(***************************************************************************)
EXTENDS Machine, RISCVTargetInfo

\* A call leaves the return address in RA.
RISCVEntered(args) == [Called(args) EXCEPT !.regs[RA] = ReturnAddress]

\* An instruction whose offset or immediate does not fit cannot be assembled.
Assembles(inst) ==
    \A n \in DOMAIN inst.operands :
        LET operand == inst.operands[n] IN
        /\ operand.kind = "mem" => FitsImm(operand.disp) /\ operand.index = NoRegister
        /\ inst.opcode = "ADDI" /\ operand.kind = "imm" => FitsImm(operand.val)

\* The instruction at m.pc is executed.
RISCVExecute(m, code) ==
    LET inst == code[m.pc]
        o    == inst.operands
        Value(n) == ValueOf(m, o[n])
        Set1(x)  == Put(m, o[1], IF Assembles(inst) THEN x ELSE Junk)
        Branch(condition) == JumpIf(m, code, condition, o[3])
    IN  CASE inst.opcode = "LABEL" -> [m EXCEPT !.pc = @ + 1]
          [] inst.opcode \in {"LD", "MV", "LI", "LA"} -> Set1(Value(2))
          [] inst.opcode = "SD" -> Put(m, o[2], IF Assembles(inst) THEN Value(1) ELSE Junk)
          [] inst.opcode \in {"ADD", "ADDI"} -> Set1(Value(2) + Value(3))
          [] inst.opcode = "SUB" -> Set1(Value(2) - Value(3))
          [] inst.opcode = "MUL" -> Set1(Value(2) * Value(3))
          [] inst.opcode = "DIV" -> Set1(IF Value(3) = 0 THEN -1
                                         ELSE Quotient(Value(2), Value(3)))
          [] inst.opcode = "J"   -> JumpIf(m, code, TRUE, o[1])
          [] inst.opcode = "BEQ" -> Branch(Value(1) = Value(2))
          [] inst.opcode = "BNE" -> Branch(Value(1) # Value(2))
          [] inst.opcode = "BGT" -> Branch(Value(1) > Value(2))
          [] inst.opcode = "BLE" -> Branch(Value(1) <= Value(2))
          [] inst.opcode \in {"CALL", "JALR"} -> Call(m, o[1], o[2].val, TRUE)
          [] inst.opcode = "RET" -> [m EXCEPT !.pc = m.regs[RA]]

===============================================================================
