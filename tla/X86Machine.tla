------------------------------- MODULE X86Machine ------------------------------
(***************************************************************************)
(* The instructions of x86 that the generated code uses, under the         *)
(* System V calling convention.  None of this is the repository's.         *)
(***************************************************************************)
EXTENDS Machine, X86TargetInfo

Push(m, x) ==
    [m EXCEPT !.pc = @ + 1, !.regs[RSP] = @ - RegisterSize,
              !.mem = Write(@, m.regs[RSP] - RegisterSize, x)]

Pop(m, r) ==
    [m EXCEPT !.pc = @ + 1,
              !.regs = [@ EXCEPT ![RSP] = @ + RegisterSize,
                                 ![r] = Read(m.mem, m.regs[RSP])]]

\* A call pushes the return address.
X86Entered(args) ==
    [Called(args) EXCEPT !.regs[RSP] = CallSP - RegisterSize,
                         !.mem = Write(@, CallSP - RegisterSize, ReturnAddress)]

\* LEA gives the address of its operand, and only to a register.
EffectiveAddress(m, operand) ==
    CASE operand.kind = "mem"   -> Address(m, operand)
      [] operand.kind = "label" -> AddressOf(operand.symbol)
      [] OTHER -> Junk

\* Arithmetic leaves flags that no branch may read.
Computed(m, dst, x) == [Put(m, dst, x) EXCEPT !.flags = << Junk, Junk >>]

SignOf(x) == IF x < 0 THEN -1 ELSE 0

\* IDIV divides RDX:RAX.
Divided(m, x) ==
    IF m.regs[RDX] # SignOf(m.regs[RAX]) \/ x = 0
    THEN [Computed(m, Reg(RAX), Junk) EXCEPT !.regs[RDX] = Junk]
    ELSE [Computed(m, Reg(RAX), Quotient(m.regs[RAX], x))
            EXCEPT !.regs[RDX] = m.regs[RAX] - x * Quotient(m.regs[RAX], x)]

\* A variadic function is told in RAX how many vector registers have arguments.
Variadic == {"printf", "scanf"}

X86Call(m, target, numArgs) ==
    Call(m, target, numArgs,
         target.kind = "label" /\ target.symbol \in Variadic => m.regs[RAX] = 0)

\* The instruction at m.pc is executed.
X86Execute(m, code) ==
    LET inst == code[m.pc]
        src  == inst.operands[1]
        dst  == inst.operands[2]
        Jump(condition) == JumpIf(m, code, condition, src)
    IN  CASE inst.opcode = "LABEL" -> [m EXCEPT !.pc = @ + 1]
          [] inst.opcode = "MOV"  -> Put(m, dst, ValueOf(m, src))
          [] inst.opcode = "LEA"  ->
                Put(m, dst, IF IsReg(dst) THEN EffectiveAddress(m, src) ELSE Junk)
          [] inst.opcode = "ADD"  -> Computed(m, dst, ValueOf(m, dst) + ValueOf(m, src))
          [] inst.opcode = "SUB"  -> Computed(m, dst, ValueOf(m, dst) - ValueOf(m, src))
          [] inst.opcode = "IMUL" -> Computed(m, dst, ValueOf(m, dst) * ValueOf(m, src))
          [] inst.opcode = "XOR"  -> Computed(m, dst, IF src = dst THEN 0 ELSE Junk)
          [] inst.opcode = "CQTO" -> Put(m, Reg(RDX), SignOf(m.regs[RAX]))
          [] inst.opcode = "IDIV" -> Divided(m, ValueOf(m, src))
          [] inst.opcode = "CMP"  ->
                [m EXCEPT !.pc = @ + 1, !.flags = << ValueOf(m, dst), ValueOf(m, src) >>]
          [] inst.opcode = "JMP"  -> Jump(TRUE)
          [] inst.opcode = "JE"   -> Jump(m.flags[1] = m.flags[2])
          [] inst.opcode = "JNE"  -> Jump(m.flags[1] # m.flags[2])
          [] inst.opcode = "JG"   -> Jump(m.flags[1] > m.flags[2])
          [] inst.opcode = "JLE"  -> Jump(m.flags[1] <= m.flags[2])
          [] inst.opcode = "PUSH" -> Push(m, ValueOf(m, src))
          [] inst.opcode = "POP"  -> Pop(m, src.reg)
          [] inst.opcode = "CALL" -> X86Call(m, src, dst.val)
          [] inst.opcode = "RET"  ->
                [m EXCEPT !.pc = Read(m.mem, m.regs[RSP]), !.regs[RSP] = @ + RegisterSize]

===============================================================================
