----------------------------- MODULE X86AsmBuilder -----------------------------
(***************************************************************************)
(* The instructions the builder creates for x86: its handle... functions   *)
(* (src/codegen/asm/X86/X86AsmBuilder.cpp).  v is the next virtual         *)
(* register.                                                               *)
(***************************************************************************)
EXTENDS X86TargetInfo

\* What an address in a register points to.
Pointed(operand) == IF IsReg(operand) THEN Mem(0, operand.reg) ELSE operand

handleLOAD(from, v) == Created(<< MOV(Pointed(from), Reg(v)) >>, Reg(v), v + 1)

handleRET(value, v) == Created(<< MOV(value, Reg(RAX)) >>, Nothing, v)

\* The incoming argument arg is in a register or in the caller's frame.
handleSTOREArg(arg, to, v) ==
    Created(IF arg.no < NumArgRegs THEN << MOV(Reg(ArgRegs[arg.no + 1]), to) >>
            ELSE << MOV(StackObject(arg.no - NumArgRegs), Reg(v)), MOV(Reg(v), to) >>,
            Nothing, v + 1)

\* A memory operand or a label is stored as an address.
handleSTORE(value, to, v) ==
    CASE value.kind = "arg" -> handleSTOREArg(value, to, v)
      [] value.kind \in {"reg", "imm"} -> Created(<< MOV(value, Pointed(to)) >>, Nothing, v)
      [] OTHER -> Created(<< LEA(value, Reg(v)), MOV(Reg(v), to) >>, Nothing, v + 1)

\* The element at index of what begins at the register base, or at disp from it.
Element(disp, base, index, size) ==
    IF IsReg(index) THEN Indexed(disp, base, index.reg, size)
    ELSE Mem(disp + size * index.val, base)

\* An address is computed first when the element has no operand of its own.  For
\* an index in a register the code asserts that size is 1, 2, 4 or 8.
handleGETELEMENTPTR(base, index, size, v) ==
    CASE IsReg(base) -> Created(<< >>, Element(0, base.reg, index, size), v)
      [] (\/ base.kind = "object"
          \/ IsReg(index) /\ base.index # NoRegister) ->
            Created(<< LEA(base, Reg(v)) >>, Element(0, v, index, size), v + 1)
      [] IsReg(index) -> Created(<< >>, Element(base.disp, base.base, index, size), v)
      [] OTHER -> Created(<< >>, [base EXCEPT !.disp = @ + size * index.val], v)

\* The comparison leaves flags, which the branch after it reads.
handleICMP(l, r, pred, v) ==
    LET cond == [kind |-> "cond", pred |-> pred] IN
    IF IsReg(l) THEN Created(<< Inst("CMP", << r, l >>) >>, cond, v)
    ELSE Created(<< MOV(l, Reg(v)), Inst("CMP", << r, Reg(v) >>) >>, cond, v + 1)

JmpTrueOpcode  == [EQ |-> "JE",  NE |-> "JNE", SGT |-> "JG"]
JmpFalseOpcode == [EQ |-> "JNE", NE |-> "JE",  SGT |-> "JLE"]

\* A branch falls through to the block that comes next.
ConditionalBR(cond, label1, label2, next, v) ==
    LET true  == Inst(JmpTrueOpcode[cond.pred], << label1 >>)
        false == Inst(JmpFalseOpcode[cond.pred], << label2 >>)
    IN  Created(CASE next = label1.symbol -> << false >>
                  [] next = label2.symbol -> << true >>
                  [] OTHER -> << true, false >>, Nothing, v)

\* The first successor is asked for, also when label is the second.
UnconditionalBR(label, info, v) ==
    Created(IF info.next = info.first THEN << >> ELSE << Inst("JMP", << label >>) >>,
            Nothing, v)

\* Addition and multiplication: the result replaces the right operand if that is
\* in a register, and else the left one.
Commutative(opcode, l, r, v) ==
    IF IsReg(r) THEN Created(<< Inst(opcode, << l, r >>) >>, r, v)
    ELSE Created(<< Inst(opcode, << r, l >>) >>, l, v)

handleSUB(l, r, v) ==
    IF IsReg(l) THEN Created(<< Inst("SUB", << r, l >>) >>, l, v)
    ELSE Created(<< MOV(l, Reg(v)), Inst("SUB", << r, Reg(v) >>) >>, Reg(v), v + 1)

\* The quotient stays in RAX.
handleSDIV(l, r, v) ==
    LET dividend == << MOV(l, Reg(RAX)), Inst("CQTO", << >>) >> IN
    IF IsReg(r) THEN Created(dividend \o << Inst("IDIV", << r >>) >>, Reg(RAX), v)
    ELSE Created(dividend \o << MOV(r, Reg(v)), Inst("IDIV", << Reg(v) >>) >>,
                 Reg(RAX), v + 1)

handleCALL(callee, numArgs, v) ==
    Created((IF callee.kind = "label" /\ callee.symbol \in {"printf", "scanf"}
             THEN << Inst("XOR", << Reg(RAX), Reg(RAX) >>) >> ELSE << >>)
                \o << Inst("CALL", << callee, Imm(numArgs) >>), MOV(Reg(RAX), Reg(v)) >>,
            Reg(v), v + 1)

\* The place of an argument that goes to the call frame.
CallFrame(argNo) == Mem(RegisterSize * (argNo - NumArgRegs), RSP)

\* An address goes to a register with LEA.  On the way to the call frame a memory
\* operand is read, and a label is not.
handleARG(argNo, arg, v) ==
    IF argNo < NumArgRegs
    THEN Created(<< Inst(IF arg.kind \in {"reg", "imm"} THEN "MOV" ELSE "LEA",
                         << arg, Reg(ArgRegs[argNo + 1]) >>) >>, Nothing, v)
    ELSE CASE arg.kind \in {"reg", "imm"} ->
                Created(<< MOV(arg, CallFrame(argNo)) >>, Nothing, v)
           [] arg.kind = "label" -> Created(<< LEA(arg, CallFrame(argNo)) >>, Nothing, v)
           [] OTHER -> Created(<< MOV(arg, Reg(v)), MOV(Reg(v), CallFrame(argNo)) >>,
                               Nothing, v + 1)

X86Handle(op, a, info, v) ==
    CASE op = "load"  -> handleLOAD(a[1], v)
      [] op = "store" -> handleSTORE(a[1], a[2], v)
      [] op = "gep"   -> handleGETELEMENTPTR(a[1], a[2], info, v)
      [] op = "add"   -> Commutative("ADD", a[1], a[2], v)
      [] op = "mul"   -> Commutative("IMUL", a[1], a[2], v)
      [] op = "sub"   -> handleSUB(a[1], a[2], v)
      [] op = "sdiv"  -> handleSDIV(a[1], a[2], v)
      [] op = "icmp"  -> handleICMP(a[1], a[2], info, v)
      [] op = "br"    -> IF Len(a) = 1 THEN UnconditionalBR(a[1], info, v)
                         ELSE ConditionalBR(a[1], a[2], a[3], info.next, v)
      [] op = "arg"   -> handleARG(info, a[1], v)
      [] op = "call"  -> handleCALL(a[1], info, v)
      [] op = "ret"   -> handleRET(a[1], v)
      [] op = "label" -> Created(<< Inst("LABEL", << a[1] >>) >>, Nothing, v)

\* What the create...Inst functions update.
X86UpdatedRegs(inst) ==
    FlattenSeq([n \in DOMAIN inst.operands |-> RegsOf(inst.operands[n])])
        \o (IF inst.opcode \in {"IDIV", "CQTO"} THEN << RAX, RDX >> ELSE << >>)

===============================================================================
