---------------------------- MODULE RISCVAsmBuilder ----------------------------
(***************************************************************************)
(* The instructions the builder creates for RISC-V: its handle...          *)
(* functions (src/codegen/asm/RISCV/RISCVAsmBuilder.cpp).  v is the next   *)
(* virtual register.                                                       *)
(*                                                                         *)
(* An instruction names registers only, so that an immediate, a label or   *)
(* the address of a stack object is first put in a new virtual register.   *)
(***************************************************************************)
EXTENDS RISCVTargetInfo

\* What an address in a register points to.
PointedTo(operand) == IF IsReg(operand) THEN Mem(0, operand.reg) ELSE operand

\* createADDIInst.  An immediate that does not fit is loaded first, and by then
\* the ranges of dst and src have been updated: LI notes that.
createADDI(dst, src, n, v) ==
    IF FitsImm(n) THEN Created(<< ADDI(dst, src, n) >>, dst, v)
    ELSE Created(<< [opcode |-> "LI", operands |-> << Reg(v), Imm(n) >>,
                     early |-> << dst.reg, src.reg >>],
                    Op3("ADD", dst, src, Reg(v)) >>, dst, v + 1)

\* storeMemoryAddressToReg
AddressTo(dst, operand, v) ==
    IF operand.kind = "object"
    THEN Created(<< Inst("GET_STACKOBJECT_ADDRESS", << dst, operand >>) >>, dst, v)
    ELSE createADDI(dst, Reg(operand.base), operand.disp, v)

\* The value of an operand in a register: where it is already, or in v.
InRegister(operand, v) ==
    CASE operand.kind = "reg"   -> Created(<< >>, operand, v)
      [] operand.kind = "imm"   -> Created(<< LI(Reg(v), operand.val) >>, Reg(v), v + 1)
      [] operand.kind = "label" -> Created(<< LA(Reg(v), operand) >>, Reg(v), v + 1)
      [] OTHER -> AddressTo(Reg(v), operand, v + 1)

RV_handleLOAD(from, v) == Created(<< LD(Reg(v), PointedTo(from)) >>, Reg(v), v + 1)

\* The instruction that puts a number or a register's value in dst.
MoveTo(dst, operand) == IF IsReg(operand) THEN MV(dst, operand) ELSE LI(dst, operand.val)

RV_handleRET(value, v) == Created(<< MoveTo(Reg(A0), value) >>, Nothing, v)

\* The incoming argument arg is in a register or in the caller's frame.
RV_handleSTOREArg(arg, to, v) ==
    Created(IF arg.no < NumArgRegs THEN << SD(Reg(ArgRegs[arg.no + 1]), to) >>
            ELSE << LD(Reg(v), StackObject(arg.no - NumArgRegs)), SD(Reg(v), to) >>,
            Nothing, v + 1)

RV_handleSTORE(value, to, v) ==
    IF value.kind = "arg" THEN RV_handleSTOREArg(value, to, v)
    ELSE LET from == InRegister(value, v)
         IN  Created(Append(from.insts, SD(from.result, PointedTo(to))), Nothing, from.virt)

\* The element at index of what begins at the register base.
ElementAt(insts, base, index, size, v) ==
    IF ~ IsReg(index) THEN Created(insts, Mem(size * index.val, base), v)
    ELSE Created(insts \o << LI(Reg(v), size),
                             Op3("MUL", Reg(v), Reg(v), index),
                             Op3("ADD", Reg(v), Reg(v), Reg(base)) >>,
                 Mem(0, v), v + 1)

\* What is in memory is addressed by a new register.
RV_handleGETELEMENTPTR(base, index, size, v) ==
    IF IsReg(base) THEN ElementAt(<< >>, base.reg, index, size, v)
    ELSE LET address == AddressTo(Reg(v), base, v + 1)
         IN  ElementAt(address.insts, v, index, size, address.virt)

\* The registers to compare are noted for the branch (CondRegsMap); at most one
\* operand is an immediate.
RV_handleICMP(l, r, pred, v) ==
    LET left  == InRegister(l, v)
        right == InRegister(r, left.virt)
    IN  Created(left.insts \o right.insts,
                [kind |-> "cond", pred |-> pred, regs |-> << left.result, right.result >>],
                right.virt)

TrueOpcode  == [EQ |-> "BEQ", NE |-> "BNE", SGT |-> "BGT"]
FalseOpcode == [EQ |-> "BNE", NE |-> "BEQ", SGT |-> "BLE"]

\* There is a branch for each outcome, whatever block comes next.
RV_handleBR(cond, label1, label2, v) ==
    Created(<< Inst(TrueOpcode[cond.pred], Append(cond.regs, label1)),
               Inst(FalseOpcode[cond.pred], Append(cond.regs, label2)) >>, Nothing, v)

\* Slip: every immediate on the left goes to the right.
ImmediateToTheRight(opcode, l, r, v) ==
    LET dst == Reg(v)
        Compute(src1, src2) == Op3(opcode, dst, src1, src2)
    IN  Created(CASE IsReg(l) /\ IsReg(r) -> << Compute(l, r) >>
                  [] IsReg(l) /\ ~ IsReg(r) -> << LI(dst, r.val), Compute(l, dst) >>
                  [] OTHER    -> << LI(dst, l.val), Compute(r, dst) >>,
                dst, v + 1)

\* ADD, SUB, MUL and DIV: the result is in a new register, which first holds the
\* immediate if there is one.  An immediate on the left of an ADD goes to the right.
Arithmetic(opcode, l, r, v) ==
    LET dst == Reg(v)
        Compute(src1, src2) == Op3(opcode, dst, src1, src2)
    IN  Created(CASE IsReg(l) /\ IsReg(r) -> << Compute(l, r) >>
                  [] IsReg(l) /\ ~ IsReg(r) -> << LI(dst, r.val), Compute(l, dst) >>
                  [] OTHER    -> << LI(dst, l.val), IF opcode = "ADD" THEN Compute(r, dst)
                                                    ELSE Compute(dst, r) >>,
                dst, v + 1)

RV_handleCALL(callee, numArgs, v) ==
    Created(<< Inst(IF callee.kind = "label" THEN "CALL" ELSE "JALR",
                    << callee, Imm(numArgs) >>),
               MV(Reg(v), Reg(A0)) >>, Reg(v), v + 1)

\* An argument goes to its register or, through a register, to the call frame.
RV_handleARG(argNo, arg, v) ==
    LET from == InRegister(arg, v) IN
    IF argNo >= NumArgRegs
    THEN Created(Append(from.insts,
                        SD(from.result, Mem(RegisterSize * (argNo - NumArgRegs), SP))),
                 Nothing, from.virt)
    ELSE IF arg.kind \in {"reg", "imm"}
    THEN Created(<< MoveTo(Reg(ArgRegs[argNo + 1]), arg) >>, Nothing, v)
    ELSE Created(Append(from.insts, MV(Reg(ArgRegs[argNo + 1]), from.result)),
                 Nothing, from.virt)

RISCVHandle(op, a, info, v) ==
    CASE op = "load"  -> RV_handleLOAD(a[1], v)
      [] op = "store" -> RV_handleSTORE(a[1], a[2], v)
      [] op = "gep"   -> RV_handleGETELEMENTPTR(a[1], a[2], info, v)
      [] op = "add"   -> Arithmetic("ADD", a[1], a[2], v)
      [] op = "mul"   -> Arithmetic("MUL", a[1], a[2], v)
      [] op = "sub"   -> Arithmetic("SUB", a[1], a[2], v)
      [] op = "sdiv"  -> Arithmetic("DIV", a[1], a[2], v)
      [] op = "icmp"  -> RV_handleICMP(a[1], a[2], info, v)
      [] op = "br"    -> IF Len(a) = 1 THEN Created(<< Inst("J", << a[1] >>) >>, Nothing, v)
                         ELSE RV_handleBR(a[1], a[2], a[3], v)
      [] op = "arg"   -> RV_handleARG(info, a[1], v)
      [] op = "call"  -> RV_handleCALL(a[1], info, v)
      [] op = "ret"   -> RV_handleRET(a[1], v)
      [] op = "label" -> Created(<< Inst("LABEL", << a[1] >>) >>, Nothing, v)

\* What the create...Inst functions update.
RISCVUpdatedRegs(inst) ==
    (IF "early" \in DOMAIN inst THEN inst.early ELSE << >>)
        \o FlattenSeq([n \in DOMAIN inst.operands |-> RegsOf(inst.operands[n])])

===============================================================================
