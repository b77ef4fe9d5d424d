--------------------------------- MODULE Machine -------------------------------
(***************************************************************************)
(* What the machines have in common that the generated code runs on, as    *)
(* far as that code uses them: registers, a stack of 8-byte words, the     *)
(* heap, and a calling convention.  None of this is the repository's; it   *)
(* is what its instructions mean.                                          *)
(***************************************************************************)
EXTENDS AsmCode, IR, Environment

CONSTANTS
    StackPointer,    \* getStackPointerRegister
    ResultRegister,  \* where a function leaves its value
    CallSP,          \* the stack pointer when the function is called
    StackDepth       \* the bytes the function may use below CallSP

ASSUME StackAssumption == CallSP \in Nat /\ CallSP % 16 = 0 /\ StackDepth \in Nat

ReturnAddress == 555

\* The stack of the function and what it may see of its caller's.
StackWords ==
    { CallSP + RegisterSize * n : n \in -(StackDepth \div RegisterSize) .. 6 }

\* What the caller has in a register or a word that is not an argument.
CallerReg(r) == IF r \in CallerSaved THEN Junk
                ELSE -10 - (CHOOSE n \in DOMAIN RegOrder : RegOrder[n] = r)
CallerWord(a) == IF a >= CallSP THEN -2000 - (a - CallSP) ELSE Junk

\* The machine when a function is called with arguments args.
Called(args) ==
    LET InReg(n)   == ArgRegs[n]
        InWord(n)  == CallSP + RegisterSize * (n - NumArgRegs - 1)
        stackArgs  == NumArgRegs + 1 .. Len(args)
        regArgs    == DOMAIN args \ stackArgs
    IN  [pc    |-> 1,
         regs  |-> [r \in PhysRegs |->
                      IF r = StackPointer THEN CallSP
                      ELSE IF \E n \in regArgs : InReg(n) = r
                           THEN args[CHOOSE n \in regArgs : InReg(n) = r]
                           ELSE CallerReg(r)],
         mem   |-> [a \in StackWords \cup Heap |->
                      IF a \in Heap THEN InitialHeap[a]
                      ELSE IF \E n \in stackArgs : InWord(n) = a
                           THEN args[CHOOSE n \in stackArgs : InWord(n) = a]
                           ELSE CallerWord(a)],
         flags |-> << Junk, Junk >>,
         calls |-> << >>,
         conventional |-> TRUE]

Address(m, operand) ==
    m.regs[operand.base] + operand.disp
        + IF operand.index = NoRegister THEN 0 ELSE m.regs[operand.index] * operand.scale

ValueOf(m, operand) ==
    CASE operand.kind = "reg"   -> m.regs[operand.reg]
      [] operand.kind = "imm"   -> operand.val
      [] operand.kind = "mem"   -> Read(m.mem, Address(m, operand))
      [] operand.kind = "label" -> AddressOf(operand.symbol)

\* The next instruction is due, with x in operand.
Put(m, operand, x) ==
    IF IsReg(operand) THEN [m EXCEPT !.pc = @ + 1, !.regs[operand.reg] = x]
    ELSE [m EXCEPT !.pc = @ + 1, !.mem = Write(@, Address(m, operand), x)]

\* The place of a label in code.
PlaceOfLabel(code, label) ==
    CHOOSE n \in DOMAIN code : code[n].opcode = "LABEL" /\ code[n].operands[1] = label

JumpIf(m, code, condition, label) ==
    [m EXCEPT !.pc = IF condition THEN PlaceOfLabel(code, label) ELSE @ + 1]

\* A call: the callee leaves its result, and junk in the other registers it need
\* not save, in its arguments and below them.  asked is what the convention asks
\* of this call besides an aligned stack.
Call(m, target, numArgs, asked) ==
    LET sp      == m.regs[StackPointer]
        args    == [n \in 1 .. numArgs |->
                       IF n <= NumArgRegs THEN m.regs[ArgRegs[n]]
                       ELSE Read(m.mem, sp + RegisterSize * (n - NumArgRegs - 1))]
        callee  == IF target.kind = "label" THEN target.symbol
                   ELSE FunctionAt(ValueOf(m, target))
        top     == sp + RegisterSize * (numArgs - NumArgRegs)
        outcome == Outcome(callee, args, m.mem, m.calls)
    IN  [m EXCEPT
            !.pc    = @ + 1,
            !.regs  = [r \in PhysRegs |->
                         IF r = ResultRegister THEN outcome.result
                         ELSE IF r \in CallerSaved THEN Junk ELSE @[r]],
            !.mem   = [a \in DOMAIN @ |->
                         IF a \in StackWords /\ (a < sp \/ a < top) THEN Junk
                         ELSE outcome.mem[a]],
            !.flags = << Junk, Junk >>,
            !.calls = Append(@, outcome.noted),
            !.conventional = @ /\ sp % 16 = 0 /\ asked]

===============================================================================
