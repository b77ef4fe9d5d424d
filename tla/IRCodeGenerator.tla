---------------------------- MODULE IRCodeGenerator ----------------------------
(***************************************************************************)
(* How the abstract syntax tree of a program becomes intermediate code     *)
(* (src/codegen/ir/IRCodeGeneratorImpl.cpp).                               *)
(*                                                                         *)
(* A state g of the generator holds what it has emitted.  An operator for  *)
(* a node takes g to the state after the node; val is then the value the   *)
(* code's function returns.  The generator always emits at the end of the  *)
(* last block, except that createEntryBlockAlloca inserts at the beginning *)
(* of the first.  %nil is left out: the code returns no value for it.      *)
(***************************************************************************)
EXTENDS AST, IR

CONSTANT EnableAphoticShield   \* -enable-aphotic-shield

ASSUME OptionAssumption == EnableAphoticShield \in BOOLEAN

Generator == [allocas |-> << >>, insts |-> << >>, next |-> 1, blocks |-> 1,
              vars |-> << >>, val |-> IntValue(0)]

With(g, value) == [g EXCEPT !.val = value]

Emit(g, op, args, attr) ==
    [g EXCEPT !.insts = Append(@, Instruction(op, g.next, args, attr)),
              !.next  = @ + 1,
              !.val   = InstValue(g.next)]

\* Operations are folded when both operands are constants.
Operate(g, op, pred, l, r) ==
    IF IsConstant(l) /\ IsConstant(r) THEN With(g, Fold(op, pred, l.val, r.val))
    ELSE IF op = "icmp" THEN With(Emit(g, op, << l, r >>, pred), CondValue(g.next))
    ELSE Emit(g, op, << l, r >>, "none")

\* mapREMNIWTypeToLLVMType and getSizeOfREMNIWType: the size of a type in bytes;
\* a function type is that of a pointer.
RECURSIVE getSizeOfREMNIWType(_)
getSizeOfREMNIWType(type) ==
    IF type.kind = "array" THEN type.num * getSizeOfREMNIWType(type.elem) ELSE 8

createEntryBlockAlloca(g, size) ==
    [g EXCEPT !.allocas = << Instruction("alloca", g.next, << >>, size) >> \o @,
              !.next    = @ + 1,
              !.val     = InstValue(g.next)]

emitLibCall(g, name, operands) ==
    Emit(g, "call", << LabelValue(name) >> \o operands, "none")

emitPrintf(g) == emitLibCall(g, "printf", << LabelValue("%lli\n"), g.val >>)

\* The value is what scanf has been given, the address of the number.
emitScanf(g) ==
    With(emitLibCall(g, "scanf", << LabelValue("%lli"), g.val >>), g.val)

emitMalloc(g) ==
    emitLibCall(g, IF EnableAphoticShield THEN "as_alloc" ELSE "malloc", << g.val >>)
emitFree(g) ==
    emitLibCall(g, IF EnableAphoticShield THEN "as_dealloc" ELSE "free", << g.val >>)

-------------------------------------------------------------------------------
(* Expressions *)

RECURSIVE codegenExpr(_, _)

codegenDeclRefExpr(g, expr) ==
    IF expr.decl.kind = "FunctionDecl" THEN With(g, LabelValue(expr.decl.name))
    ELSE LET alloca == g.vars[expr.decl.at] IN
         IF expr.lvalue THEN With(g, alloca) ELSE Emit(g, "load", << alloca >>, "none")

\* The values of exprs, in order.
codegenArgs(g, exprs) ==
    FoldLeft(LAMBDA acc, expr :
                 LET next == codegenExpr(acc.g, expr)
                 IN  [g |-> next, values |-> Append(acc.values, next.val)],
             [g |-> g, values |-> << >>], exprs)

\* The instruction op on the values that codegenArgs has made.
EmitOn(args, op, attr) == Emit(args.g, op, args.values, attr)

\* The value at the address val.
Load(g) == Emit(g, "load", << g.val >>, "none")

codegenFunctionCallExpr(g, expr) ==
    EmitOn(codegenArgs(g, << expr.callee >> \o expr.args), "call", "none")

codegenSizeofExpr(g, expr) == With(g, IntValue(getSizeOfREMNIWType(expr.dataType)))

codegenAddrOfExpr(g, expr) == codegenDeclRefExpr(g, expr.var)

codegenDerefExpr(g, expr) == Load(codegenExpr(g, expr.ptr))

codegenArraySubscriptExpr(g, expr) ==
    LET element == EmitOn(codegenArgs(g, << expr.base, expr.selector >>), "gep",
                          getSizeOfREMNIWType(expr.base.type.elem))
    IN  IF expr.lvalue THEN element ELSE Load(element)

codegenInputExpr(g) == Load(emitScanf(createEntryBlockAlloca(g, 8)))

Opcode == [Mul |-> "mul", Div |-> "sdiv", Add |-> "add", Sub |-> "sub",
           Gt |-> "icmp", Eq |-> "icmp"]

Predicate == [Mul |-> "none", Div |-> "none", Add |-> "none", Sub |-> "none",
              Gt |-> "SGT", Eq |-> "EQ"]

codegenBinaryExpr(g, expr) ==
    LET Operation(args) == Operate(args.g, Opcode[expr.op], Predicate[expr.op],
                                   args.values[1], args.values[2])
    IN  Operation(codegenArgs(g, << expr.lhs, expr.rhs >>))

codegenExpr(g, expr) ==
    CASE expr.kind = "NumberExpr"         -> With(g, IntValue(expr.val))
      [] expr.kind = "DeclRefExpr"        -> codegenDeclRefExpr(g, expr)
      [] expr.kind = "FunctionCallExpr"   -> codegenFunctionCallExpr(g, expr)
      [] expr.kind = "SizeofExpr"         -> codegenSizeofExpr(g, expr)
      [] expr.kind = "AddrOfExpr"         -> codegenAddrOfExpr(g, expr)
      [] expr.kind = "DerefExpr"          -> codegenDerefExpr(g, expr)
      [] expr.kind = "ArraySubscriptExpr" -> codegenArraySubscriptExpr(g, expr)
      [] expr.kind = "InputExpr"          -> codegenInputExpr(g)
      [] expr.kind = "BinaryExpr"         -> codegenBinaryExpr(g, expr)

-------------------------------------------------------------------------------
(* Statements *)

RECURSIVE codegenStmt(_, _)

codegenOutputStmt(g, stmt) == emitPrintf(codegenExpr(g, stmt.expr))

\* val is stored at ptr.
Store(g, val, ptr) == Emit(g, "store", << val, ptr >>, "none")

codegenAllocStmt(g, stmt) ==
    LET Into(addr, ptr) == Store(addr, addr.val, ptr)
        Allocated(args) == Into(emitMalloc(args.g), args.values[1])
    IN  Allocated(codegenArgs(g, << stmt.ptr, stmt.size >>))

codegenDeallocStmt(g, stmt) == emitFree(codegenExpr(g, stmt.expr))

codegenBlockStmt(g, stmt) == FoldLeft(codegenStmt, g, stmt.stmts)

\* A block that has been created begins.
StartBlock(g, number) == Emit(g, "label", << BlockValue(number) >>, "none")

Br(g, number) == Emit(g, "br", << BlockValue(number) >>, "none")

CondBr(g, cond, then, els) ==
    Emit(g, "br", << cond, BlockValue(then), BlockValue(els) >>, "none")

\* A condition of type int is compared with 0.
CompareWithZero(g) == Operate(g, "icmp", "NE", g.val, IntValue(0))

codegenIfStmt(g, stmt) ==
    LET On(cond, thenBB, elseBB, mergeBB) ==
            LET branch == CondBr([cond EXCEPT !.blocks = @ + 3], cond.val, thenBB, elseBB)
                then   == Br(codegenStmt(StartBlock(branch, thenBB), stmt.then), mergeBB)
                els    == FoldLeft(codegenStmt, StartBlock(then, elseBB), stmt.els)
            IN  StartBlock(Br(els, mergeBB), mergeBB)
        From(cond) == On(cond, cond.blocks, cond.blocks + 1, cond.blocks + 2)
        Condition(c) == IF c.val.kind \in {"cond", "bool"} THEN c ELSE CompareWithZero(c)
    IN  From(Condition(codegenExpr(g, stmt.cond)))

\* What is no comparison is taken for an int in a loop.  (So is a comparison that
\* IRBuilder has folded, which fails an assertion of LLVM: no program here has one.)
LoopCondition(g) == IF g.val.kind = "cond" THEN g ELSE CompareWithZero(g)

\* The rest of a loop, after the condition.
Loop(cond, stmt, condBB) ==
    LET On(bodyBB, endBB) ==
            LET branch == CondBr([cond EXCEPT !.blocks = @ + 2], cond.val, bodyBB, endBB)
                body   == codegenStmt(StartBlock(branch, bodyBB), stmt.body)
            IN  StartBlock(Br(body, condBB), endBB)
    IN  On(cond.blocks, cond.blocks + 1)

\* g with a new block that begins here.
NewBlock(g) == StartBlock(Br([g EXCEPT !.blocks = @ + 1], g.blocks), g.blocks)

\* Slip: the condition is evaluated before the block the loop comes back to.
ConditionOutsideTheLoop(g, stmt) ==
    LET From(before) == Loop(With(NewBlock(before), before.val), stmt, before.blocks)
    IN  From(LoopCondition(codegenExpr(g, stmt.cond)))

codegenWhileStmt(g, stmt) ==
    Loop(LoopCondition(codegenExpr(NewBlock(g), stmt.cond)), stmt, g.blocks)

\* The value is computed before the place it goes to.
codegenAssignmentStmt(g, stmt) ==
    EmitOn(codegenArgs(g, << stmt.rhs, stmt.lhs >>), "store", "none")

codegenStmt(g, stmt) ==
    CASE stmt.kind = "EmptyStmt"      -> g
      [] stmt.kind = "OutputStmt"     -> codegenOutputStmt(g, stmt)
      [] stmt.kind = "AllocStmt"      -> codegenAllocStmt(g, stmt)
      [] stmt.kind = "DeallocStmt"    -> codegenDeallocStmt(g, stmt)
      [] stmt.kind = "BlockStmt"      -> codegenBlockStmt(g, stmt)
      [] stmt.kind = "IfStmt"         -> codegenIfStmt(g, stmt)
      [] stmt.kind = "WhileStmt"      -> codegenWhileStmt(g, stmt)
      [] stmt.kind = "AssignmentStmt" -> codegenAssignmentStmt(g, stmt)

-------------------------------------------------------------------------------
(* Functions *)

\* Each parameter has an alloca, and its argument is stored there.
codegenParam(g, param) ==
    LET Stored(alloca) ==
            [Store(alloca, ArgValue(param.at - 1), alloca.val)
                EXCEPT !.vars = Append(@, alloca.val)]
    IN  Stored(createEntryBlockAlloca(g, 8))

codegenLocal(g, var) ==
    [Emit(g, "alloca", << >>, getSizeOfREMNIWType(var.type))
        EXCEPT !.vars = Append(@, InstValue(g.next))]

\* In main a truth value that is returned is extended to an integer.
ExtendedInMain(g, function) ==
    CASE function.name = "main" /\ g.val.kind = "cond" ->
            Emit(g, "sext", << g.val >>, "none")
      [] function.name = "main" /\ g.val.kind = "bool" ->
            With(g, IntValue(IF g.val.val THEN -1 ELSE 0))
      [] OTHER -> g

\* The function with what g has emitted, and a return of its value.
Finished(g, name, params, ret) ==
    Function(name, params,
             << Instruction("label", 0, << BlockValue(0) >>, "none") >> \o g.allocas
                 \o Append(g.insts, Instruction("ret", g.next, ret, "none")))

\* codegenFunction, before the body and after it.
Entry(function) ==
    FoldLeft(codegenLocal, FoldLeft(codegenParam, Generator, function.params),
             function.locals)

Returned(g, function) ==
    LET Return(ret) == Finished(ret, function.name, Len(function.params), << ret.val >>)
    IN  Return(ExtendedInMain(codegenExpr(g, function.return.expr), function))

\* The constructor that initialises the allocator before main.
createAphoticShieldCtorAndInitFunctions ==
    Finished(emitLibCall(Generator, "as_init", << >>), "as_module_ctor", 0, << >>)

===============================================================================
