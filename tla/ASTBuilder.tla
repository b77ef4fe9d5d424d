------------------------------- MODULE ASTBuilder ------------------------------
(***************************************************************************)
(* How the parse tree of a program becomes its abstract syntax tree        *)
(* (src/frontend/ASTBuilder.cpp; grammar/Remniw.g4 for the parse tree).    *)
(*                                                                         *)
(* The code keeps in static variables the node it has just built and,      *)
(* on the way down, whether the expression it visits next is an lvalue     *)
(* (exprIsLValue).  Here the first is the value of an operator and the     *)
(* second its parameter lvalue: the code sets the flag before each visit   *)
(* that the operator below gives a value of its own.                       *)
(***************************************************************************)
EXTENDS AST, SequencesExt

(* The parse tree: its nodes bear the names of the grammar's alternatives. *)

intType == [rule |-> "intType"]
pointerType(varType) == [rule |-> "pointerType", varType |-> varType]
arrayType(num, varType) == [rule |-> "arrayType", num |-> num, varType |-> varType]
functionType(params, ret) == [rule |-> "functionType", params |-> params, ret |-> ret]

Id(name) == [rule |-> "Id", name |-> name]
Num(val) == [rule |-> "Int", val |-> val]
NegNum(val) == [rule |-> "NegInt", val |-> val]
AddrOf(name) == [rule |-> "AddrOf", name |-> name]
Deref(expr) == [rule |-> "Deref", expr |-> expr]
ArraySubscript(base, index) == [rule |-> "ArraySubscript", base |-> base, index |-> index]
FuncCall(callee, args) == [rule |-> "FuncCall", callee |-> callee, args |-> args]
Sizeof(varType) == [rule |-> "Sizeof", varType |-> varType]
Input == [rule |-> "Input"]
Binary(op, left, right) == [rule |-> "Binary", op |-> op, left |-> left, right |-> right]
Paren(expr) == [rule |-> "Paren", expr |-> expr]

Assignment(lhs, rhs) == [rule |-> "Assignment", lhs |-> lhs, rhs |-> rhs]
Output(expr) == [rule |-> "Output", expr |-> expr]
Alloc(ptr, size) == [rule |-> "Alloc", ptr |-> ptr, size |-> size]
Dealloc(expr) == [rule |-> "Dealloc", expr |-> expr]
Empty == [rule |-> "Empty"]
Block(stmts) == [rule |-> "Block", stmts |-> stmts]
If(cond, then) == [rule |-> "If", cond |-> cond, stmts |-> << then >>]
IfElse(cond, then, els) == [rule |-> "If", cond |-> cond, stmts |-> << then, els >>]
While(cond, body) == [rule |-> "While", cond |-> cond, body |-> body]

\* params and vars are sequences of pairs of a name and a type.
Fun(name, params, ret, vars, stmts, return) ==
    [name |-> name, params |-> params, ret |-> ret, vars |-> vars, stmts |-> stmts,
     return |-> return]

-------------------------------------------------------------------------------
(* Types *)

RECURSIVE visitType(_)

visitFunctionType(ctx) ==
    FunctionType([n \in DOMAIN ctx.params |-> visitType(ctx.params[n])], visitType(ctx.ret))

visitType(ctx) ==
    CASE ctx.rule = "intType"      -> IntType
      [] ctx.rule = "pointerType"  -> getPointerTo(visitType(ctx.varType))
      [] ctx.rule = "arrayType"    -> ArrayType(visitType(ctx.varType), ctx.num)
      [] ctx.rule = "functionType" -> visitFunctionType(ctx)

-------------------------------------------------------------------------------
(* Scopes: the parameters and variables of CurrentFunction and the         *)
(* functions of the program, as declarations.                              *)

lookupDeclInScope(scope, name) ==
    LET decls == SelectSeq(scope.params \o scope.locals \o scope.functions,
                           LAMBDA decl : decl.name = name)
    IN  decls[1]

-------------------------------------------------------------------------------
(* Expressions *)

RECURSIVE visitExpr(_, _, _)

visitId(scope, ctx, lvalue) ==
    DeclRefExpr(lookupDeclInScope(scope, ctx.name), lvalue)

visitIntExpr(ctx) == NumberExpr(ctx.val)

visitNegIntExpr(ctx) == NumberExpr(-ctx.val)

visitBinaryExpr(scope, ctx) ==
    LET lhs == visitExpr(scope, ctx.left, FALSE)
        rhs == visitExpr(scope, ctx.right, FALSE)
    IN  BinaryExpr(lhs.type, ctx.op, lhs, rhs)

visitAddrOfExpr(scope, ctx) ==
    LET decl == lookupDeclInScope(scope, ctx.name)
    IN  AddrOfExpr(getPointerTo(decl.type), DeclRefExpr(decl, TRUE))

\* The pointer is an lvalue when the dereferenced expression is one.
visitDerefExpr(scope, ctx, lvalue) ==
    LET ptr == visitExpr(scope, ctx.expr, lvalue)
    IN  DerefExpr(getPointerPointeeType(ptr.type), lvalue, ptr)

visitArraySubscriptExpr(scope, ctx, lvalue) ==
    LET base     == visitExpr(scope, ctx.base, TRUE)
        selector == visitExpr(scope, ctx.index, FALSE)
    IN  ArraySubscriptExpr(getArrayElementType(base.type), lvalue, base, selector)

visitFuncCallExpr(scope, ctx) ==
    LET callee == visitExpr(scope, ctx.callee, FALSE)
        args   == [n \in DOMAIN ctx.args |-> visitExpr(scope, ctx.args[n], FALSE)]
    IN  FunctionCallExpr(getFunctionReturnType(callee.type), callee, args)

visitSizeofExpr(ctx) == SizeofExpr(visitType(ctx.varType))

visitExpr(scope, ctx, lvalue) ==
    CASE ctx.rule = "Id"             -> visitId(scope, ctx, lvalue)
      [] ctx.rule = "Int"            -> visitIntExpr(ctx)
      [] ctx.rule = "NegInt"         -> visitNegIntExpr(ctx)
      [] ctx.rule = "Binary"         -> visitBinaryExpr(scope, ctx)
      [] ctx.rule = "AddrOf"         -> visitAddrOfExpr(scope, ctx)
      [] ctx.rule = "Deref"          -> visitDerefExpr(scope, ctx, lvalue)
      [] ctx.rule = "ArraySubscript" -> visitArraySubscriptExpr(scope, ctx, lvalue)
      [] ctx.rule = "FuncCall"       -> visitFuncCallExpr(scope, ctx)
      [] ctx.rule = "Sizeof"         -> visitSizeofExpr(ctx)
      [] ctx.rule = "Input"          -> InputExpr
      [] ctx.rule = "Paren"          -> visitExpr(scope, ctx.expr, lvalue)

-------------------------------------------------------------------------------
(* Statements *)

RECURSIVE visitStmt(_, _)

visitOutputStmt(scope, ctx) == OutputStmt(visitExpr(scope, ctx.expr, FALSE))

visitAllocStmt(scope, ctx) ==
    AllocStmt(visitExpr(scope, ctx.ptr, TRUE), visitExpr(scope, ctx.size, FALSE))

visitDeallocStmt(scope, ctx) == DeallocStmt(visitExpr(scope, ctx.expr, FALSE))

visitBlockStmt(scope, ctx) ==
    BlockStmt([n \in DOMAIN ctx.stmts |-> visitStmt(scope, ctx.stmts[n])])

visitReturnStmt(scope, expr) == ReturnStmt(visitExpr(scope, expr, FALSE))

visitIfStmt(scope, ctx) ==
    LET stmts == [n \in DOMAIN ctx.stmts |-> visitStmt(scope, ctx.stmts[n])]
    IN  IfStmt(visitExpr(scope, ctx.cond, FALSE), Head(stmts), Tail(stmts))

visitWhileStmt(scope, ctx) ==
    WhileStmt(visitExpr(scope, ctx.cond, FALSE), visitStmt(scope, ctx.body))

visitAssignmentStmt(scope, ctx) ==
    AssignmentStmt(visitExpr(scope, ctx.lhs, TRUE), visitExpr(scope, ctx.rhs, FALSE))

visitStmt(scope, ctx) ==
    CASE ctx.rule = "Assignment" -> visitAssignmentStmt(scope, ctx)
      [] ctx.rule = "Output"     -> visitOutputStmt(scope, ctx)
      [] ctx.rule = "Alloc"      -> visitAllocStmt(scope, ctx)
      [] ctx.rule = "Dealloc"    -> visitDeallocStmt(scope, ctx)
      [] ctx.rule = "Empty"      -> EmptyStmt
      [] ctx.rule = "Block"      -> visitBlockStmt(scope, ctx)
      [] ctx.rule = "If"         -> visitIfStmt(scope, ctx)
      [] ctx.rule = "While"      -> visitWhileStmt(scope, ctx)

-------------------------------------------------------------------------------
(* Functions: first the prototypes of all, then their bodies.              *)

visitFunctionPrototype(ctx) ==
    FunctionDecl(ctx.name,
                 FunctionType([n \in DOMAIN ctx.params |-> visitType(ctx.params[n][2])],
                              visitType(ctx.ret)),
                 << >>, << >>, << >>, << >>)

visitFunctionBody(functions, ctx, function) ==
    LET params == [n \in DOMAIN ctx.params |->
                      VarDecl(ctx.params[n][1], visitType(ctx.params[n][2]), n)]
        locals == [n \in DOMAIN ctx.vars |->
                      VarDecl(ctx.vars[n][1], visitType(ctx.vars[n][2]),
                              Len(ctx.params) + n)]
        scope  == [params |-> params, locals |-> locals, functions |-> functions]
    IN  FunctionDecl(function.name, function.type, params, locals,
                     [n \in DOMAIN ctx.stmts |-> visitStmt(scope, ctx.stmts[n])],
                     visitReturnStmt(scope, ctx.return))

visitProgram(funs) ==
    LET functions == [n \in DOMAIN funs |-> visitFunctionPrototype(funs[n])]
    IN  [n \in DOMAIN funs |-> visitFunctionBody(functions, funs[n], functions[n])]

===============================================================================
