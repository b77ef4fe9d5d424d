----------------------------------- MODULE AST ---------------------------------
(***************************************************************************)
(* The abstract syntax tree of a program, and its types                    *)
(* (src/frontend/AST.h, Type.h, Type.cpp).                                 *)
(*                                                                         *)
(* A node is a record; its kind is the code's ASTNode::Kind.  The code     *)
(* keeps one object for each type (hash-consing), so that types are equal  *)
(* when they are the same record.  Source locations are left out.          *)
(***************************************************************************)
EXTENDS Integers, Sequences

IntType == [kind |-> "int"]
PointerType(elem) == [kind |-> "pointer", elem |-> elem]
ArrayType(elem, num) == [kind |-> "array", elem |-> elem, num |-> num]
FunctionType(params, ret) == [kind |-> "function", params |-> params, ret |-> ret]

\* The type variable of a node.
VarType(node) == [kind |-> "var", node |-> node]

getPointerTo(type) == PointerType(type)
getPointerPointeeType(type) == type.elem
getArrayElementType(type) == type.elem
getFunctionReturnType(type) == type.ret

-------------------------------------------------------------------------------
(* Declarations.  at tells the variables of a function apart: they are     *)
(* numbered, the parameters first.                                         *)

VarDecl(name, type, at) == [kind |-> "VarDecl", name |-> name, type |-> type, at |-> at]

FunctionDecl(name, type, params, locals, body, return) ==
    [kind |-> "FunctionDecl", name |-> name, type |-> type, params |-> params,
     locals |-> locals, body |-> body, return |-> return]

-------------------------------------------------------------------------------
(* Expressions *)

NumberExpr(val) ==
    [kind |-> "NumberExpr", type |-> IntType, lvalue |-> FALSE, val |-> val]

\* Of a declaration only what other code asks for is kept.
DeclRefExpr(decl, lvalue) ==
    [kind |-> "DeclRefExpr", type |-> decl.type, lvalue |-> lvalue,
     decl |-> IF decl.kind = "VarDecl" THEN decl
              ELSE [kind |-> "FunctionDecl", name |-> decl.name, type |-> decl.type]]

FunctionCallExpr(type, callee, args) ==
    [kind |-> "FunctionCallExpr", type |-> type, lvalue |-> FALSE,
     callee |-> callee, args |-> args]

SizeofExpr(dataType) ==
    [kind |-> "SizeofExpr", type |-> IntType, lvalue |-> FALSE, dataType |-> dataType]

AddrOfExpr(type, var) ==
    [kind |-> "AddrOfExpr", type |-> type, lvalue |-> FALSE, var |-> var]

DerefExpr(type, lvalue, ptr) ==
    [kind |-> "DerefExpr", type |-> type, lvalue |-> lvalue, ptr |-> ptr]

ArraySubscriptExpr(type, lvalue, base, selector) ==
    [kind |-> "ArraySubscriptExpr", type |-> type, lvalue |-> lvalue,
     base |-> base, selector |-> selector]

InputExpr == [kind |-> "InputExpr", type |-> IntType, lvalue |-> FALSE]

\* op is one of Mul, Div, Add, Sub, Gt, Eq.
BinaryExpr(type, op, lhs, rhs) ==
    [kind |-> "BinaryExpr", type |-> type, lvalue |-> FALSE, op |-> op,
     lhs |-> lhs, rhs |-> rhs]

-------------------------------------------------------------------------------
(* Statements *)

EmptyStmt == [kind |-> "EmptyStmt"]
OutputStmt(expr) == [kind |-> "OutputStmt", expr |-> expr]
AllocStmt(ptr, size) == [kind |-> "AllocStmt", ptr |-> ptr, size |-> size]
DeallocStmt(expr) == [kind |-> "DeallocStmt", expr |-> expr]
BlockStmt(stmts) == [kind |-> "BlockStmt", stmts |-> stmts]
ReturnStmt(expr) == [kind |-> "ReturnStmt", expr |-> expr]

\* els is the sequence of the statements after else: none, or one.
IfStmt(cond, then, els) ==
    [kind |-> "IfStmt", cond |-> cond, then |-> then, els |-> els]

WhileStmt(cond, body) == [kind |-> "WhileStmt", cond |-> cond, body |-> body]
AssignmentStmt(lhs, rhs) == [kind |-> "AssignmentStmt", lhs |-> lhs, rhs |-> rhs]

===============================================================================
