---------------------------- MODULE TypeConstraints ----------------------------
(***************************************************************************)
(* The constraints between types that a program gives rise to              *)
(* (src/semantic/TypeAnalysis.h, its actAfterVisit... functions), in the   *)
(* order in which the nodes of the syntax tree are visited                 *)
(* (src/frontend/RecursiveASTVisitor.h).  A constraint is a pair of types. *)
(* A node is known by its path: the numbers of the children that lead to   *)
(* it from the program.                                                    *)
(***************************************************************************)
EXTENDS AST, SequencesExt

-------------------------------------------------------------------------------
(* RecursiveASTVisitor *)

Program(functions) == [kind |-> "Program", functions |-> functions]

\* The children of a node, in the order of the visits.
Children(node) ==
    CASE node.kind = "Program"            -> node.functions
      [] node.kind = "FunctionDecl"       ->
            node.params \o node.locals \o node.body \o << node.return >>
      [] node.kind = "FunctionCallExpr"   -> << node.callee >> \o node.args
      [] node.kind = "AddrOfExpr"         -> << node.var >>
      [] node.kind = "DerefExpr"          -> << node.ptr >>
      [] node.kind = "ArraySubscriptExpr" -> << node.base, node.selector >>
      [] node.kind \in {"BinaryExpr", "AssignmentStmt"} -> << node.lhs, node.rhs >>
      [] node.kind \in {"OutputStmt", "DeallocStmt", "ReturnStmt"} -> << node.expr >>
      [] node.kind = "AllocStmt"          -> << node.ptr, node.size >>
      [] node.kind = "BlockStmt"          -> node.stmts
      [] node.kind = "IfStmt"             -> << node.cond, node.then >> \o node.els
      [] node.kind = "WhileStmt"          -> << node.cond, node.body >>
      [] OTHER                            -> << >>

\* The nodes in the order in which actAfterVisit... is called for them.
RECURSIVE AfterVisits(_, _)
AfterVisits(node, path) ==
    FlattenSeq([n \in DOMAIN Children(node) |->
                   AfterVisits(Children(node)[n], Append(path, n))])
        \o << [node |-> node, path |-> path] >>

-------------------------------------------------------------------------------
(* TypeAnalysis *)

\* ASTNodeToType: what is declared has a type, another node a type variable.
ASTNodeToType(node, path) ==
    CASE node.kind = "DeclRefExpr" -> node.decl.type
      [] node.kind \in {"VarDecl", "FunctionDecl"} -> node.type
      [] OTHER -> VarType(path)

\* X(X1,...,Xn){ ...return E; }: [[X]] = ([[X1]],...,[[Xn]])->[[E]]; in main all
\* of [[Xi]] and [[E]] are int.
actAfterVisitFunction(function, path) ==
    LET params == [n \in DOMAIN function.params |-> function.params[n].type]
        result == ASTNodeToType(function.return.expr,
                                path \o << Len(Children(function)), 1 >>)
    IN  (IF function.name # "main" THEN << >>
         ELSE [n \in DOMAIN params |-> << params[n], IntType >>]
                  \o << << result, IntType >> >>)
            \o << << function.type, FunctionType(params, result) >> >>

\* E1 op E2: [[E1]] = [[E2]] = [[E1 op E2]] = int
\* E1 == E2: [[E1]] = [[E2]] and [[E1 == E2]] = int
actAfterVisitBinaryExpr(op, self, lhs, rhs) ==
    << << self, IntType >> >>
        \o IF op = "Eq" THEN << << lhs, rhs >> >>
           ELSE << << lhs, IntType >>, << rhs, IntType >> >>

\* The constraints for one node.
ConstraintsFor(node, path) ==
    LET self     == ASTNodeToType(node, path)
        child(n) == ASTNodeToType(Children(node)[n], Append(path, n))
        args     == [n \in 1 .. Len(Children(node)) - 1 |-> child(n + 1)]
    IN  CASE node.kind = "FunctionDecl" -> actAfterVisitFunction(node, path)
          [] node.kind = "BinaryExpr"   ->
                actAfterVisitBinaryExpr(node.op, self, child(1), child(2))
          [] node.kind = "AssignmentStmt" -> << << child(1), child(2) >> >>
          [] node.kind \in {"OutputStmt", "IfStmt", "WhileStmt"} ->
                << << child(1), IntType >> >>
          [] node.kind \in {"NumberExpr", "InputExpr"} -> << << self, IntType >> >>
          [] node.kind = "FunctionCallExpr" ->
                << << child(1), FunctionType(args, self) >> >>
          [] node.kind = "AddrOfExpr" -> << << self, getPointerTo(child(1)) >> >>
          [] node.kind = "DerefExpr"  -> << << child(1), getPointerTo(self) >> >>
          [] node.kind = "ArraySubscriptExpr" ->
                << << child(2), IntType >>, << child(1), getPointerTo(self) >> >>
          [] OTHER -> << >>

\* Constraints, after visitProgram.
ConstraintsOf(functions) ==
    LET visits == AfterVisits(Program(functions), << >>)
    IN  FlattenSeq([n \in DOMAIN visits |->
                       ConstraintsFor(visits[n].node, visits[n].path)])

===============================================================================
