------------------------------ MODULE TypeAnalysis -----------------------------
(***************************************************************************)
(* The type analysis of a program: its constraints, solved by unification  *)
(* (src/semantic/TypeAnalysis.h, TypeAnalysis.cpp).                        *)
(***************************************************************************)
EXTENDS TypeConstraints, Unification, TLC

CONSTANT Programs    \* a sequence of programs, which are sequences of functions

\* What solve gets from the visit of each program.
SystemsOf(programs) == [n \in DOMAIN programs |-> ConstraintsOf(programs[n])]

ASSUME SystemsAssumption == Systems = SystemsOf(Programs)

\* A type and its parts.
RECURSIVE WithParts(_)
WithParts(type) ==
    {type} \cup
        CASE IsPointerLike(type)     -> WithParts(type.elem)
          [] type.kind = "function"  ->
                UNION { WithParts(type.params[n]) : n \in DOMAIN type.params }
                    \cup WithParts(type.ret)
          [] OTHER                   -> {}

TypesOf(system) ==
    UNION { WithParts(system[m][1]) \cup WithParts(system[m][2]) : m \in DOMAIN system }

\* The theorems about Unification hold for the types of the programs.
ASSUME TypesAssumption ==
    \A Types \in { UNION { TypesOf(Systems[n]) : n \in DOMAIN Systems } } : SystemsAreOver(Types)

-------------------------------------------------------------------------------
(* Well typed programs *)

\* The type an expression has by the declarations of what it names.
DeclaredType(expr) == IF expr.kind = "BinaryExpr" THEN IntType ELSE expr.type

\* What a node asks of the declared types of its children.
NodeIsWellTyped(node) ==
    LET child(n) == DeclaredType(Children(node)[n]) IN
    CASE node.kind = "FunctionDecl" ->
            /\ node.type.ret = DeclaredType(node.return.expr)
            /\ node.name = "main" => \A n \in DOMAIN node.params : node.params[n].type = IntType
      [] node.kind = "FunctionCallExpr" ->
            child(1) = FunctionType([n \in DOMAIN node.args |-> DeclaredType(node.args[n])],
                                    node.type)
      [] node.kind \in {"OutputStmt", "IfStmt", "WhileStmt"} -> child(1) = IntType
      [] node.kind = "ArraySubscriptExpr" -> IsPointerLike(child(1)) /\ child(2) = IntType
      [] node.kind = "DerefExpr" -> child(1).kind = "pointer"
      [] node.kind = "AssignmentStmt" -> child(1) = child(2)
      [] node.kind = "BinaryExpr" ->
            child(1) = child(2) /\ (node.op # "Eq" => child(1) = IntType)
      [] OTHER -> TRUE

WellTyped(functions) ==
    \A visits \in { AfterVisits(Program(functions), << >>) } :
        \A n \in DOMAIN visits : NodeIsWellTyped(visits[n].node)

\* The node that a path leads to.
NodeAt(root, path) == FoldLeft(LAMBDA node, n : Children(node)[n], root, path)

\* A type with the declared types of nodes in the place of their variables.  A pointer
\* to what a subscript selects stands for the type of the subscript's base, which may
\* be an array.
RECURSIVE Declared(_, _)
Declared(type, root) ==
    CASE IsVar(type) -> DeclaredType(NodeAt(root, type.node))
      [] type.kind = "pointer" ->
            IF IsVar(type.elem) /\ NodeAt(root, type.elem.node).kind = "ArraySubscriptExpr"
            THEN DeclaredType(NodeAt(root, type.elem.node).base)
            ELSE PointerType(Declared(type.elem, root))
      [] type.kind = "array" -> ArrayType(Declared(type.elem, root), type.num)
      [] type.kind = "function" ->
            FunctionType([n \in DOMAIN type.params |-> Declared(type.params[n], root)],
                         Declared(type.ret, root))
      [] OTHER -> type

\* The declared types solve the constraints of the programs that are well typed by
\* their declarations.
SolutionsOf(programs) ==
    [n \in { n \in DOMAIN programs : WellTyped(programs[n]) } |->
        [type \in TypesOf(ConstraintsOf(programs[n])) |->
            Declared(type, Program(programs[n]))]]

ASSUME WellTypedAssumption == Solutions = SolutionsOf(Programs)

===============================================================================
