------------------------------ MODULE SourceMeaning ----------------------------
(***************************************************************************)
(* What a function of a source program means: the calls it makes, with     *)
(* their arguments, and the value it returns.  An interpreter of the       *)
(* syntax tree that knows nothing of how the tree is compiled; it tells    *)
(* places from values by where an expression stands, not by the tree's     *)
(* lvalue flags.                                                           *)
(*                                                                         *)
(* A state s has the memory, the calls so far and the last value.          *)
(***************************************************************************)
EXTENDS AST, IR, Environment

VariableBase == 3000000

RECURSIVE SizeOf(_)
SizeOf(type) == IF type.kind = "array" THEN type.num * SizeOf(type.elem) ELSE 8

\* Where the variable with number at is.
PlaceOf(f, at) ==
    FoldLeft(LAMBDA place, var : place + IF var.at < at THEN SizeOf(var.type) ELSE 0,
             VariableBase, f.params \o f.locals)

VariableWords(f) ==
    { a \in VariableBase .. PlaceOf(f, Len(f.params \o f.locals) + 1) - 1 : a % 8 = 0 }

ValueIs(s, x) == [s EXCEPT !.val = x]

CallOf(s, callee, args) ==
    LET After(outcome) == [s EXCEPT !.mem   = outcome.mem,
                                    !.calls = Append(@, outcome.noted),
                                    !.val   = outcome.result]
    IN  After(Outcome(callee, args, s.mem, s.calls))

\* The last value is an address: the value there, and x written there.
ReadAt(s) == ValueIs(s, Read(s.mem, s.val))
WriteAt(s, x) == [s EXCEPT !.mem = Write(@, s.val, x)]

Applied(op, x, y) ==
    CASE op = "Mul" -> x * y
      [] op = "Div" -> Quotient(x, y)
      [] op = "Add" -> x + y
      [] op = "Sub" -> x - y
      [] op = "Gt"  -> IF x > y THEN 1 ELSE 0
      [] op = "Eq"  -> IF x = y THEN 1 ELSE 0

RECURSIVE Value(_, _, _)

Values(f, s, exprs) ==
    FoldLeft(LAMBDA acc, expr : LET next == Value(f, acc.s, expr)
                                IN  [s |-> next, values |-> Append(acc.values, next.val)],
             [s |-> s, values |-> << >>], exprs)

\* The address of the place that expr stands for.
RECURSIVE Place(_, _, _)
Place(f, s, expr) ==
    CASE expr.kind = "DeclRefExpr" -> ValueIs(s, PlaceOf(f, expr.decl.at))
      [] expr.kind = "DerefExpr"   -> Value(f, s, expr.ptr)
      [] expr.kind = "ArraySubscriptExpr" ->
            LET Element(at, selector) ==
                    ValueIs(selector, at + selector.val * SizeOf(expr.base.type.elem))
                From(base) == Element(base.val, Value(f, base, expr.selector))
            IN  From(Place(f, s, expr.base))

Value(f, s, expr) ==
    CASE expr.kind = "NumberExpr" -> ValueIs(s, expr.val)
      [] expr.kind = "SizeofExpr" -> ValueIs(s, SizeOf(expr.dataType))
      [] expr.kind = "AddrOfExpr" -> Place(f, s, expr.var)
      [] expr.kind = "DeclRefExpr" /\ expr.decl.kind = "FunctionDecl" ->
            ValueIs(s, AddressOf(expr.decl.name))
      [] (\/ expr.kind \in {"DerefExpr", "ArraySubscriptExpr"}
          \/ expr.kind = "DeclRefExpr" /\ expr.decl.kind = "VarDecl") ->
            ReadAt(Place(f, s, expr))
      [] expr.kind = "InputExpr" ->
            ValueIs(CallOf(s, "scanf", << AddressOf("%lli") >>), 3 - Len(s.calls))
      [] expr.kind = "BinaryExpr" ->
            LET Result(both) ==
                    ValueIs(both.s, Applied(expr.op, both.values[1], both.values[2]))
            IN  Result(Values(f, s, << expr.lhs, expr.rhs >>))
      [] expr.kind = "FunctionCallExpr" ->
            LET Called(all) ==
                    CallOf(all.s, FunctionAt(Head(all.values)), Tail(all.values))
            IN  Called(Values(f, s, << expr.callee >> \o expr.args))

\* What stmt does.  alloc and free are the names of the allocator's functions.
RECURSIVE Done(_, _, _, _, _)
Done(f, alloc, free, s, stmt) ==
    CASE stmt.kind = "EmptyStmt" -> s
      [] stmt.kind = "OutputStmt" ->
            LET Printed(t) == CallOf(t, "printf", << AddressOf("%lli\n"), t.val >>)
            IN  Printed(Value(f, s, stmt.expr))
      [] stmt.kind = "AllocStmt" ->
            LET Into(at, block) == WriteAt(ValueIs(block, at), block.val)
                Sized(at, t) == Into(at, CallOf(t, alloc, << t.val >>))
                From(place)  == Sized(place.val, Value(f, place, stmt.size))
            IN  From(Place(f, s, stmt.ptr))
      [] stmt.kind = "DeallocStmt" ->
            LET Freed(t) == CallOf(t, free, << t.val >>) IN Freed(Value(f, s, stmt.expr))
      [] stmt.kind = "BlockStmt" ->
            FoldLeft(LAMBDA t, inner : Done(f, alloc, free, t, inner), s, stmt.stmts)
      [] stmt.kind = "IfStmt" ->
            LET Branch(cond) == IF cond.val # 0 THEN << stmt.then >> ELSE stmt.els
                From(cond)   == FoldLeft(LAMBDA t, inner : Done(f, alloc, free, t, inner),
                                         cond, Branch(cond))
            IN  From(Value(f, s, stmt.cond))
      [] stmt.kind = "WhileStmt" ->
            LET From(cond) == IF cond.val = 0 THEN cond
                              ELSE Done(f, alloc, free,
                                        Done(f, alloc, free, cond, stmt.body), stmt)
            IN  From(Value(f, s, stmt.cond))
      [] stmt.kind = "AssignmentStmt" ->
            LET From(value) == WriteAt(Place(f, value, stmt.lhs), value.val)
            IN  From(Value(f, s, stmt.rhs))

\* The meaning of function f called with args.
Meaning(f, args, alloc, free) ==
    LET start == [val   |-> Junk,
                  calls |-> << >>,
                  mem   |-> [a \in Heap \cup VariableWords(f) |->
                               IF a \in Heap THEN InitialHeap[a]
                               ELSE IF \E n \in DOMAIN args : a = PlaceOf(f, n)
                               THEN args[CHOOSE n \in DOMAIN args : a = PlaceOf(f, n)]
                               ELSE Junk]]
        Ended(s)  == [calls |-> s.calls, result |-> s.val]
    IN  Ended(Value(f, Done(f, alloc, free, start, BlockStmt(f.body)), f.return.expr))

\* The constructor has no source; it does what a call of as_init does.
ConstructorDecl ==
    LET type == FunctionType(<< >>, IntType)
        init == [kind |-> "FunctionDecl", name |-> "as_init", type |-> type]
    IN  FunctionDecl("as_module_ctor", type, << >>, << >>, << >>,
                     ReturnStmt(FunctionCallExpr(IntType, DeclRefExpr(init, FALSE), << >>)))

===============================================================================
