----------------------------- MODULE SourcePrograms ----------------------------
(***************************************************************************)
(* Small programs, as parse trees, and what the front end makes of them.   *)
(***************************************************************************)
EXTENDS ASTBuilder, Environment

SomeSymbols == << "%lli\n", "%lli", "as_init", "nested", "quotients", "apply", "two",
                  "fill", "four" >>

-------------------------------------------------------------------------------
(* What the code generator is given *)

\* The arguments a function is called with: numbers, the first word of the heap,
\* or a function.
ArgumentsOf(decl) ==
    { [n \in DOMAIN decl.params |->
          CASE decl.params[n].type.kind = "int"      -> numbers[n]
            [] decl.params[n].type.kind = "pointer"  -> HeapBase
            [] decl.params[n].type.kind = "function" -> AddressOf("two")]
      : numbers \in { << 47, 5, 3, 1 >>, << -47, 2, -9, 0 >> } }

-------------------------------------------------------------------------------
(* Abbreviations *)

int == intType
ptr == pointerType(int)

Plus(e, f)    == Binary("Add", e, f)
Minus(e, f)   == Binary("Sub", e, f)
Times(e, f)   == Binary("Mul", e, f)
Over(e, f)    == Binary("Div", e, f)
Greater(e, f) == Binary("Gt", e, f)
Equal(e, f)   == Binary("Eq", e, f)

Call_(name, args) == FuncCall(Id(name), args)
Set(name, e)      == Assignment(Id(name), e)
Ints(names)       == [n \in DOMAIN names |-> << names[n], int >>]

\* A variable nobody uses, the lowest in the frame.
pad == << << "pad", arrayType(6, int) >> >>

a == Id("a")
b == Id("b")
c == Id("c")
i == Id("i")
p == Id("p")
x == Id("x")

Cell(row, column) == ArraySubscript(ArraySubscript(c, row), column)

-------------------------------------------------------------------------------
(* Functions *)

\* Four values wait at once.
nested ==
    Fun("nested", Ints(<< "a", "b", "c" >>), int, pad, << >>,
        Minus(a, Times(b, Plus(c, Minus(a, b)))))

\* Quotients, one at a time.
quotients ==
    Fun("quotients", Ints(<< "a", "b" >>), int, << << "c", int >> >> \o pad,
        << Set("c", Minus(Over(a, b), Num(3))) >>,
        Plus(Num(2), Over(Minus(Num(100), c), Num(7))))

two == Fun("two", Ints(<< "a", "b" >>), int, pad, << >>, Minus(a, Times(Num(3), b)))

\* Calls whose arguments are calls; values wait across them.
calls ==
    Fun("calls", Ints(<< "a", "b" >>), int, pad, << >>,
        Minus(a, Call_("nested", << Times(a, Num(2)), Num(4),
                                    Minus(b, Call_("two", << b, a >>)) >>)))

\* Functions as values.
apply ==
    Fun("apply", << << "p", functionType(<< int, int >>, int) >>, << "a", int >> >>, int,
        << << "x", functionType(<< int, int >>, int) >> >> \o pad,
        << Set("x", Id("two")) >>,
        Plus(FuncCall(x, << a, Num(1) >>), FuncCall(p, << Num(4), a >>)))

\* A loop, branches and input.
loop ==
    Fun("main", << >>, int, Ints(<< "a", "b" >>),
        << Set("a", Input), Set("b", Num(0)),
           While(a, Block(<<
               If(Greater(a, Num(1)), Set("b", Plus(b, a))),
               IfElse(Equal(Num(2), a), Output(b), Empty),
               Set("a", Minus(a, Num(1))) >>)),
           Output(b) >>,
        Num(0))

\* Pointers and the heap.
memory ==
    Fun("memory", << << "p", ptr >>, << "a", int >> >>, int,
        << << "x", int >>, << "q", ptr >> >> \o pad,
        << Set("x", Num(7)), Set("q", AddrOf("x")),
           Assignment(Deref(Id("q")), Plus(Deref(Id("q")), Deref(p))),
           Assignment(Deref(p), x),
           Alloc(Id("q"), Sizeof(int)), Assignment(Deref(Id("q")), Num(5)),
           Output(Deref(Id("q"))), Dealloc(Id("q")) >>,
        Call_("fill", << AddrOf("x"), a >>))

\* Arrays of arrays, with arguments that come on the stack.
rows ==
    Fun("rows", Ints(<< "a", "b", "x", "i" >>), int,
        << << "c", arrayType(2, arrayType(2, int)) >> >> \o pad,
        << Assignment(Cell(Num(0), i), a),
           Assignment(Cell(Num(1), Num(1)), Plus(Cell(Num(0), i), x)) >>,
        Minus(Cell(Num(1), Num(1)), b))

fill ==
    Fun("fill", << << "p", ptr >>, << "a", int >> >>, int, pad,
        << Assignment(Deref(p), a) >>, a)

\* What only RISC-V compiles: two quotients at a time, a condition known at
\* compile time, elements of a table at variable rows, in a frame out of an
\* immediate's reach, and addresses that go to the call frame.
sumOfQuotients ==
    Fun("sumOfQuotients", Ints(<< "a", "b" >>), int, pad,
        << IfElse(Num(0), Set("a", Num(1)), Set("b", Plus(b, Num(1)))) >>,
        Plus(Over(a, b), Over(b, a)))

tables ==
    Fun("tables", Ints(<< "a", "i" >>), int,
        << << "x", int >>, << "c", arrayType(2, arrayType(8, int)) >> >> \o pad,
        << If(Greater(i, Num(1)), Set("i", Num(1))),
           Set("x", Minus(Num(7), a)),
           Assignment(Cell(i, Num(7)), x),
           Assignment(Cell(Num(1), i), Plus(Cell(i, Num(7)), a)) >>,
        Call_("four", << Cell(Num(1), i), Cell(i, Num(7)), AddrOf("x"), Id("two") >>))

four ==
    Fun("four", << << "a", int >>, << "i", int >>, << "p", ptr >>,
                   << "x", functionType(<< int, int >>, int) >> >>, int, pad, << >>,
        Plus(FuncCall(x, << a, i >>), Deref(p)))

===============================================================================
