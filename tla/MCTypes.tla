--------------------------------- MODULE MCTypes --------------------------------
(***************************************************************************)
(* TypeAnalysis, for TLC: the small programs that are compiled elsewhere,  *)
(* and main functions of two assignments between variables of many types,  *)
(* most of which are ill typed.                                            *)
(***************************************************************************)
EXTENDS TypeAnalysis, SourcePrograms

Inc == Fun("inc", << << "a", int >> >>, int, << >>, << >>, Plus(a, Num(1)))

Variables ==
    << << "a", int >>, << "p", ptr >>, << "q", pointerType(ptr) >>,
       << "c", arrayType(2, int) >>, << "d", arrayType(3, int) >>,
       << "x", functionType(<< int >>, int) >> >>

Places == << a, p, Id("q"), x >>

Expressions ==
    Places \o << c, Id("d"), Id("inc"), Id("main"), AddrOf("a"), AddrOf("p"),
                 ArraySubscript(Id("d"), p), FuncCall(x, << a >>),
                 FuncCall(x, << a, a >>), Equal(p, Id("q")) >>

FewAssignments ==
    << Assignment(p, c), Assignment(p, AddrOf("p")),
       Assignment(ArraySubscript(c, a), ArraySubscript(Id("d"), a)),
       Assignment(x, Id("inc")) >>

\* f(v, w) for all v of one sequence and w of another.
ForAll(f(_, _), vs, ws) ==
    FlattenSeq([m \in DOMAIN vs |-> [n \in DOMAIN ws |-> f(vs[m], ws[n])]])

Main(first, second) ==
    visitProgram(<< Inc, Fun("main", << >>, int, Variables, << first, second >>, Num(0)) >>)

SomePrograms ==
    << visitProgram(<< nested, quotients, two, calls, apply >>),
       visitProgram(<< memory, fill >>),
       visitProgram(<< tables, four, two >>),
       visitProgram(<< loop >>) >>
    \o ForAll(Main, FewAssignments, ForAll(Assignment, Places, Expressions))

SomeSystems == SystemsOf(SomePrograms)
SomeSolutions == SolutionsOf(SomePrograms)

===============================================================================
