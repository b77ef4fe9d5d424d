------------------------------- MODULE Unification ------------------------------
(***************************************************************************)
(* Constraints between types, solved one after the other by unification    *)
(* over a union-find structure (src/semantic/TypeAnalysis.h, UnionFind;    *)
(* src/semantic/TypeAnalysis.cpp, unify and solve).                        *)
(*                                                                         *)
(* Unification calls itself on the parts of two types and ignores what     *)
(* those calls return, so that the calls that are still to be made are     *)
(* all there is to its recursion.                                          *)
(***************************************************************************)
EXTENDS Integers, Sequences

CONSTANTS
    Systems,         \* a sequence of systems, which are sequences of constraints
    Solutions        \* for some of them, a value for each type that solves the system

VARIABLES
    program,         \* whose system it is
    Constraints,     \* those not yet solved
    Parent,          \* the union-find structure
    pending,         \* the calls of unify still to be made inside the current one
    result           \* of solve: "none" yet, "true" or "false"

vars == << program, Constraints, Parent, pending, result >>

-------------------------------------------------------------------------------
(* UnionFind *)

\* A structure is a function from the types it has met to their parents; a type that
\* is its own parent represents its class.

\* Slip: the check that the type is new is missing.
AlwaysNew(parent, type) ==
    [t \in DOMAIN parent \cup {type} |-> IF t = type THEN type ELSE parent[t]]

\* A type met for the first time is a class of its own.
makeSet(parent, type) ==
    [t \in DOMAIN parent \cup {type} |-> IF t \in DOMAIN parent THEN parent[t] ELSE type]

\* The representative of each type's class: its parent's parent, and so on.
Representatives(parent) ==
    LET rep[t \in DOMAIN parent] == IF parent[t] = t THEN t ELSE rep[parent[t]]
    IN  rep

Representative(parent, type) == Representatives(parent)[type]

\* The types from each type to the representative of its class, both included.
Paths(parent) ==
    LET path[t \in DOMAIN parent] ==
            {t} \cup IF parent[t] = t THEN {} ELSE path[parent[t]]
    IN  path

\* find makes the path from the type to the representative shorter: all of it
\* points there.
Found(parent, type) ==
    LET known == makeSet(parent, type)
        path  == Paths(known)[type]
        root  == Representative(known, type)
    IN  [t \in DOMAIN known |-> IF t \in path THEN root ELSE known[t]]

\* unionTypes: the class of type1 joins that of type2.
unionTypes(parent, type1, type2) ==
    LET found == Found(Found(parent, type1), type2)
    IN  [found EXCEPT ![Representative(found, type1)] = Representative(found, type2)]

-------------------------------------------------------------------------------
(* unify *)

IsVar(type) == type.kind = "var"
IsPointerLike(type) == type.kind \in {"pointer", "array"}

\* Slip: an array is not joined with a pointer.
SameConstructor(type1, type2) ==
    \/ IsVar(type1) \/ IsVar(type2)
    \/ IsPointerLike(type1) /\ type1.kind = type2.kind
    \/ /\ type1.kind = "function" /\ type2.kind = "function"
       /\ Len(type1.params) = Len(type2.params)

\* Whether the classes of two representatives that differ can be joined.
CanJoin(type1, type2) ==
    \/ IsVar(type1) \/ IsVar(type2)
    \/ IsPointerLike(type1) /\ IsPointerLike(type2)
    \/ /\ type1.kind = "function" /\ type2.kind = "function"
       /\ Len(type1.params) = Len(type2.params)

\* Arrays of different lengths are joined, and then rejected.
DifferentLengths(type1, type2) ==
    type1.kind = "array" /\ type2.kind = "array" /\ type1.num # type2.num

\* Slip: a class with a proper type may be represented by a variable.
JoinedInOrder(parent, type1, type2) == unionTypes(parent, type1, type2)

\* A variable joins the other class.
Joined(parent, type1, type2) ==
    IF IsVar(type2) /\ ~ IsVar(type1) THEN unionTypes(parent, type2, type1)
    ELSE unionTypes(parent, type1, type2)

\* Slip: the results of two functions are not compared.
ResultsForgotten(type1, type2) ==
    IF IsVar(type1) \/ IsVar(type2) THEN << >>
    ELSE IF IsPointerLike(type1)    THEN << << type1.elem, type2.elem >> >>
    ELSE [n \in DOMAIN type1.params |-> << type1.params[n], type2.params[n] >>]

\* The calls for the parts of two types.
PartsOf(type1, type2) ==
    IF IsVar(type1) \/ IsVar(type2) THEN << >>
    ELSE IF IsPointerLike(type1)    THEN << << type1.elem, type2.elem >> >>
    ELSE [n \in DOMAIN type1.params |-> << type1.params[n], type2.params[n] >>]
             \o << << type1.ret, type2.ret >> >>

\* unify looks for the representatives of both types first.
BothFound(parent, pair) == Found(Found(parent, pair[1]), pair[2])

\* Slip: the parts of types already joined are compared again.
ComparedAgain(found, r1, r2) ==
    LET Outcome(joined, parts, ok) == [parent |-> joined, parts |-> parts, ok |-> ok]
    IN  IF r1 = r2 /\ ~ IsPointerLike(r1)      THEN Outcome(found, << >>, TRUE)
        ELSE IF r1 # r2 /\ ~ CanJoin(r1, r2)   THEN Outcome(found, << >>, FALSE)
        ELSE IF DifferentLengths(r1, r2)
        THEN Outcome(Joined(found, r1, r2), << >>, FALSE)
        ELSE Outcome(Joined(found, r1, r2), PartsOf(r1, r2), TRUE)

\* Slip: true is returned for types that cannot be joined.
MismatchAccepted(found, r1, r2) ==
    LET Outcome(joined, parts, ok) == [parent |-> joined, parts |-> parts, ok |-> ok]
    IN  IF r1 = r2 \/ ~ CanJoin(r1, r2) THEN Outcome(found, << >>, TRUE)
        ELSE IF DifferentLengths(r1, r2)
        THEN Outcome(Joined(found, r1, r2), << >>, FALSE)
        ELSE Outcome(Joined(found, r1, r2), PartsOf(r1, r2), TRUE)

\* What a call of unify for two representatives does up to its nested calls: the
\* structure after it, the calls it makes, and what it returns.
UnifiedRepresentatives(found, r1, r2) ==
    LET Outcome(joined, parts, ok) == [parent |-> joined, parts |-> parts, ok |-> ok]
    IN  IF r1 = r2                  THEN Outcome(found, << >>, TRUE)
        ELSE IF ~ CanJoin(r1, r2)   THEN Outcome(found, << >>, FALSE)
        ELSE IF DifferentLengths(r1, r2)
        THEN Outcome(Joined(found, r1, r2), << >>, FALSE)
        ELSE Outcome(Joined(found, r1, r2), PartsOf(r1, r2), TRUE)

Unified(found, pair) ==
    LET rep == Representatives(found)
    IN  UnifiedRepresentatives(found, rep[pair[1]], rep[pair[2]])

-------------------------------------------------------------------------------
(* solve *)

Init ==
    /\ program \in DOMAIN Systems
    /\ Constraints = Systems[program]
    /\ Parent = << >>
    /\ pending = << >>
    /\ result = "none"

\* unify is called for the next constraint; if it returns false, so does solve.
SolveConstraint ==
    /\ result = "none" /\ pending = << >> /\ Constraints # << >>
    /\ \E found \in { BothFound(Parent, Head(Constraints)) } :
       \E outcome \in { Unified(found, Head(Constraints)) } :
           /\ Parent' = outcome.parent
           /\ pending' = outcome.parts
           /\ result' = IF outcome.ok THEN "none" ELSE "false"
    /\ Constraints' = Tail(Constraints)
    /\ UNCHANGED program

\* A call of unify inside another: whether it fails makes no difference.
UnifyParts ==
    /\ pending # << >>
    /\ \E found \in { BothFound(Parent, Head(pending)) } :
       \E outcome \in { Unified(found, Head(pending)) } :
           /\ Parent' = outcome.parent
           /\ pending' = outcome.parts \o Tail(pending)
    /\ UNCHANGED << program, Constraints, result >>

Solved ==
    /\ result = "none" /\ pending = << >> /\ Constraints = << >>
    /\ result' = "true"
    /\ UNCHANGED << program, Constraints, Parent, pending >>

Next == SolveConstraint \/ UnifyParts \/ Solved

Spec == Init /\ [][Next]_vars /\ WF_vars(Next)

-------------------------------------------------------------------------------
(* What the theorems ask of the systems *)

\* A set of types that has the parts of its members.
HasParts(Types) ==
    \A t \in Types :
        /\ IsPointerLike(t) => t.elem \in Types
        /\ t.kind = "function" => t.params \in Seq(Types) /\ t.ret \in Types

Constraint(Types) == Types \X Types

SystemsAreOver(Types) ==
    /\ HasParts(Types)
    /\ \A n \in DOMAIN Systems : Systems[n] \in Seq(Constraint(Types))

\* Types that can be compared part by part: ints, addresses, or functions with as
\* many parameters.
SameShape(type1, type2) ==
    \/ IsPointerLike(type1) /\ IsPointerLike(type2)
    \/ /\ type1.kind = "function" /\ type2.kind = "function"
       /\ Len(type1.params) = Len(type2.params)
    \/ type1 = type2

\* The parts of two types of one shape, in pairs.
Components(type1, type2) ==
    IF IsPointerLike(type1) THEN { << type1.elem, type2.elem >> }
    ELSE { << type1.params[n], type2.params[n] >> : n \in DOMAIN type1.params }
             \cup { << type1.ret, type2.ret >> }

\* Two proper types have one value only if they fit together, and then so do their parts.
TellsMisfitsApart(value) ==
    \A t, s \in DOMAIN value :
        value[t] = value[s] /\ t # s /\ ~ IsVar(t) /\ ~ IsVar(s) =>
            /\ SameShape(t, s) /\ ~ DifferentLengths(t, s)
            /\ \A pair \in Components(t, s) : value[pair[1]] = value[pair[2]]

\* A solution gives both sides of each constraint one value.
Solves(value, system) ==
    /\ TellsMisfitsApart(value)
    /\ \A n \in DOMAIN system : value[system[n][1]] = value[system[n][2]]

ASSUME SolutionsAssumption ==
    \A n \in DOMAIN Solutions : \A value \in { Solutions[n] } :
        /\ HasParts(DOMAIN value)
        /\ Systems[n] \in Seq(Constraint(DOMAIN value))
        /\ Solves(value, Systems[n])

-------------------------------------------------------------------------------
(* Properties *)

Class(type) == Representative(Parent, type)

\* A system that has a solution is not rejected: a program that is well typed by its
\* declarations passes.  All uses of a type share one class (types are kept once), so
\* that one expression's constraints could make another's fail: arrays of different
\* lengths join pointers, whatever order the constraints come in.
SolvableIsAccepted == result = "false" => program \notin DOMAIN Solutions

\* A class that has a proper type is represented by one of that shape.  unify looks
\* at the representatives alone: it would take a class represented by a variable
\* for one that nothing is known of, and compare the parts of types that have none
\* in common.
ClassesAreUniform ==
    \A t \in DOMAIN Parent : IsVar(t) \/ SameShape(t, Class(t))

\* What was found equal stays equal: a constraint that was solved holds until the
\* end, whatever is joined and however paths are shortened later.
ClassesOnlyGrow ==
    [][\A t \in DOMAIN Parent :
          Representative(Parent', t) = Representative(Parent', Class(t))]_vars

\* What solve accepts is solved: both sides of every constraint are in one class.
AcceptedIsSolved ==
    result = "true" =>
        \A class \in { Representatives(Parent) }, system \in { Systems[program] } :
            \A n \in DOMAIN system : class[system[n][1]] = class[system[n][2]]

\* Two types of one class that do not fit together, which unify does not report when
\* it meets them in a nested call.
Misfit(class, type1, type2) ==
    /\ class[type1] = class[type2] /\ type1 # type2 /\ ~ IsVar(type1) /\ ~ IsVar(type2)
    /\ \/ DifferentLengths(type1, type2)
       \/ \E pair \in Components(type1, type2) :
             /\ {pair[1], pair[2]} \subseteq DOMAIN class
             /\ class[pair[1]] # class[pair[2]]
             /\ ~ CanJoin(class[pair[1]], class[pair[2]])

\* Types that are equal have equal parts: unless two types of one class do not fit
\* together, the parts of a type and of its representative are in one class too,
\* although unify compares the parts of no more than the two representatives that it
\* joins.
PartsAreJoined ==
    \A class \in { Representatives(Parent) } :
        pending = << >> /\ ~ (\E t, s \in DOMAIN class : Misfit(class, t, s)) =>
            \A t \in DOMAIN class : t # class[t] /\ ~ IsVar(t) =>
                \A pair \in Components(t, class[t]) :
                    /\ {pair[1], pair[2]} \subseteq DOMAIN class
                    /\ class[pair[1]] = class[pair[2]]

\* The analysis ends: the calls that unify makes for the parts of types, which may
\* contain each other, run out because each joins two classes.
AnalysisEnds == <>(result # "none")

===============================================================================
