--------------------------------- MODULE BrgTree -------------------------------
(***************************************************************************)
(* The selection of instructions: how intermediate code becomes trees      *)
(* (src/codegen/asm/BrgTreeBuilder.h) and which handle... function of the  *)
(* builder the rules call for each (src/codegen/asm/AsmBuilderHelper.gen). *)
(*                                                                         *)
(* Every instruction is the root of a tree and is tried as a statement, in *)
(* order.  A load, a call or an operation is executed there, once, and its *)
(* node then is its register.  An address (gep) or a condition (icmp) is   *)
(* no statement: its tree stays, and its action runs where its value is    *)
(* used.  A tree that no rule covers is dropped.                           *)
(***************************************************************************)
EXTENDS AsmCode, IR

\* The virtual functions of a target's AsmBuilder (src/codegen/asm/AsmBuilder.h).
CONSTANTS
    Handle(_, _, _, _),     \* the handle... functions: an operation, its operands,
                            \* what else they ask the instruction, the next virtual
                            \* register
    UpdatedRegs(_)          \* the registers whose live ranges the create...Inst
                            \* function of an instruction updates, in its order

FuncArg(no) == [kind |-> "arg", no |-> no]
Tree(goal, inst) == [kind |-> "tree", goal |-> goal, inst |-> inst]

Selection(nodes, virt) ==
    [nodes |-> nodes, virt |-> virt, insts |-> << >>, result |-> Nothing]

\* getBrgNodeForValue
NodeOf(sel, value) ==
    CASE value.kind = "int"   -> Imm(value.val)
      [] value.kind = "label" -> Label(value.symbol)
      [] value.kind = "block" -> Label(value.number)
      [] value.kind = "arg"   -> FuncArg(value.no)
      [] OTHER                -> sel.nodes[value.id]

\* The nonterminal a node can be reduced to.
Goal(node) ==
    CASE node.kind = "tree"   -> node.goal
      [] node.kind = "object" -> "mem"
      [] OTHER                -> node.kind

\* visitBranchInst: a condition that is constant leaves one successor.
Successors(I) ==
    IF I.args[1].kind # "bool" THEN I.args
    ELSE << IF I.args[1].val THEN I.args[2] ELSE I.args[3] >>

\* The values below the root of I.
Kids(I) == IF I.op = "br" THEN Successors(I) ELSE I.args

Operands == ({"reg", "imm"} \X {"reg", "imm"}) \ {<< "imm", "imm" >>}

\* The rules: the nonterminals an instruction can have below it.
Rules ==
    [load  |-> {<< "mem" >>, << "reg" >>},
     store |-> ({"reg", "imm"} \X {"mem", "reg"}) \cup ({"mem", "label", "arg"} \X {"mem"}),
     gep   |-> {"mem", "reg"} \X {"imm", "reg"},
     icmp  |-> Operands, add |-> Operands, sub |-> Operands, mul |-> Operands,
     sdiv  |-> Operands,
     br    |-> {<< "cond", "label", "label" >>, << "label" >>},
     ret   |-> {<< "reg" >>, << "imm" >>, << >>},
     sext  |-> {}]

Covered(sel, I) ==
    LET goals == [n \in DOMAIN Kids(I) |-> Goal(NodeOf(sel, Kids(I)[n]))]
    IN  IF I.op = "call"
        THEN /\ Head(goals) \in {"label", "reg", "mem"}
             /\ ToSet(Tail(goals)) \subseteq {"reg", "imm", "mem", "label"}
        ELSE goals \in Rules[I.op]

Handled(sel, op, operands, info) ==
    LET After(created) == [sel EXCEPT !.insts  = @ \o created.insts,
                                      !.result = created.result,
                                      !.virt   = created.virt]
    IN  After(Handle(op, operands, info, sel.virt))

-------------------------------------------------------------------------------
(* The actions *)

RECURSIVE Reduce(_, _)

\* sel after the actions of the nodes of values, in order, and their operands.
ReduceAll(sel, values) ==
    FoldLeft(LAMBDA acc, value :
                 LET next == Reduce(acc.sel, NodeOf(acc.sel, value))
                 IN  [sel |-> next, operands |-> Append(acc.operands, next.result)],
             [sel |-> sel, operands |-> << >>], values)

\* The action of a node: the result is its operand.
Reduce(sel, node) ==
    IF node.kind # "tree" THEN [sel EXCEPT !.result = node]
    ELSE LET After(kids) ==
                 Handled(kids.sel, node.inst.op, kids.operands, node.inst.attr)
         IN  After(ReduceAll(sel, node.inst.args))

\* handleARG of each argument as soon as its action has run, then handleCALL.
SelectCall(sel, I) ==
    LET ARG(s, argNo) == Handled(s, "arg", << s.result >>, argNo)
        CALL(s, callee) ==
            Handled(FoldLeftDomain(
                        LAMBDA acc, n :
                            ARG(Reduce(acc, NodeOf(acc, Tail(I.args)[n])), n - 1),
                        s, Tail(I.args)),
                    "call", << callee >>, Len(I.args) - 1)
        Called(s) == CALL(s, s.result)
    IN  Called(Reduce(sel, NodeOf(sel, Head(I.args))))

\* handleBR asks the instruction for its first successor and for the block that
\* comes next.
SelectBranch(sel, I, nextBB) ==
    LET first == I.args[IF Len(I.args) = 1 THEN 1 ELSE 2].number
        BR(kids) == Handled(kids.sel, "br", kids.operands, [first |-> first, next |-> nextBB])
    IN  BR(ReduceAll(sel, Kids(I)))

\* gen for one instruction.
Statement(sel, I, nextBB) ==
    CASE I.op = "call" -> SelectCall(sel, I)
      [] I.op = "br"   -> SelectBranch(sel, I, nextBB)
      [] I.op = "ret" /\ I.args = << >> -> sel
      [] OTHER -> LET After(kids) == Handled(kids.sel, I.op, kids.operands, I.attr)
                  IN  After(ReduceAll(sel, I.args))

\* The node of I becomes node.
Node(sel, I, node) ==
    [sel EXCEPT !.nodes = [id \in DOMAIN @ \cup {I.id} |->
                              IF id = I.id THEN node ELSE @[id]]]

\* What is selected for I, an instruction of a function: object is the number of
\* its stack object, if it is an alloca.
Select(sel, I, object, nextBB) ==
    CASE I.op = "label"  -> Handled(sel, "label", << NodeOf(sel, I.args[1]) >>, "none")
      [] I.op = "alloca" -> Node(sel, I, StackObject(object))
      [] ~ Covered(sel, I) -> Node(sel, I, Nothing)
      [] I.op = "gep"    -> Node(sel, I, Tree("mem", I))
      [] I.op = "icmp"   -> Node(sel, I, Tree("cond", I))
      [] OTHER -> LET After(s) == Node(s, I, s.result)
                  IN  After(Statement(sel, I, nextBB))

-------------------------------------------------------------------------------
(* What the tree builder notes of a function *)

\* The stack objects: the arguments that come on the stack, then the allocas.
StackArgs(fn) == IF fn.params > NumArgRegs THEN fn.params - NumArgRegs ELSE 0

Allocas(fn) == SelectSeq(fn.insts, LAMBDA I : I.op = "alloca")

StackObjects(fn) ==
    [n \in 1 .. StackArgs(fn) |-> RegisterSize]
        \o [n \in DOMAIN Allocas(fn) |-> Allocas(fn)[n].attr]

\* The number of the stack object of an alloca; objects are numbered from 0.
ObjectOf(fn, I) ==
    StackArgs(fn) + (CHOOSE n \in DOMAIN Allocas(fn) : Allocas(fn)[n].id = I.id) - 1

LocalFrameSize(fn) == FoldLeft(LAMBDA sum, I : sum + I.attr, 0, Allocas(fn))

\* The bytes of the stack arguments of the call that has most.
MaxCallFrameSize(fn) ==
    FoldLeft(LAMBDA max, I :
                 LET bytes == RegisterSize * (Len(I.args) - 1 - NumArgRegs)
                 IN  IF I.op = "call" /\ bytes > max THEN bytes ELSE max,
             0, fn.insts)

\* The block after the one that the n-th instruction of fn is in, or -1.
NextBlock(fn, n) ==
    LET later == SelectSeq(SubSeq(fn.insts, n + 1, Len(fn.insts)),
                           LAMBDA I : I.op = "label")
    IN  IF later = << >> THEN -1 ELSE later[1].args[1].number

===============================================================================
