----------------------------------- MODULE IR ----------------------------------
(***************************************************************************)
(* The intermediate code that the IR code generator hands to the native    *)
(* code generator: LLVM instructions, as far as the two use them.          *)
(*                                                                         *)
(* A value is an integer constant, a truth value (an i1 constant), the     *)
(* result of an instruction (a condition, if it is one of icmp), a         *)
(* function, a string, an argument of the function or a block.  Blocks are *)
(* numbered in the order of their creation.                                *)
(***************************************************************************)
EXTENDS Integers, Sequences, SequencesExt

IntValue(n)  == [kind |-> "int", val |-> n]
BoolValue(b) == [kind |-> "bool", val |-> b]
InstValue(id) == [kind |-> "inst", id |-> id]
CondValue(id) == [kind |-> "cond", id |-> id]
LabelValue(symbol) == [kind |-> "label", symbol |-> symbol]
ArgValue(no) == [kind |-> "arg", no |-> no]
BlockValue(number) == [kind |-> "block", number |-> number]

\* attr is the size in bytes that an alloca reserves and of the elements that a
\* gep steps over, and the predicate of an icmp.
Instruction(op, id, args, attr) == [op |-> op, id |-> id, args |-> args, attr |-> attr]

\* A function with its instructions; each block begins with a label.
Function(name, params, insts) == [name |-> name, params |-> params, insts |-> insts]

IsConstant(value) == value.kind \in {"int", "bool"}

\* Division rounds towards zero.
Abs(x) == IF x < 0 THEN -x ELSE x
Quotient(x, y) == IF (x < 0) = (y < 0) THEN Abs(x) \div Abs(y) ELSE -(Abs(x) \div Abs(y))

\* What IRBuilder makes of an operation on constants.
Fold(op, pred, x, y) ==
    CASE op = "add"  -> IntValue(x + y)
      [] op = "sub"  -> IntValue(x - y)
      [] op = "mul"  -> IntValue(x * y)
      [] op = "sdiv" -> IntValue(Quotient(x, y))
      [] op = "icmp" -> BoolValue(CASE pred = "SGT" -> x > y
                                    [] pred = "EQ"  -> x = y
                                    [] pred = "NE"  -> x # y)

===============================================================================
