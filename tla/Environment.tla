------------------------------- MODULE Environment -----------------------------
(***************************************************************************)
(* What surrounds the code of one function: the functions it calls, the    *)
(* memory they share, and the arguments it is called with.  None of this   *)
(* is the repository's.                                                    *)
(*                                                                         *)
(* Values are integers without a width; addresses are large ones.  Memory  *)
(* is a function from the addresses of 8-byte words to values.  Junk       *)
(* stands for every value that code must not depend on.                    *)
(***************************************************************************)
EXTENDS Integers, Sequences, SequencesExt

CONSTANTS
    Symbols,    \* the functions and strings that code takes the address of
    HeapWords   \* the number of words the allocator has

ASSUME EnvironmentAssumption == HeapWords \in Nat \ {0}

Junk == -999

AddressOf(symbol) == 5000 + CHOOSE n \in DOMAIN Symbols : Symbols[n] = symbol

FunctionAt(address) ==
    IF address - 5000 \in DOMAIN Symbols THEN Symbols[address - 5000] ELSE "nothing"

HeapBase == 2000000
Heap == { HeapBase + 8 * n : n \in 0 .. HeapWords - 1 }

\* The first word of the heap belongs to the caller of the function.
InitialHeap == [a \in Heap |-> IF a = HeapBase THEN 11 ELSE Junk]

Read(mem, address) == IF address \in DOMAIN mem THEN mem[address] ELSE Junk

Write(mem, address, x) == [a \in DOMAIN mem |-> IF a = address THEN x ELSE mem[a]]

\* What a callee can tell of x: of an address, what is there.
View(x, mem) ==
    IF x \notin DOMAIN mem THEN << "value", x >>
    ELSE << "at", IF mem[x] \in DOMAIN mem THEN Junk ELSE mem[x] >>

Allocates == {"malloc", "as_alloc"}
Frees == {"free", "as_dealloc"}

\* The call of callee with args after earlier calls: what is noted of it, what
\* it returns, and the memory after it.  scanf reads a number; a function of the
\* program returns something that depends on all it sees, and stores it wherever
\* it is given an address.
Outcome(callee, args, mem, calls) ==
    LET views   == [n \in DOMAIN args |-> View(args[n], mem)]
        blocks  == Len(SelectSeq(calls, LAMBDA c : c.callee \in Allocates))
        result  == CASE callee \in Allocates           -> HeapBase + 16 * (blocks + 1)
                     [] callee \in {"printf", "scanf"} -> 1
                     [] callee \in Frees               -> 0
                     [] OTHER -> FoldLeft(LAMBDA sum, v : 3 * sum + v[2], 5, views)
        written == CASE callee = "scanf" -> 3 - Len(calls)
                     [] OTHER            -> result
        filled  == IF callee \in Allocates \cup Frees \cup {"printf"} THEN {} ELSE ToSet(args)
    IN  [result |-> result,
         noted  |-> [callee |-> callee,
                     args   |-> IF callee = "scanf" THEN SubSeq(views, 1, 1) ELSE views],
         mem    |-> [a \in DOMAIN mem |-> IF a \in filled THEN written ELSE mem[a]]]

===============================================================================
