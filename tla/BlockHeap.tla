------------------------------- MODULE BlockHeap -------------------------------
(***************************************************************************)
(* What the pair as_alloc / as_dealloc of remniw's runtime promises its    *)
(* clients: a block is handed out only where no live block is, and a block *)
(* stays live until it is given back.                                      *)
(***************************************************************************)
EXTENDS Integers

VARIABLE live    \* the blocks that clients own, each with an addr and a size

Overlap(b, c) == b.addr < c.addr + c.size /\ c.addr < b.addr + b.size

Init == live = {}

Allocate(b) ==
    /\ b.addr > 0 /\ b.size > 0
    /\ \A c \in live : ~ Overlap(b, c)
    /\ live' = live \cup {b}

Free(b) ==
    /\ b \in live
    /\ live' = live \ {b}

Next ==
    \/ \E b \in live' \ live : Allocate(b)
    \/ \E b \in live : Free(b)

Spec == Init /\ [][Next]_live

===============================================================================
