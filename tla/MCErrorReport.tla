----------------------------- MODULE MCErrorReport -----------------------------
(***************************************************************************)
(* Instances of ErrorReport for TLC, with MCGuardedPool's pages of 4 bytes *)
(* at address 8.                                                           *)
(***************************************************************************)
EXTENDS ErrorReport

OneRequest  == { [size |-> 2, alignment |-> 0] }
TwoRequests == { [size |-> 0, alignment |-> 0], [size |-> 3, alignment |-> 1] }

\* The guard byte left of slot 0.
OneWild == {11}

\* Every guard page byte, and the last byte of each slot of the two.
AllGuards == (8 .. 11) \cup (16 .. 19) \cup (24 .. 27) \cup {15, 23}

===============================================================================
