----------------------------- MODULE MCGuardedPool -----------------------------
(***************************************************************************)
(* Instances of GuardedPool for TLC: pages of 4 bytes, the pool at address *)
(* 8, so that with two slots the pages are                                 *)
(*    8 guard, 12 slot 0, 16 guard, 20 slot 1, 24 guard (end 28).          *)
(***************************************************************************)
EXTENDS GuardedPool, TLC

\* Two sizes: the smallest request (size 0, default alignment) and one that is
\* placed at either end of the page.
SmallRequests == { [size |-> 0, alignment |-> 0], [size |-> 3, alignment |-> 1] }

\* ... and requests the pool refuses: too large, and not a power of two.
AllRequests ==
    SmallRequests \cup { [size |-> 5, alignment |-> 0], [size |-> 1, alignment |-> 3] }

OneRequest == { [size |-> 2, alignment |-> 0] }

OneHeapBlock == {40}

\* The guard byte left of slot 0, and the last byte of slot 0, which no request
\* above is placed at.
Wild == {11, 15}

OneWild == {11}

ThreadSymmetry == Permutations(Threads)

===============================================================================
