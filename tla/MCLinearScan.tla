------------------------------ MODULE MCLinearScan ------------------------------
(***************************************************************************)
(* Instances of LinearScan for TLC.                                        *)
(***************************************************************************)
EXTENDS LinearScan, FiniteSets, TLC

CONSTANTS
    LastPoint,  \* the bound on instruction indexes
    MaxCalls    \* the bound on the calls of a function

Points == 0 .. LastPoint

Ranges == { r \in Points \X Points : r[1] < r[2] }

\* The live ranges of n virtual registers.  The allocator uses their numbers as
\* keys only, so that one numbering will do: in the order of the ranges.
InOrder(r, s) == r[1] < s[1] \/ (r[1] = s[1] /\ r[2] <= s[2])

Functions(n) ==
    { f \in [1 .. n -> Ranges] : \A v \in 1 .. n - 1 : InOrder(f[v], f[v + 1]) }

\* The call instructions, with the index createCALLInst records for each.
Calls == { c \in SUBSET (1 .. LastPoint) : Cardinality(c) <= MaxCalls }

\* f with the flags that calls give, and the physical registers fixed named by
\* the instruction at 1.
LiveRangesOf(f, calls, fixed) ==
    [r \in DOMAIN f \cup fixed |->
        IF r \in fixed
        THEN << [StartPoint |-> 1, EndPoint |-> 2, UsedAcrossCall |-> FALSE] >>
        ELSE << [StartPoint |-> f[r][1], EndPoint |-> f[r][2],
                 UsedAcrossCall |-> \E c \in calls : f[r][1] <= c /\ c < f[r][2]] >>]

CONSTANT FixedSets  \* sets of physical registers that instructions name

AllFunctions(n) ==
    { LiveRangesOf(f, calls, fixed) :
          f \in Functions(n), calls \in Calls, fixed \in FixedSets }

CONSTANT NumVirtRegs

SomeVirtRegs == 1 .. NumVirtRegs
SomeFunctions == AllFunctions(NumVirtRegs)

===============================================================================
