----------------------------- MODULE LiveIntervals -----------------------------
(***************************************************************************)
(* The live ranges the instruction builder hands to the register           *)
(* allocator (src/codegen/asm/LiveInterval.h, Register.h, AsmFunction.h).  *)
(*                                                                         *)
(* A RegLiveRangesMap maps each register of a function to a sequence of    *)
(* ranges [StartPoint, EndPoint) of instruction indexes.  In the code a    *)
(* register is a number and its class an interval of numbers; here the     *)
(* classes are disjoint sets.                                              *)
(***************************************************************************)
EXTENDS Integers, Sequences

CONSTANTS
    VirtRegs,  \* the numbers Register::createVirtReg gives out
    PhysRegs   \* the registers of the target

ASSUME RegisterAssumption == VirtRegs \cap PhysRegs = {}

LiveRange == [StartPoint : Nat, EndPoint : Nat, UsedAcrossCall : BOOLEAN]

LiveInterval ==
    [StartPoint : Nat, EndPoint : Nat, Reg : VirtRegs \cup PhysRegs,
     UsedAcrossCall : BOOLEAN]

\* The live interval of register reg whose range is range.
IntervalOf(reg, range) ==
    [StartPoint |-> range.StartPoint, EndPoint |-> range.EndPoint,
     Reg |-> reg, UsedAcrossCall |-> range.UsedAcrossCall]

\* i, a range or an interval, is live at instruction k.
LiveAt(i, k) == i.StartPoint <= k /\ k < i.EndPoint

Overlap(i, j) == i.StartPoint < j.EndPoint /\ j.StartPoint < i.EndPoint

\* The virtual registers of the function with live ranges m, and the interval
\* of each: one without holes.
VirtRegsOf(m) == DOMAIN m \cap VirtRegs

VirtInterval(m, v) == IntervalOf(v, m[v][Len(m[v])])

VirtIntervals(m) == { VirtInterval(m, v) : v \in VirtRegsOf(m) }

\* The intervals of the physical registers: one for each range.
FixedIntervals(m) ==
    UNION { { IntervalOf(r, m[r][k]) : k \in 1 .. Len(m[r]) }
            : r \in DOMAIN m \cap PhysRegs }

IsLiveRangesMap(m) ==
    /\ DOMAIN m \subseteq VirtRegs \cup PhysRegs
    /\ \A r \in DOMAIN m :
           /\ m[r] \in Seq(LiveRange)
           /\ m[r] # << >>
           /\ \A k \in 1 .. Len(m[r]) : m[r][k].StartPoint < m[r][k].EndPoint

\* The flags UsedAcrossCall come from call instructions: a flagged interval is
\* live at an instruction that flags every interval live at it.
FlagsComeFromCalls(m) ==
    \A v \in VirtRegsOf(m) :
        VirtInterval(m, v).UsedAcrossCall =>
            \E k \in VirtInterval(m, v).StartPoint .. VirtInterval(m, v).EndPoint - 1 :
                \A w \in VirtRegsOf(m) :
                    LiveAt(VirtInterval(m, w), k) =>
                        VirtInterval(m, w).UsedAcrossCall

\* What the allocator may rely on.
WellFormed(m) == IsLiveRangesMap(m) /\ FlagsComeFromCalls(m)

===============================================================================
