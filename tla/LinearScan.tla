------------------------------- MODULE LinearScan -------------------------------
(***************************************************************************)
(* The linear scan register allocator of remniw's native code generator    *)
(* (src/codegen/asm/RegisterAllocator.h).                                  *)
(*                                                                         *)
(* AsmRewriter::rewrite calls doRegAlloc once for each function of the     *)
(* module, always on the same allocator object.  doRegAlloc resets the     *)
(* allocator, fills its interval sets and loops; each iteration of the     *)
(* loop is one step: it takes the interval on top of Unhandled and gives   *)
(* it a register, the register of an active interval that goes to the      *)
(* stack, or a stack slot.                                                 *)
(*                                                                         *)
(* The two containers the code keeps sorted are sets here: a priority      *)
(* queue is read through IsTop, and Active, which every iteration sorts by *)
(* end point before it reads it, through IsBack.  Ties are broken          *)
(* arbitrarily, as are the order of a hash table and an unstable sort.     *)
(***************************************************************************)
EXTENDS LiveIntervals

CONSTANTS
    FreeRegs,          \* TargetInfo::getFreeRegistersForRegisterAllocator
    CallerSavedRegs,   \* TargetInfo::isCallerSavedRegister
    CalleeSavedRegs,   \* TargetInfo::isCalleeSavedRegister
    NoRegister,        \* the register that is none
    LiveRangesMaps     \* the live ranges of the functions that are compiled

index2StackSlot(index) == [StackSlot |-> index]

StackSlots == [StackSlot : Nat]

ASSUME TargetAssumption ==
    /\ FreeRegs \subseteq PhysRegs
    /\ PhysRegs \cap StackSlots = {}
    /\ NoRegister \notin PhysRegs \cup StackSlots

ASSUME InputAssumption == \A m \in LiveRangesMaps : WellFormed(m)

VARIABLES
    RegLiveRangesMap,          \* of the function at hand
    Unhandled,                 \* intervals not yet given a location
    Fixed,                     \* intervals of the physical registers
    Active,                    \* intervals that hold a register
    Spilled,                   \* intervals on the stack, in the order they went
    FreeRegisters,             \* for each allocatable register, whether it is free
    VirtRegToAllocatedRegMap,  \* NoRegister for a register without an entry
    StackSlotIndex             \* the next stack slot

vars == << RegLiveRangesMap, Unhandled, Fixed, Active, Spilled, FreeRegisters,
           VirtRegToAllocatedRegMap, StackSlotIndex >>

NoAllocation == [v \in VirtRegs |-> NoRegister]

Init ==
    /\ RegLiveRangesMap = << >>
    /\ Unhandled = {}
    /\ Fixed = {}
    /\ Active = {}
    /\ Spilled = << >>
    /\ FreeRegisters = [r \in FreeRegs |-> TRUE]
    /\ VirtRegToAllocatedRegMap = NoAllocation
    /\ StackSlotIndex = 0

-------------------------------------------------------------------------------
(* doRegAlloc *)

\* Slip: the stack slots go on from the last function's.
ResetAllButSlots ==
    /\ Unhandled = {}
    /\ RegLiveRangesMap' = << >>
    /\ Fixed' = {}
    /\ Active' = {}
    /\ Spilled' = << >>
    /\ VirtRegToAllocatedRegMap' = NoAllocation
    /\ UNCHANGED << Unhandled, FreeRegisters, StackSlotIndex >>

\* doRegAlloc's "Reset the internal states", which leaves FreeRegisters alone.
Reset ==
    /\ Unhandled = {}
    /\ RegLiveRangesMap' = << >>
    /\ Fixed' = {}
    /\ Active' = {}
    /\ Spilled' = << >>
    /\ VirtRegToAllocatedRegMap' = NoAllocation
    /\ StackSlotIndex' = 0
    /\ UNCHANGED << Unhandled, FreeRegisters >>

\* initIntervalSets, for a function with live ranges m.
InitIntervalSets(m) ==
    /\ RegLiveRangesMap = << >>
    /\ RegLiveRangesMap' = m
    /\ Unhandled' = VirtIntervals(m)
    /\ Fixed' = FixedIntervals(m)
    /\ UNCHANGED << Active, Spilled, FreeRegisters, VirtRegToAllocatedRegMap,
                    StackSlotIndex >>

\* LI may be on top of the queue: it starts first, and of those that start
\* with it, it ends first.
IsTop(LI) ==
    /\ LI \in Unhandled
    /\ \A u \in Unhandled :
           \/ LI.StartPoint < u.StartPoint
           \/ LI.StartPoint = u.StartPoint /\ LI.EndPoint <= u.EndPoint

\* Slip: the interval's end is compared with LI's end.
ExpiredTooEarly(LI) == { a \in Active : a.EndPoint <= LI.EndPoint }

\* expireOldIntervals(LI): the active intervals that end before LI starts leave
\* Active, and their registers are free again.
Expired(LI) == { a \in Active : a.EndPoint <= LI.StartPoint }

StillActive(LI) == Active \ Expired(LI)

\* Slip: the registers of expired intervals are not given back.
ExpiredStayTaken(LI) == FreeRegisters

FreeAfterExpiry(LI) ==
    [r \in FreeRegs |->
        FreeRegisters[r] \/ \E a \in Expired(LI) : VirtRegToAllocatedRegMap[a.Reg] = r]

\* Slip: the test for two ranges that overlap.
OverlapsFixed(r, LI) == \E f \in Fixed : f.Reg = r /\ Overlap(f, LI)

ConflictWithFixed(r, LI) ==
    \E f \in Fixed :
        /\ f.Reg = r
        /\ f.EndPoint > LI.StartPoint \/ f.StartPoint < LI.EndPoint

\* A value used across a call wants a callee-saved register, any other value a
\* caller-saved one.
SuitsCalls(r, LI) ==
    IF LI.UsedAcrossCall THEN r \in CalleeSavedRegs ELSE r \in CallerSavedRegs

\* The registers getFreePhysReg(LI) may return.
FreePhysRegs(LI) ==
    { r \in FreeRegs : /\ FreeAfterExpiry(LI)[r]
                       /\ ~ ConflictWithFixed(r, LI)
                       /\ SuitsCalls(r, LI) }

\* LI gets a free register.
AssignPhysReg(LI) ==
    \E PhysReg \in FreePhysRegs(LI) :
        /\ FreeRegisters' = [FreeAfterExpiry(LI) EXCEPT ![PhysReg] = FALSE]
        /\ VirtRegToAllocatedRegMap' =
               [VirtRegToAllocatedRegMap EXCEPT ![LI.Reg] = PhysReg]
        /\ Active' = StillActive(LI) \cup {LI}
        /\ UNCHANGED << Spilled, StackSlotIndex >>

\* Back may be the last of the sorted active intervals.
IsBack(Back, LI) ==
    /\ Back \in StillActive(LI)
    /\ \A a \in StillActive(LI) : a.EndPoint <= Back.EndPoint

\* Slip: an active interval goes to the stack also when it ends before LI.
SpillAnyActive(LI) ==
    /\ FreePhysRegs(LI) = {}
    /\ FreeRegisters' = FreeAfterExpiry(LI)
    /\ \E Back \in Active :
        /\ IsBack(Back, LI)
        /\ VirtRegToAllocatedRegMap' =
               [VirtRegToAllocatedRegMap EXCEPT
                   ![LI.Reg] = VirtRegToAllocatedRegMap[Back.Reg],
                   ![Back.Reg] = index2StackSlot(StackSlotIndex)]
        /\ Active' = (StillActive(LI) \ {Back}) \cup {LI}
        /\ Spilled' = Append(Spilled, Back)
        /\ StackSlotIndex' = StackSlotIndex + 1

\* spillAtInterval(LI), first case: the active interval that ends last ends
\* after LI.  It goes to the stack, and LI takes its location.
SpillActive(LI) ==
    /\ FreePhysRegs(LI) = {}
    /\ FreeRegisters' = FreeAfterExpiry(LI)
    /\ \E Back \in Active :
        /\ IsBack(Back, LI)
        /\ Back.EndPoint > LI.EndPoint
        /\ VirtRegToAllocatedRegMap' =
               [VirtRegToAllocatedRegMap EXCEPT
                   ![LI.Reg] = VirtRegToAllocatedRegMap[Back.Reg],
                   ![Back.Reg] = index2StackSlot(StackSlotIndex)]
        /\ Active' = (StillActive(LI) \ {Back}) \cup {LI}
        /\ Spilled' = Append(Spilled, Back)
        /\ StackSlotIndex' = StackSlotIndex + 1

\* spillAtInterval(LI), second case: LI goes to the stack.
SpillCurrent(LI) ==
    /\ FreePhysRegs(LI) = {}
    /\ FreeRegisters' = FreeAfterExpiry(LI)
    /\ \A a \in StillActive(LI) : a.EndPoint <= LI.EndPoint
    /\ VirtRegToAllocatedRegMap' =
           [VirtRegToAllocatedRegMap EXCEPT ![LI.Reg] = index2StackSlot(StackSlotIndex)]
    /\ Active' = StillActive(LI)
    /\ Spilled' = Append(Spilled, LI)
    /\ StackSlotIndex' = StackSlotIndex + 1

\* One iteration of the loop.
Iterate(LI) ==
    /\ IsTop(LI)
    /\ Unhandled' = Unhandled \ {LI}
    /\ AssignPhysReg(LI) \/ SpillActive(LI) \/ SpillCurrent(LI)
    /\ UNCHANGED << RegLiveRangesMap, Fixed >>

Next ==
    \/ Reset
    \/ \E m \in LiveRangesMaps : InitIntervalSets(m)
    \/ \E LI \in Unhandled : Iterate(LI)

Spec == Init /\ [][Next]_vars

-------------------------------------------------------------------------------
(* Properties *)

\* The intervals that have a location.
Handled == VirtIntervals(RegLiveRangesMap) \ Unhandled

LocationOf(i) == VirtRegToAllocatedRegMap[i.Reg]

Locations == FreeRegs \cup StackSlots \cup {NoRegister}

\* The type invariant.
TypeOK ==
    /\ WellFormed(RegLiveRangesMap)
    /\ Unhandled \subseteq VirtIntervals(RegLiveRangesMap)
    /\ Fixed = FixedIntervals(RegLiveRangesMap)
    /\ Active \subseteq Handled
    /\ Spilled \in Seq(Handled)
    /\ FreeRegisters \in [FreeRegs -> BOOLEAN]
    /\ VirtRegToAllocatedRegMap \in [VirtRegs -> Locations]
    /\ StackSlotIndex \in Nat

\* Two values that are live at the same instruction are never in the same
\* register nor in the same stack slot, whatever was spilled, expired or handed
\* over in between (expireOldIntervals, getFreePhysReg, spillAtInterval).
LiveValuesAreApart ==
    \A i, j \in Handled :
        i # j /\ Overlap(i, j) => LocationOf(i) # LocationOf(j)

\* No value is put into a register that the function's instructions name
\* themselves.  The ranges of such a register have holes in which it is live
\* all the same (an argument register between its move and the call), so that
\* staying clear of the ranges would not do.  spillAtInterval hands registers
\* over without a check and must still respect this.
FixedRegistersAreReserved ==
    \A i \in Handled, f \in Fixed : LocationOf(i) # f.Reg

\* A value that is used after a call it was live at is never in a register that
\* the callee may overwrite, not even when it took over the register of a
\* spilled value.
ValuesSurviveCalls ==
    \A i \in Handled :
        i.UsedAcrossCall => LocationOf(i) \in StackSlots \cup CalleeSavedRegs

\* Every stack slot lies in the spill area, whose size the rewriter takes from
\* getSpilledRegCount, and every interval that went there is still there.
SpillAreaHoldsTheSlots ==
    /\ \A i \in Handled :
           LocationOf(i) \in StackSlots => LocationOf(i).StackSlot < Len(Spilled)
    /\ \A n \in 1 .. Len(Spilled) : LocationOf(Spilled[n]) = index2StackSlot(n - 1)

\* The registers that are taken although no active interval holds them.
LostRegs ==
    { r \in FreeRegs : ~ FreeRegisters[r] /\ \A a \in Active : LocationOf(a) # r }

\* Within a function no register is lost, and none that was lost comes back: what
\* expireOldIntervals frees, getFreePhysReg takes and spillAtInterval hands over
\* always adds up.  The registers that earlier functions cost (doRegAlloc forgets
\* its active intervals but not their registers) are the only ones missing.
NoRegisterIsLost ==
    [][\A LI \in Unhandled :
           Unhandled' = Unhandled \ {LI} => LostRegs' = LostRegs]_vars

===============================================================================
