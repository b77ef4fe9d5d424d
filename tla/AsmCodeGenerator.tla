---------------------------- MODULE AsmCodeGenerator ---------------------------
(***************************************************************************)
(* The registers of a module on its way through AsmCodeGenerator::compile  *)
(* (src/codegen/asm/AsmCodeGenetator.h): AsmBuilder::build makes all its   *)
(* functions with their live ranges, and then AsmRewriter::rewrite calls   *)
(* the register allocator for one after the other.                         *)
(*                                                                         *)
(* LiveRanges, which is extended here, is the builder, and LinearScan the  *)
(* allocator.  What leads from one to the other is in AsmFunctions; the    *)
(* allocator sees live ranges only, and what it gives out must be right    *)
(* for the instructions.                                                   *)
(***************************************************************************)
EXTENDS LiveRanges, SequencesExt

CONSTANTS
    MaxFunctions, MaxCode,          \* the bounds on a module's functions and on their
                                    \* instructions together
    FreeRegs, CallerSavedRegs, CalleeSavedRegs, NoRegister   \* see LinearScan

ASSUME ModuleAssumption == MaxFunctions \in Nat /\ MaxCode \in Nat

ASSUME TargetAssumption ==
    /\ FreeRegs \subseteq PhysRegs
    /\ PhysRegs \cap [StackSlot : Nat] = {}
    /\ NoRegister \notin PhysRegs \cup [StackSlot : Nat]

VARIABLES
    phase,            \* "build", and for each function "reset" and "allocate"
    AsmFunctions,     \* the functions that have been built
    current,          \* the number of the rewriter's CurrentFunction
    AllocRanges, Unhandled, Fixed, Active, Spilled, FreeRegisters,
    VirtRegToAllocatedRegMap, StackSlotIndex                       \* see LinearScan

alloc == << AllocRanges, Unhandled, Fixed, Active, Spilled, FreeRegisters,
            VirtRegToAllocatedRegMap, StackSlotIndex >>
allVars == << phase, AsmFunctions, current, vars, alloc >>

\* All that the allocator may be called with.
WellFormedMaps ==
    { m \in UNION { [regs -> Seq(LiveRange)] : regs \in SUBSET (VirtRegs \cup PhysRegs) } :
          WellFormed(m) }

Allocator == INSTANCE LinearScan
                WITH RegLiveRangesMap <- AllocRanges, LiveRangesMaps <- WellFormedMaps

CompileInit ==
    /\ phase = "build"
    /\ AsmFunctions = << >>
    /\ current = 0
    /\ Init
    /\ Allocator!Init

-------------------------------------------------------------------------------
(* AsmBuilder::build *)

\* The last function is complete, and the next begins.
BuildAsmFunction ==
    /\ phase = "build"
    /\ Len(AsmFunctions) < MaxFunctions
    /\ AsmFunctions' = Append(AsmFunctions, [InstList         |-> InstList,
                                             RegLiveRangesMap |-> RegLiveRangesMap])
    /\ BuildFunction
    /\ UNCHANGED << phase, current, alloc >>

\* The instructions of the functions that have been built.
BuiltCode == FlattenSeq([n \in DOMAIN AsmFunctions |-> AsmFunctions[n].InstList])

\* A step on the way to the next instruction of the function.
BuildInstruction ==
    /\ phase = "build"
    /\ Len(BuiltCode) + Len(InstList) < MaxCode
    /\ \/ \E reg \in VirtRegs \cup PhysRegs : UpdateRegLiveRanges(reg)
       \/ CreateInst
       \/ CreateCALLInst
    /\ UNCHANGED << phase, AsmFunctions, current, alloc >>

-------------------------------------------------------------------------------
(* AsmRewriter::rewrite *)

CurrentFunction == AsmFunctions[current]

IsEmpty(n) == AsmFunctions[n].InstList = << >>

\* The rewriter goes on to the next function that has instructions, and calls
\* doRegAlloc for it.
RewriteNext ==
    /\ \/ phase = "build" /\ InstList = << >> /\ operands = << >>
       \/ phase = "allocate" /\ Unhandled = {}
    /\ \E n \in current + 1 .. Len(AsmFunctions) :
           /\ ~ IsEmpty(n) /\ \A k \in current + 1 .. n - 1 : IsEmpty(k)
           /\ current' = n
    /\ phase' = "reset"
    /\ Allocator!Reset
    /\ UNCHANGED << AsmFunctions, vars >>

InitIntervalSets ==
    /\ phase = "reset"
    /\ phase' = "allocate"
    /\ Allocator!InitIntervalSets(CurrentFunction.RegLiveRangesMap)
    /\ UNCHANGED << AsmFunctions, current, vars >>

Iterate ==
    /\ phase = "allocate"
    /\ \E LI \in Unhandled : Allocator!Iterate(LI)
    /\ UNCHANGED << phase, AsmFunctions, current, vars >>

CompileNext ==
    \/ BuildAsmFunction \/ BuildInstruction
    \/ RewriteNext \/ InitIntervalSets \/ Iterate

CompileSpec == CompileInit /\ [][CompileNext]_allVars

-------------------------------------------------------------------------------
(* Properties *)

\* What an instruction names.
NamedBy(inst, reg) == \E n \in 1 .. Len(inst.operands) : inst.operands[n] = reg

\* Where a register is when the rewriter puts in what the allocator gave out.
Place(reg) == IF reg \in VirtRegs THEN VirtRegToAllocatedRegMap[reg] ELSE reg

\* From one use of a virtual register to another, no instruction in between touches
\* the place it is in: none names it under another name, and none is a call that
\* may overwrite it.  The allocator knows of live ranges only, which the builder
\* kept for it, and of calls only what a flag says.  The rewriter asserts that every
\* register named has a place.
ValuesArePreserved ==
    phase = "allocate" /\ Unhandled = {} =>
        \A insts \in { CurrentFunction.InstList }, v \in VirtRegs :
            \A i, j \in 1 .. Len(insts) :
                i <= j /\ NamedBy(insts[i], v) /\ NamedBy(insts[j], v) =>
                    /\ Place(v) \in FreeRegs \cup Allocator!StackSlots
                    /\ \A k \in i .. j :
                        /\ \A reg \in VirtRegs \cup PhysRegs :
                              reg # v /\ NamedBy(insts[k], reg) => Place(reg) # Place(v)
                        /\ insts[k].isCall /\ k < j =>
                              Place(v) \in CalleeSavedRegs \cup Allocator!StackSlots

===============================================================================
