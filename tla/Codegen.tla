--------------------------------- MODULE Codegen -------------------------------
(***************************************************************************)
(* The compiler after its front end, from the syntax tree of a function to *)
(* the run of its machine code: intermediate code, selection of            *)
(* instructions, live ranges, register allocation, rewriting               *)
(* (src/codegen/ir/IRCodeGeneratorImpl.cpp,                                *)
(* src/codegen/asm/AsmCodeGenetator.h, AsmBuilderHelper.gen,               *)
(* AsmRewriter.h).                                                         *)
(*                                                                         *)
(* IRCodeGenerator says what becomes of the tree, BrgTree what is          *)
(* selected, LiveRanges how live ranges are kept, LinearScan how registers *)
(* are given out, AsmRewriter what becomes of the code; a target and its   *)
(* machine are given by the constants.                                     *)
(*                                                                         *)
(* The code takes all functions through one part before the next part      *)
(* begins.  The parts share no state, so the model takes each function     *)
(* through all and runs it before the next; the allocator's FreeRegisters  *)
(* are what one function leaves to the next.  Virtual registers are        *)
(* numbered anew for each function.                                        *)
(***************************************************************************)
EXTENDS IRCodeGenerator, BrgTree, AsmRewriter, Machine, SourceMeaning, FiniteSets

CONSTANTS
    Programs,         \* sequences of functions, as syntax trees
    Inputs(_),        \* the arguments to call a function with
    AllocName,        \* the names of the allocator's functions
    FreeName,
    TableOrders,      \* orders in which the table of FreeRegisters may have its keys
    Entered(_),       \* the machine when a function is called
    Execute(_, _)     \* the machine after an instruction

VARIABLES
    phase,        \* how far the function is
    prog,         \* the program
    index,        \* how many of its functions have been taken up
    order,        \* the order of the table of FreeRegisters
    decl,         \* the function
    gen,          \* the IR code generator, see IRCodeGenerator
    generated,    \* how many statements of the function it has gone through
    fn,           \* the function's intermediate code
    selected,     \* how many instructions of its intermediate code are selected
    nodes,        \* what the trees of those instructions have become
    virt,         \* the next virtual register
    pending,      \* instructions selected and not yet created
    code,         \* CurrentFunction's instructions
    operands,     \* see LiveRanges
    CurrentCallInstIndexes,
    RegLiveRangesMap,
    AllocRanges, Unhandled, Fixed, Active, Spilled, FreeRegisters,
    VirtRegToAllocatedRegMap, StackSlotIndex,   \* see LinearScan
    numReserved,  \* MaxNumReversedStackSlotForReg
    saved,        \* the callee-saved registers that the prologue saves, in order
    input,        \* the arguments of the call
    m             \* the machine

place == << prog, index, order >>
ir    == << decl, gen, generated, fn >>
build == << selected, nodes, virt, pending, code, operands, CurrentCallInstIndexes,
            RegLiveRangesMap >>
alloc == << AllocRanges, Unhandled, Fixed, Active, Spilled, FreeRegisters,
            VirtRegToAllocatedRegMap, StackSlotIndex >>
frame == << numReserved, saved >>
run   == << input, m >>
vars  == << phase, place, ir, build, alloc, frame, run >>

LR == INSTANCE LiveRanges
        WITH InstList <- [n \in DOMAIN code |->
                             [operands |-> UpdatedRegs(code[n]),
                              isCall |-> IsCall(code[n])]],
             MaxOperands <- Cardinality(VirtRegs) + 4,
             MaxInstructions <- 10 * Cardinality(VirtRegs)

LS == INSTANCE LinearScan
        WITH FreeRegs <- ToSet(FreeRegs),
             RegLiveRangesMap <- AllocRanges,
             CallerSavedRegs <- CallerSaved,
             CalleeSavedRegs <- CalleeSaved,
             LiveRangesMaps <- {}

isMain == decl.name = "main"

NoFunction == Function("none", 0, << >>)
NoMachine == << >>

Init ==
    /\ phase = "idle"
    /\ prog \in DOMAIN Programs
    /\ index = 0
    /\ order \in TableOrders
    /\ decl = ConstructorDecl /\ gen = Generator /\ generated = 0 /\ fn = NoFunction
    /\ selected = 0 /\ nodes = << >> /\ virt = 1 /\ pending = << >> /\ code = << >>
    /\ LR!Init
    /\ LS!Init
    /\ numReserved = 0 /\ saved = << >>
    /\ input = << >> /\ m = NoMachine

-------------------------------------------------------------------------------
(* IRCodeGeneratorImpl *)

\* codegenFunction of the next function, as far as its body.
StartFunction ==
    /\ phase \in {"idle", "done"}
    /\ index < Len(Programs[prog])
    /\ phase' = "generate"
    /\ index' = index + 1
    /\ decl' = Programs[prog][index']
    /\ gen' = Entry(decl') /\ generated' = 0 /\ fn' = NoFunction
    /\ UNCHANGED << prog, order, build, alloc, frame, run >>

\* codegenStmt of the next statement of the body.
GenerateStmt ==
    /\ phase = "generate"
    /\ generated < Len(decl.body)
    /\ gen' = codegenStmt(gen, decl.body[generated + 1])
    /\ generated' = generated + 1
    /\ UNCHANGED << phase, place, decl, fn, build, alloc, frame, run >>

\* The rest of codegenFunction.
GenerateReturn ==
    /\ phase = "generate"
    /\ generated = Len(decl.body)
    /\ phase' = "generated"
    /\ fn' = Returned(gen, decl)
    /\ UNCHANGED << place, decl, gen, generated, build, alloc, frame, run >>

\* After the functions of the program comes the constructor.
GenerateConstructor ==
    /\ phase \in {"idle", "done"}
    /\ index = Len(Programs[prog])
    /\ EnableAphoticShield
    /\ phase' = "generated"
    /\ index' = index + 1
    /\ decl' = ConstructorDecl
    /\ gen' = Generator /\ generated' = 0 /\ fn' = createAphoticShieldCtorAndInitFunctions
    /\ UNCHANGED << prog, order, build, alloc, frame, run >>

-------------------------------------------------------------------------------
(* AsmBuilder *)

\* buildAsmFunction
BuildFunction ==
    /\ phase = "generated"
    /\ phase' = "select"
    /\ selected' = 0 /\ nodes' = << >> /\ virt' = 1 /\ pending' = << >> /\ code' = << >>
    /\ LR!BuildFunction
    /\ LS!Reset
    /\ numReserved' = 0 /\ saved' = << >>
    /\ input' = << >> /\ m' = NoMachine
    /\ UNCHANGED << place, ir >>

\* gen for the next instruction of the intermediate code.
SelectNext ==
    /\ phase = "select"
    /\ pending = << >>
    /\ selected < Len(fn.insts)
    /\ LET I == fn.insts[selected + 1]
           s == Select(Selection(nodes, virt), I,
                       IF I.op = "alloca" THEN ObjectOf(fn, I) ELSE -1,
                       NextBlock(fn, selected + 1))
       IN  /\ nodes' = s.nodes
           /\ virt' = s.virt
           /\ pending' = s.insts
    /\ selected' = selected + 1
    /\ UNCHANGED << phase, place, ir, code, operands, CurrentCallInstIndexes,
                    RegLiveRangesMap, alloc, frame, run >>

\* updateRegLiveRanges for the next register of the next selected instruction.
UpdateRegLiveRanges ==
    /\ pending # << >>
    /\ Len(operands) < Len(UpdatedRegs(Head(pending)))
    /\ UNCHANGED << phase, place, ir, selected, nodes, virt, pending, code, alloc, frame, run >>
    /\ LR!UpdateRegLiveRanges(UpdatedRegs(Head(pending))[Len(operands) + 1])

\* AsmInstruction::create for it.
CreateInst ==
    /\ pending # << >>
    /\ operands = UpdatedRegs(Head(pending))
    /\ pending' = Tail(pending)
    /\ code' = Append(code, Head(pending))
    /\ IF IsCall(Head(pending)) THEN LR!CreateCALLInst ELSE LR!CreateInst
    /\ UNCHANGED << phase, place, ir, selected, nodes, virt, alloc, frame, run >>

-------------------------------------------------------------------------------
(* AsmRewriter::rewrite *)

\* doRegAlloc's initIntervalSets.
StartRegAlloc ==
    /\ phase = "select" /\ pending = << >> /\ selected = Len(fn.insts)
    /\ phase' = "allocate"
    /\ LS!InitIntervalSets(RegLiveRangesMap)
    /\ UNCHANGED << place, ir, build, frame, run >>

\* doRegAlloc's loop.  getFreePhysReg goes through a hash table to which no key is
\* ever added, so that a run of the program always looks in the same order.
Allocate ==
    /\ phase = "allocate"
    /\ \E LI \in Unhandled :
           LET suitable == SelectSeq(order, LAMBDA r : r \in LS!FreePhysRegs(LI)) IN
           /\ LS!Iterate(LI)
           /\ suitable # << >> => VirtRegToAllocatedRegMap'[LI.Reg] = Head(suitable)
    /\ UNCHANGED << phase, place, ir, build, frame, run >>

RewriteAllocated ==
    /\ phase = "allocate" /\ Unhandled = {}
    /\ phase' = "spill"
    /\ code' = RewriteVirtRegToPhysReg(code, VirtRegToAllocatedRegMap)
    /\ UNCHANGED << place, ir, selected, nodes, virt, pending, operands,
                    CurrentCallInstIndexes, RegLiveRangesMap, alloc, frame, run >>

SpillFrame == [LocalFrameSize |-> LocalFrameSize(fn), NumSpilledReg |-> Len(Spilled)]

RewriteSpilled ==
    /\ phase = "spill"
    /\ phase' = "frame"
    /\ code' = RewriteSpilledRegToStackSlot(code, SpillFrame, VirtRegToAllocatedRegMap)
    /\ numReserved' = MaxNumReserved(code)
    /\ UNCHANGED << place, ir, selected, nodes, virt, pending, operands,
                    CurrentCallInstIndexes, RegLiveRangesMap, alloc, saved, run >>

\* main does not save the callee-saved registers it uses.
UsedCalleeSavedRegs ==
    IF isMain THEN {} ELSE { VirtRegToAllocatedRegMap[v] : v \in VirtRegs } \cap CalleeSaved

\* The frame without the saved registers.
FrameSize ==
    MaxCallFrameSize(fn) + LocalFrameSize(fn)
        + RegisterSize * Len(Spilled) + RegisterSize * numReserved

\* insertPrologue, insertEpilogue and adjustStackFrame.  The registers come out
\* of a hash table, in any order.
InsertFrame ==
    /\ phase = "frame"
    /\ phase' = "compiled"
    /\ \E s \in SetToSeqs(UsedCalleeSavedRegs) :
           /\ saved' = s
           /\ code' = AdjustStackFrame(
                          Prologue(s, FrameSize) \o code \o Epilogue(s, FrameSize),
                          StackObjects(fn), StackArgs(fn), s)
    /\ UNCHANGED << place, ir, selected, nodes, virt, pending, operands,
                    CurrentCallInstIndexes, RegLiveRangesMap, alloc, numReserved, run >>

-------------------------------------------------------------------------------
(* The run of the function *)

Enter ==
    /\ phase = "compiled"
    /\ phase' = "run"
    /\ \E args \in Inputs(decl) : input' = args
    /\ m' = Entered(input')
    /\ UNCHANGED << place, ir, build, alloc, frame >>

Step ==
    /\ phase = "run"
    /\ m' = Execute(m, code)
    /\ phase' = IF code[m.pc].opcode = "RET" THEN "done" ELSE "run"
    /\ UNCHANGED << place, ir, build, alloc, frame, input >>

Next ==
    \/ StartFunction \/ GenerateStmt \/ GenerateReturn \/ GenerateConstructor
    \/ BuildFunction
    \/ SelectNext \/ UpdateRegLiveRanges \/ CreateInst
    \/ StartRegAlloc \/ Allocate
    \/ RewriteAllocated \/ RewriteSpilled \/ InsertFrame
    \/ Enter \/ Step

Spec == Init /\ [][Next]_vars

-------------------------------------------------------------------------------
(* Properties *)

\* Spill slots and reserved slots are laid out as if nothing but the local
\* variables lay below the frame pointer, so that they can lie in the words of
\* saved registers or of other variables.  What the code does is stated for the
\* frames in which they do not: those words are of variables nobody uses.
SpillWords ==
    { StackSlotOffset(SpillFrame, [StackSlot |-> n]) : n \in 0 .. Len(Spilled) - 1 }
        \cup { ReservedSlotOffset(SpillFrame, n) : n \in 1 .. numReserved }

SavedWords ==
    { -RegisterSize * n : n \in 1 .. SavedBytes(saved) \div RegisterSize }

UsedWords ==
    LET Used(I)   == \E n \in DOMAIN fn.insts : InstValue(I.id) \in ToSet(fn.insts[n].args)
        Offset(I) == ObjectOffset(StackObjects(fn), StackArgs(fn), saved, ObjectOf(fn, I) + 1)
    IN  UNION { { Offset(I) + RegisterSize * n : n \in 0 .. I.attr \div RegisterSize - 1 }
                : I \in { I \in ToSet(Allocas(fn)) : Used(I) } }

FrameFits == SpillWords \cap (SavedWords \cup UsedWords) = {}

\* "local vars space" and below it "space for spilled regs": no spill slot lies in
\* a local variable or a saved register.
SpillFrameIsApart == phase \in {"compiled", "run", "done"} => FrameFits

\* The compiled function computes what its source means: it makes the same
\* calls with the same arguments in the same order, and returns the same value.
\* Every register it holds across a call or a branch, borrows for spilled values
\* or shares between divisions, every address it computes and every word of its
\* frame must hold what it should.
BehavesAsTheSource ==
    phase = "done" /\ FrameFits =>
        LET meaning == Meaning(decl, input, AllocName, FreeName)
        IN  m.calls = meaning.calls /\ m.regs[ResultRegister] = meaning.result

\* The function leaves its caller undisturbed: it returns to it, with the stack
\* pointer, the frame pointer and the caller's words as they were, and the
\* callee-saved registers too, in every function but main.
CallerIsUndisturbed ==
    phase = "done" /\ FrameFits =>
        /\ m.pc = ReturnAddress
        /\ m.regs[StackPointer] = CallSP
        /\ m.regs[FramePointer] = CallerReg(FramePointer)
        /\ \A r \in CalleeSaved \ {StackPointer} : ~ isMain => m.regs[r] = CallerReg(r)
        /\ \A a \in DOMAIN m.mem :
               a \in CallSP + RegisterSize * StackArgs(fn) .. CallSP + 1000 =>
                   m.mem[a] = CallerWord(a)

\* Each call is made as the calling convention asks: with the stack pointer
\* aligned to 16 bytes, and on x86 with RAX zero for a variadic function.
CallsFollowTheConvention == phase \in {"run", "done"} => m.conventional

\* No live range of a virtual register reaches over the beginning of a block.
\* Ranges follow the order of the code and not the flow of control, so that a
\* value that a loop carried round, or that one branch defined, would lose its
\* register; and what a spilled register needs after a branch is never executed.
RangesStayInBlocks ==
    phase \in {"select", "allocate"} =>
        \A v \in DOMAIN RegLiveRangesMap \cap VirtRegs :
            \A n \in DOMAIN RegLiveRangesMap[v], k \in DOMAIN code :
                code[k].opcode = "LABEL" =>
                    k - 1 \notin RegLiveRangesMap[v][n].StartPoint + 1
                                    .. RegLiveRangesMap[v][n].EndPoint - 1

===============================================================================
