# remniw in TLA+

remniw is a small compiler (C++, LLVM) with a native back end and a runtime
library. Source files (`.rw`) are parsed with ANTLR, turned into an AST, given
types by unification, and compiled to LLVM IR. The IR goes to LLVM, or to
remniw's own back end, which selects instructions by tree matching (olive),
allocates registers by linear scan and prints x86-64 or RISC-V assembly. Linked
programs may use *Aphotic Shield*, a sampling-free guarded pool allocator (in
the manner of GWP-ASan) that detects heap errors and reports them from a
SIGSEGV handler.

This directory holds TLA+ modules for the parts of the program whose logic is
worth checking, TLC configurations for small instances, and theorems with proofs
for TLAPS. Line numbers are those of the files named in `PROJECT.json`, whose
`map` ties every definition to the code. Files of the code are given below
relative to the repository's `src/`.

## 1. Inventory

### Runtime (`runtime/aphotic_shield/`)

| Part | State | Operations |
|---|---|---|
| Guarded pool (`guarded_pool_allocator.{h,cpp}`, `mutex.h`) | `NumAllocations`, `FreeSlots`/`FreeSlotsLength`, `Metadata[]`, `PoolMutex`, the protection of 2N+1 pages, `State.FailureType/FailureAddress`, `RandomState` | `init`, `allocate`, `deallocate`, `reserveSlot`, `freeSlot`, `trapOnAddress`, address arithmetic |
| Allocation interface (`aphotic_shield_allocator.cpp`, `aphotic_shield_interface.cpp`) | none of its own | `as_alloc`, `as_dealloc`: the pool first, else `malloc`/`free` |
| Error report (`error_report.cpp`) | the process's disposition for SIGSEGV | `installSegvSignalHandler`, `sigSegvHandler`, `dumpReport`, the diagnosis |
| Options (`options.{h,cpp,inc}`) | the option values | parsing of a `key=value:...` string |

*Interaction.* Client threads call the interface; it calls the pool; the pool
takes `PoolMutex` once to allocate and twice to deallocate, and does its
`mprotect`/`mmap` calls and part of its stores to the metadata outside it. A detected error
is two stores and a write to a guard page: from there on the kernel calls
the handler, in the faulting thread, while all others go on. The handler reads
the pool without a lock.

*Hard behaviour.* Interleavings of allocation, deallocation and faults; a check
made before the lock is taken; stores that become visible out of order; a
mutex that is never released after an error; one disposition for all threads.

*Correct means.* No page has two owners; a freed page faults; a correct client is
never accused and finds a heap; every error of an incorrect client kills the
process and is reported under its right name; the first error wins.

### Code generation (`codegen/asm/`, `codegen/ir/`)

| Part | State | Operations |
|---|---|---|
| IR code generator (`IRCodeGeneratorImpl.cpp`) | insertion point, names of functions and places of variables | one `codegen...` per AST node |
| Tree builder and instruction selection (`BrgTreeBuilder.h`, `X86AsmBuilder.cpp`, `RISCVAsmBuilder.cpp`) | tree per IR statement, stack offsets of `alloca`s, `CurrentFunction` | `visit...`, `handle...`, `create...Inst` |
| Live ranges (`AsmBuilder.h`, `LiveInterval.h`) | `InstList`, `CurrentCallInstIndexes`, `RegLiveRangesMap` | `build`, `updateRegLiveRanges`, `createCALLInst` |
| Register allocator (`RegisterAllocator.h`, `TargetInfo.h`) | `Unhandled`, `Fixed`, `Active`, `Spilled`, `FreeRegisters`, `VirtRegToAllocatedRegMap`, `StackSlotIndex` | `doRegAlloc` and its helpers |
| Rewriter (`AsmRewriter.h`, `X86AsmRewriter.h`, `RISCVAsmRewriter.h`) | the instructions of a function | virtual to physical registers, spill code, prologue, epilogue, stack frame |
| Symbols (`AsmContext.cpp`), printers, driver | names, files | creation of unique names, output |

*Interaction.* A pipeline over a module: trees, then instructions with live
ranges for every function, then one allocator and one rewriter that go through
the functions in turn. The allocator sees only ranges, never instructions, so the
builder's ranges are its contract with the builder; the rewriter trusts the
allocator's locations and its count of spilled values. The IR generator's promise to
all of them is that a value other than an `alloca` is used in its own block, since
ranges follow the order of the code.

*Hard behaviour.* Half open ranges and their ties; what one function leaves
behind for the next; registers that instructions name themselves; a register
handed over without asking whether it suits; offsets of a frame computed in two
places.

*Correct means.* Values that are live together are apart; values used after a call
survive it; spill slots are inside the frame; the program computes what the
IR says.

### Front end (`frontend/`, `semantic/`)

| Part | State | Operations |
|---|---|---|
| AST builder (`ASTBuilder.cpp`) | the node just built, `exprIsLValue`, the declarations of the function | one `visit...` per rule of the grammar |
| Types (`Type.h`, `Type.cpp`) | one object per type | `get` functions |
| Type analysis (`TypeAnalysis.{h,cpp}`, `RecursiveASTVisitor.h`) | `Constraints`, `Parent` of the union-find structure | one `actAfterVisit...` per node, `unify`, `solve` |
| Symbol table (`SymbolTable.h`) | three maps | filled and printed; nothing looks a name up in it |

*Interaction.* Sequential: parse tree, syntax tree, types, intermediate code. Types are
kept once, so all uses of a type in a program share one class of the analysis.

*Hard behaviour.* Which expressions are places and which are values, decided on the way
down and used two phases later; variables that hide functions; recursion of `unify` over
types that contain each other, with ignored results.

*Correct means.* A name means its declaration; the code of a function does what its
source says; the analysis ends and does not reject a well typed program.

### Not the program's own logic

The ANTLR grammar and the generated parser, olive (third-party), the AST and
assembly printers, the driver, the empty optimizer directory.

## 2. Plan

Modules in the order of importance; a tick marks those that exist.

| | Module | Code | Composes | Theorems |
|---|---|---|---|---|
| ✓ | `PoolGeometry`, `GuardedPool` | guarded pool | geometry in the pool | inductive invariants for any client and for correct ones: eight safety properties, one action property |
| ✓ | `BlockHeap` | promise of `as_alloc`/`as_dealloc` | refined by `GuardedPool` | the refinement, for every pool |
| ✓ | `ErrorReport` | signal handler | `GuardedPool` | each step is one of the pool's; traps, uses after free and accesses out of bounds are reported as such |
| ✓ | `LiveIntervals`, `LiveRanges` | builder's ranges | shared definitions | ranges are exact; the allocator's assumption holds |
| ✓ | `LinearScan` | allocator | `LiveIntervals` | inductive invariant, five safety properties; no register is lost within a function |
| ✓ | `AsmCodeGenerator` | the driver's way from the builder to the rewriter | `LiveRanges`, `LinearScan` | it refines both; the places given out are right for the instructions |
| ✓ | `AST`, `ASTBuilder`, `IR`, `IRCodeGenerator` | front end, to intermediate code | operators | - |
| ✓ | `AsmCode`, `BrgTree`, `AsmRewriter` | what the two targets share | operators, with the target as constants | - |
| ✓ | `X86TargetInfo`, `X86AsmBuilder`, `X86AsmRewriter` | x86 | in the place of the constants of `BrgTree` and `AsmRewriter` | - |
| ✓ | `RISCVTargetInfo`, `RISCVAsmBuilder`, `RISCVAsmRewriter` | RISC-V | in the place of the constants of `BrgTree` and `AsmRewriter` | - |
| ✓ | `Codegen` | the compiler behind its front end, to the run of the code | all of the above, `LiveRanges`, `LinearScan` | - |
| ✓ | `Environment`, `SourceMeaning`, `Machine`, `X86Machine`, `RISCVMachine` | (the language, the processors and what surrounds a function) | - | - |
| ✓ | `Unification` | union-find and unification | - | no cycles; classes only grow, are uniform, solve what is accepted and join parts; what has a solution is accepted |
| ✓ | `TypeConstraints`, `TypeAnalysis` | constraints of a program | `Unification` | - |
| | `Symbols` | spelling of labels in `AsmContext` | - | - |

Abstract specifications: the heap of blocks (`BlockHeap`), and the meaning of the source
language (`SourceMeaning`), which the compiled code is compared with on both targets.

Left to prove: nothing that the prover reaches among the properties of the runtime, the live ranges,
the allocator, their composition and unification. What could be done next is a bound on the number of nested calls of
`unify` (the safety half of `AnalysisEnds`), and the back end's operators on single instructions, which
would have to be set apart from those that recurse over trees.

## 3. Modules and the code

### `PoolGeometry`

Address arithmetic: slots, guard pages, `getNearestSlot`, alignment, the two
addresses a block may get in its page. Addresses are naturals; bit masks are
written with `%`. `PoolAssumption` and `AlignmentAssumption` say what `mmap`
and `sysconf` return: a non-null page address, powers of two.

### `GuardedPool`

Variables carry the code's names. Per thread, `pc` is the point between two
accesses to shared state and `req`, `slot`, `index`, `ptr` are the locals.
One action is what a thread does between two points where others can be seen:

* `Allocate` (the checks before the lock), `LockReserve`, `ReserveSlot` (choice),
  `RemoveSlot` (update and unlock), `MapSlot` (`mprotect`), `StoreAddr` and
  `StoreFlag` (`RecordAllocation`), `Return`; `Malloc` is the fallback;
* `Deallocate` (`pointerIsMine`, else `free`), `CheckAddr` (without the lock),
  `LockDeallocate`, `CheckDeallocated`, `RecordDeallocation`, `Unmap`,
  `LockFreeSlot`, `FreeSlot`;
* `LockInvalidFree`, `StoreFailureType`, `StoreFailureAddress` for both traps;
* `Access`: a client touches an inaccessible page; `Die`: what the handler
  comes to, refined by `ErrorReport`.

`mprotect` and `mmap` succeed (the code exits otherwise). The random choices
(which free slot, which end of the page) are nondeterministic. `Misuse` are the
calls of an incorrect client: freeing an address again, freeing an address that
no allocation returned, using an address not owned. `live` and `issued` are
what the clients know; no action of the pool reads them, except `Malloc`, whose
outside world knows its own blocks and never returns one that lies in the
pool's mapping.

`StoresInOrder` says whether the two stores of `RecordAllocation`, which are
made without the mutex, become visible in program order. With `TRUE` any client
is checked; with `FALSE` only correct ones, to whom the order cannot matter
(an incorrect client that frees a stale pointer between the reordered stores
can get a slot into the free list twice; this is a data race of that client with
the allocation, and x86 does not reorder the two).

### `BlockHeap`

The abstract specification: blocks that are live never overlap. `GuardedPool`
implements it for correct clients with the identity on `live` (`HeapSpec`).

### `ErrorReport`

Extends `GuardedPool` by each thread's place in `sigSegvHandler`, what it
printed, the disposition and the fatal signal. The actions are the delivery of
the signal and `dumpReport`'s choice of `ErrorPtr` (`ChooseErrorPtr`,
`DefaultAction` when another thread has reset the disposition), the diagnosis
(`PrintReport`), `signal(SIGSEGV, SIG_DFL)` (`ResetDisposition`), `raise`
(`Raise`). `PoolSpec` says that the composition is the pool, with all of this
in the place of `Die`.

### `LiveIntervals`, `LiveRanges`

A register is a member of `VirtRegs` or `PhysRegs` (intervals of numbers in the
code). `LiveRanges` builds functions one after the other:
`UpdateRegLiveRanges(reg)` for each register operand, then `CreateInst` or
`CreateCALLInst`; `BuildFunction` goes on to the next function. Of an
instruction only its registers and whether it is a call are kept.

### `LinearScan`

`doRegAlloc` for any sequence of functions on one allocator: `Reset`,
`InitIntervalSets(m)`, then `Iterate(LI)`, one turn of the loop (expiry, then
`AssignPhysReg`, `SpillActive` or `SpillCurrent`). The queue and the sorted list
are sets read through `IsTop` and `IsBack`; ties, and the order of the hash
table of registers, are open. `InputAssumption` (`WellFormed`) is what the
allocator relies on; `LiveRangesProofs` proves that `LiveRanges` delivers it.

### `AsmCodeGenerator`

The two passes of `AsmCodeGenerator::compile` over a module, as far as registers go:
it extends `LiveRanges` by an instance of `LinearScan` and the code between them. `BuildAsmFunction` and
`BuildInstruction` are the builder's steps and fill `AsmFunctions`; `RewriteNext` goes on to the next
function that has instructions (`rewrite` skips the empty ones) and resets the one allocator,
`InitIntervalSets` passes it that function's live ranges, `Iterate` is a turn of its loop. The
builder never works on a function that is being allocated, and the allocator never sees an instruction.
`ValuesArePreserved` is about the instructions: from one use of a virtual register to another none in
between names the register or slot that it is in, and none is a call that may overwrite it. It is
stated over the order of the code; values do not cross blocks (`RangesStayInBlocks`).
`Codegen` has the same parts with real instructions and runs the result, on chosen programs;
here the instructions are arbitrary, and the property can be proved.

### `AST`, `ASTBuilder`

A syntax tree is a record of records, with the kinds of `AST.h`; a type is a record too,
and types are the same when they are equal, as the code keeps each once. The parse tree's
nodes bear the names of the grammar's alternatives. `ASTBuilder` has one operator per
`visit...` function; the flag `exprIsLValue`, which the code sets before it visits a child,
is a parameter. `lookupDeclInScope` resolves names: parameters first, then variables, then
functions.

### `IR`, `IRCodeGenerator`

`IR` has LLVM's instructions and values as far as the code generator makes and reads them,
and the folding of constants that `IRBuilder` does by itself. `IRCodeGenerator` has one
operator per `codegen...` function, from a state of the generator to the next: blocks in
the order of their insertion, an `alloca` always at the beginning of the first.

### `SourceMeaning`, `Environment`

What a function of the language means, as an interpreter of the syntax tree: the calls it
makes, with their arguments, and its result. It shares nothing with the translation: it
finds places by where an expression stands, not by the flags the builder set.
`Environment` is what a function meets: memory, arguments, what the functions that it calls
return, and `Junk` for whatever it must not rely on. Both are external.

### `AsmCode`, `BrgTree`, `AsmRewriter`

The part of the native back end that the targets share, as operators. `AsmCode` has operands
and instructions, and the registers of the target as constants; the virtual functions of `AsmBuilder`
are constants of `BrgTree`, and those of `AsmRewriter` constants of `AsmRewriter`. `BrgTree` is the selection: every instruction of
a block is the root of a tree; loads, calls and operations are executed in the order of the
code, once, and addresses and conditions where they are used; a tree without a rule is dropped
(`Covered`). `AsmRewriter` puts in registers, emits spill code and gives stack objects their
place.

### `X86...`, `RISCV...`

One operator per `handle...` function of a target's builder, from its operands to the
instructions it emits and the operand that holds the result; the registers an instruction
makes live, in the order of `updateRegLiveRanges`; the target's half of the rewriter: used
registers, prologue, epilogue, and on RISC-V the offsets that go through RA.

### `Machine`, `X86Machine`, `RISCVMachine`

What the instructions do: registers, memory of 8-byte words, the call of a function
that keeps to the calling convention and leaves junk wherever it may. A RISC-V instruction
whose immediate does not fit gives junk. This is not the repository's code but what
its output relies on (the `map` marks it external).

### `Codegen`

One function after the other through the compiler behind its front end, with one action
per step: `StartFunction`, `GenerateStmt` and `GenerateReturn` (a function's intermediate
code, through `IRCodeGenerator`; `GenerateConstructor` for the one that has no source),
`BuildFunction`, `SelectNext`, `UpdateRegLiveRanges` and `CreateInst` (through `LiveRanges`), `StartRegAlloc` and `Allocate` (through
`LinearScan`), `RewriteAllocated`, `RewriteSpilled`, `InsertFrame`; then `Enter` and
`Step` run the result. What is open in the code is open here: ties in the
allocator's queue, the register taken from the hash table (in the orders of
`TableOrders`), the order in which registers are saved. The machine's calls and its
result are compared with `Meaning`. The code takes all functions of a program through one
part before the next part begins; the parts share nothing, so the model takes each function
through all before the next.

### `Unification`

A structure of the class `UnionFind` is a function from types to parents, and `find`, which shortens
paths, and `unionTypes` are operators on it. The constraints of a program are solved in order: `SolveConstraint` is the outermost call of `unify`, `UnifyParts` one of the calls
inside it. As these calls' results are ignored, the sequence `pending` of those still to be made is
all there is to the recursion. What a type is made of matters only as far as `unify` looks.
`Solutions` gives some of the systems a solution: a value for each type, the same for both sides
of each constraint, which two proper types share only if they fit together and their parts have
equal values (`TellsMisfitsApart`). `SolutionsAssumption` asks this of each of them.

### `TypeConstraints`, `TypeAnalysis`

`AfterVisits` lists the nodes of a program in the order of the visits; `ConstraintsFor` is the
constraint of a node, as a pair of types, where a node without a declared type has a variable
of its own. `TypeAnalysis` extends `Unification`, whose `Systems` are the constraints of programs
(`SystemsAssumption`), and whose `Solutions` are the types that well typed programs declare
(`WellTypedAssumption`, `Declared`); `WellTyped` are the rules of the language, by the
declarations alone. Only these modules recurse over trees, so that `Unification` can be proved
about. `TypesAssumption` checks on the programs what its theorems ask for.

### Slips

An operator whose comment starts with "Slip" is not part of the model. It
is a definition of the model with a mistake (a dropped lock, a guard or a reset
left out, an off by one); each property is known to fail under one of them.

## 4. What the runs check

| Run | Instance | Shows |
|---|---|---|
| `any_client` | 2 threads, 2 slots, any client, stores in order | `SlotExclusive`, `FreeListHasRoom` (the assertion in `freeSlot`), `UnmappedIsRecorded`, `FreePagesAreInaccessible`, `FirstErrorIsKept`, types |
| `owner` | 2 threads, 2 slots, correct clients, 4 kinds of request, one heap address, stores reordered | `NoFalseAlarm`, `LiveIsUsable`, `SlotsAreConserved`, refinement of `BlockHeap` |
| `report` | 2 threads, 1 slot, any client, the handler | `TrapIsReported`, `UseAfterFreeIsReported`, refinement of the pool (`PoolSpec`), `FaultIsFatal`, `ErrorIsFatal`, `MutexIsReleased` |
| `diagnosis` | 1 thread, 2 slots, every byte of the guard pages | a fault next to a slot that has been used is reported as its overflow or underflow (`OutOfBoundsIsReported`) |
| `allocation` | 3 virtual registers, ranges in 0..4, up to 2 calls, 2 caller-saved and 1 callee-saved register, fixed registers | values that are live together are apart (`LiveValuesAreApart`), named registers are reserved (`FixedRegistersAreReserved`), values survive calls (`ValuesSurviveCalls`), the spill area has room (`SpillAreaHoldsTheSlots`), and no register is lost within a function (`NoRegisterIsLost`), over any sequence of functions |
| `registers` | modules of up to 2 functions with 3 instructions of 2 operands in all, 2 virtual registers, 1 caller-saved and 1 callee-saved register | ranges are exact (`UsesAreLive`, `RangesAreTight`), calls are noticed exactly (`CallsAreNoticed`), and the form is the one the allocator relies on (`RangesAreWellFormed`); builder and allocator together: no instruction between two uses of a value touches its place (`ValuesArePreserved`) |
| `compile` | 3 programs of 9 functions; 8 registers, of which 6 are given out, 2 of them callee-saved, 2 for arguments; 2 orders of the hash table | the compiled code does what the source means (`BehavesAsTheSource`), leaves its caller as it was (`CallerIsUndisturbed`), calls as the convention asks, and no value is live from one block to the next (`RangesStayInBlocks`) |
| `compile_riscv` | 4 programs of 13 functions; 10 registers, of which 7 are given out; immediates of 7 bits | `BehavesAsTheSource`, `CallerIsUndisturbed`, `RangesStayInBlocks` (RISC-V branches name registers and can get spill code of their own, x86 branches cannot) |
| `types` | the programs of the two above, and 224 of two assignments between variables of six types | the analysis ends, no program whose declared types solve its constraints, as those of each well typed one do, is rejected (`SolvableIsAccepted`), what is accepted is solved (`AcceptedIsSolved`), a class has one shape (`ClassesAreUniform`), what was joined stays joined (`ClassesOnlyGrow`), and so do parts of joined types (`PartsAreJoined`) |
| `stale_free`, `two_quotients`, `frame_overlap` | see below | the code differs from a comment or a test |

**Bounds.** A slot is a page of 4 bytes between two guard pages, enough for both
ends of the page, a middle, and an alignment that differs from 1. Two slots give
`reserveSlot`'s swap something to swap and `getNearestSlot` a guard page with
two neighbours; two threads are enough for every pair of conflicting steps, and
the proofs cover any number. In `report` one slot keeps the liveness check
small; a slot that is handed out again is what matters there. For the
allocator three intervals on at most three registers meet every case of the
loop: expiry, both cases of spilling, a register handed over twice, a call
across a handed over register, and registers leaked by an earlier function
until none is left. In `registers`
three instructions let a physical register have two ranges with a hole, or a range inside
another when an instruction names it twice, and a virtual register live across a call that does
not name it; with two registers of each kind one value is spilled, a named register is taken
from both, and the second function meets the registers that the first has left taken.

In `compile` the register set is cut down so that small functions meet what large
ones meet on the real machine: six registers to give out instead of fourteen and two
argument registers instead of six. The functions are chosen for what they need:
four values waiting at once, quotients with an operand in each kind of place, values
across calls (so callee-saved registers, saved in either order if there are
two), arguments and parameters on the stack, functions as values, pointers, the heap,
arrays of arrays, a loop with branches, input and output, and `main`. As registers leak from
one function to the next (`doRegAlloc` does not reset `FreeRegisters`), later functions of a
program are compiled with ever fewer registers, down to instructions with two spilled operands
(two reserved slots) and none left. `TableOrders` bounds the choice of a register to two orders
of the hash table, opposite to each other; `allocation` has every choice. `MaxVirtReg` and
`StackDepth` are what the largest function needs.
On RISC-V immediates have 7 bits (`ImmLimit`), so that a frame of a few words is out of their
reach and its stack pointer moves in two steps, through RA and T0, as for frames of more than
2047 bytes. Variables and arguments take 8 bytes and integers have no width.

Where spill slots share words with saved registers or with variables in use, the code is
wrong (`frame_overlap`), and the two properties are stated for the other functions
(`FrameFits`). Functions that spill have variables that nobody uses (`pad`) at the place
where the slots come to lie, so that `FrameFits` holds for them and their spill code is
checked. Left out of the programs is what the compiler is known to get wrong: a quotient
that waits on x86 while another quotient or a call takes its register (`two_quotients`), conditions that are constant on x86 (a branch to the second
block falls into the first), an address or a function as an argument on the stack on x86
(the value at the address is passed), a comparison with an address or a store of an address
through a pointer (no rule covers it, and the instruction is dropped), a variable row of an array
of arrays on x86 (an assertion fails), comparisons as values, a loop on a comparison of constants
(`codegenWhileStmt` compares it with a 0 of another type; `codegenIfStmt` does not), and expressions such as `*&x`
on the left of an assignment. On RISC-V the first three are checked to work.
Uninitialised variables and division by zero have no meaning in the language.

In `types`, six types (int, two levels of pointers, arrays of two lengths, a function) meet
in all pairs on both sides of an assignment, before or after one of four that join types in
ways the later constraints depend on: an array with a pointer, a pointer with its own address,
arrays of different lengths, functions. 20 programs are well typed, 51 are accepted though
they are not (the ignored results of nested calls), 157 are rejected.

**Fairness.** Weak fairness of each thread's steps inside a call (`InCall`) and in
the handler (`HandlerStep`, or `Die`): the kernel schedules every thread that
can run. Clients need not call anything. Nothing is assumed about who gets a
contended mutex: a thread may starve, and `MutexIsReleased` and
`FaultIsFatal` hold all the same. The type analysis is one sequential computation that goes on
until it is done, hence weak fairness of its `Next`. Deadlock is checked but in
`registers`, `compile`, `compile_riscv`, `types` and the two violations of the compiler, which end when
their programs do; a dead process stutters (`ProcessIsDead`).

**Disagreements with the repository's comments** (each a run that TLC finds
violated):

* `stale_free`: `deallocate` compares `Meta->Addr` with the pointer before it
  takes `PoolMutex` and not again under it. When a pointer is freed twice, by two
  threads, the second free can pass both checks after the slot was handed
  out again, and deallocates the new owner's block.
* `two_quotients`: `handleSDIV` leaves the quotient in RAX and says so to whoever uses
  it. A second division before that use overwrites it: `a/b + b/a` is compiled to
  twice `b/a`. The tests hold compiled programs to the output of the interpreted IR,
  but divide once per expression.
* `frame_overlap`: the comment in `X86AsmRewriter.h` draws the spill frame below the
  local frame, and that below the saved registers. The offsets of the spill slots leave
  out the saved registers, so in a function that has both, spill slots and local
  variables share words. On the full register set this takes a function other than
  `main` that keeps more than five values across a call (fewer after earlier
  functions have left registers taken).

Not runs, but seen while modelling: with the pool disabled the signal handler is
installed all the same, and `assert(Metadata)` in `dumpReport` aborts the process on any
fault. A use after free goes unrecognised when another thread has recorded a new
allocation of the slot before the handler reads the metadata; until then the report is right, also
when the slot is on its way back or has been reserved again (`UseAfterFreeIsReported`). "Reset the internal states" (`RegisterAllocator.h:54`) leaves
`FreeRegisters` alone, and registers of intervals active at the end of a function stay taken;
that is the only way to lose one (`NoRegisterIsLost`), and the allocation stays correct (`allocation` covers it), only slow. Names made by
`AsmContext::getOrCreateSymbol` are not entered in `UsedNames`, so that two blocks of
different functions can get one label.

Two facts the runs brought to light and that a change of the code could break:
`getFreePhysReg` joins the two comparisons of its conflict test with `||`
(`RegisterAllocator.h:141`), so that a register with any fixed range is never
given to a value. With `&&`, the usual test for overlap, `FixedRegistersAreReserved`
fails: values would get argument registers between their move and the call, and
`spillAtInterval` would hand such registers on without a check. And
`spillAtInterval` does not ask whether the register it hands over survives
LI's calls; it is right because the interval it takes it from is longer, was live
at the same call, and hence was itself given a callee-saved register.

## 5. What is proved

Eight modules hold theorems. For the runtime each builds on the one before: `PoolGeometryProofs`,
`GuardedPoolProofs`, and on this `PoolOwnerProofs` and `ErrorReportProofs`.
`LiveRangesProofs`, `LinearScanProofs` and `UnificationProofs` each extend the module they are about,
and `AsmCodeGeneratorProofs` puts the first two of these together.

### The pool

`PoolGeometryProofs` has the lemmas about addresses: slots are apart, the user pointers of a
slot lie in its page, `getNearestSlot` maps a page back to its slot, and the half of a guard page
next to a slot to that slot.

`GuardedPoolProofs`, for every number of threads and slots, every page size and
set of requests, and any client, when the stores of `RecordAllocation` are in
order (`StoresInOrder`): `SlotsAreExclusive`, `UnmappedPagesAreRecorded`, `FreePagesFault`,
`FreeListNeverOverflows`. None of the properties is inductive. The invariant
`IndInv` adds mutual exclusion (`MutexInv`), what a thread between
`reserveSlot`'s two steps knows of its choice (`ChoiceInv`), the locals of both
calls (`RequestInv`, `PointerInv`), that nobody has a pointer into a slot never
handed out (`IssuedInv`), and, for every slot that is in the free list, on its way
there, or taken out and not yet recorded, that it is marked deallocated
(`FlagInv`). This is what makes a second free stop at `IsDeallocated`, even though
the address check before it may be stale: the properties hold although `stale_free`
shows that check to come too early. That the free list never overflows follows by
counting: its entries are distinct slots, and the one being released is not among them.
`StoresInOrder` cannot be dropped here: with reordered stores and an incorrect client, TLC
violates `SlotExclusive`.

Its second part has what needs no order of stores: `TypeCorrect` and `FirstErrorWins`, from
`AnyOrderInv`, the part of `IndInv` about the mutex, the locals and the addresses issued.

`PoolOwnerProofs` is about clients that free and use what they own (`OwnerSpec`), in whatever
order stores become visible: `CorrectClientsAreNotAccused`, `BlocksAreUsable`, `NoSlotIsLost`, and
`PoolImplementsHeap`, that the pool with its fallback to malloc implements `BlockHeap`. That a block
is as aligned as it was asked for rests on `PoolGeometryProofs`: a slot begins at a page, an
alignment divides the page, and both ends of the slot are moved to multiples of it
(`UserPointerAligned`). `OwnerInv`
says where each slot is: never handed out, in the free list, with a thread inside a call, or under
one live block (`PlacesInv`); that these places count up to `numAllocations` (`CountInv`); what
the metadata and the protection are for each (`ContentInv`); and that the blocks of malloc are
apart from each other and from the pool (`HeapInv`). As a slot is in one place only, the late stores
of an allocation meet no other call's.

### The handler

`ErrorReportProofs` proves first that every step of pool and handler together is a step of the
pool or leaves its variables alone (`ReportRefinesPool`, `PoolSpec` without fairness), so that
the pool's invariants hold of the composition, and then:

* `TrapsAreReported`: a thread that trapped, and holds the mutex for ever, reports
  the failure on record. The invariant follows a trap from the two stores to the report: as
  long as the mutex is held, nobody else gets to the stores (`TrapInv`).
* `OutOfBoundsAccessesAreReported`: a fault in the half of a guard page next to a slot
  that has been used gets its name, for any client and order of the stores.
* `UsesAfterFreeAreReported`, when stores are in order: so does a fault in a page that is
  in the free list at the time of the diagnosis, because every slot there is marked deallocated,
  and a fault in the page of any slot whose recorded allocation is in nobody's hands any more
  (`InHands`). `HandsInv` says that such an allocation is marked deallocated: a record
  loses its last holder only where its deallocation is recorded, and a thread that reserves
  the slot again leaves the record alone until it stores a new address, which it then holds.

### Live ranges and register allocation

`LiveRangesProofs`, for any registers and bounds: `TypeCorrect` (proved, and in no run), and
`RangesMeetTheAssumption`: whatever instructions are built, the ranges meet
`WellFormed`. Its invariant says that no range goes beyond the code, and that
the last range of a virtual register is flagged if and only if a noted call index
lies in it. `EveryUseIsLive`, `RangesEndAtUses` and `FlagsAreThoseOfCalls`
show the ranges exact, with the same invariant and one that relates ranges to the instructions
built so far and to the operands of the one being built, which are in the ranges already.

`LinearScanProofs`, for any machine and any set of functions that meet
`InputAssumption`: `TypeCorrect` (in no run either), `ValuesAreApart`, `NamedRegistersAreReserved`,
`CallsPreserveValues`, `SlotsFitTheSpillArea`, `RegistersAreConserved`. The invariant
says that intervals are taken in the order of their starts (`ScanInv`), that each
interval seen has a location (`PlacedInv`), that the registers of active intervals
are distinct and not free (`ActiveInv`), that an interval with a register which is
no longer active ended before anything still to come starts (`RetiredInv`), and that
stack slots and spilled intervals correspond (`SlotInv`). `RegistersAreConserved` compares the
registers that are taken and held by no active interval before and after an iteration: expiry
(`ExpiryLosesNone`) and then each of the three ways LI gets its location.

So far builder and allocator are proved apart, with `WellFormed` as the one's guarantee and the
other's assumption. `AsmCodeGeneratorProofs` puts the two halves together, for any module:
`BuilderIsLiveRanges` (each step is one of the builder or leaves it alone) gives all that is
proved of the builder; with it `HandoverInv` says of every function in `AsmFunctions` that its map is
well formed, that each use is in the range of its register, and that a range over a call is flagged;
hence every call of the allocator is one its assumption allows, `AllocatorIsLinearScan`, which gives all
that is proved of the allocator. `PlacesAreUntouched` (`ValuesArePreserved`) follows: a value that is
named at two instructions is live at each in between, as a virtual register has one range; a value
named there overlaps it and is elsewhere, a register named there has a range and is reserved,
and a call there has flagged the range. Neither half says this, as one has no
places and the other no instructions.

### Unification

`UnificationProofs`, for any systems of constraints between any types:

* `ParentsLeadToRepresentatives`: the structure has no cycles, so that `find` ends. `Grounded` says
  that a set of types which has its members' parents has a representative. `find` and `unionTypes` preserve
  it, and it takes the place of an induction along paths: what fails for some type
  fails for one whose parent it holds for. What `find` returns, defined by recursion, is
  computed after every change from the fact that its equation has one solution.
* `EqualTypesStayEqual`: an action property of all steps.
* `RepresentativesHaveTheShape`: a proper type's class is never represented by a variable.

and for systems over a set of types that has the parts of its members (`SystemsAreOver`,
which `TypesAssumption` checks of the programs of the run):

* `AcceptedProgramsAreSolved`: all constraints hold when `solve` returns true.
* `EqualTypesHaveEqualParts`: `unify` compares the parts of two representatives only, once;
  all types of their classes have equal parts all the same, unless a nested call has
  met two types that cannot be joined. The invariant says that no labelling of types that
  is the same within each class, and for both types of each call still to be made, tells
  corresponding parts apart (`PartsLinked`), which is the closure under equality of the calls to
  come without an induction over it; and that a failure that was ignored leaves two types of one class
  that do not fit together for ever (`MisfitsRemain`).

and for the systems that have a solution (`SolutionsAssumption`, which the run `types` checks of
the declared types of its well typed programs):

* `SolvableSystemsAreAccepted`: they are not rejected. This is hard because types are kept once
  and classes mix arrays with pointers, so that the constraints of one expression could spoil those
  of another. The invariant (`ValueInv`) is that all types of a class have the value that the solution
  gives them, and so have both types of each call still to be made; then `unify` never meets two
  representatives that do not fit together, in whatever order constraints come. With
  `AcceptedProgramsAreSolved` it says that `solve` is right in both directions: what it accepts is
  solved as far as its classes tell, and what can be solved it accepts.

**Only model-checked:** liveness (`ErrorIsFatal`, `MutexIsReleased`, `FaultIsFatal`,
`AnalysisEnds`) and the fairness in `PoolSpec`, which are out of the prover's reach;
that the declared types of a well typed program solve the constraints of its syntax tree (the two
assumptions on `Solutions` above); and the compiled code (`Codegen`
with `BehavesAsTheSource`, `CallerIsUndisturbed`, `CallsFollowTheConvention`, `RangesStayInBlocks`). The
operators behind the last two recurse over trees (`AfterVisits`, `SourceMeaning`, `ASTBuilder`,
`IRCodeGenerator`, `BrgTree`): the prover cannot use a module that reaches them, nor the
induction over trees that such a proof would need.

## 6. What is not modelled

* Text of reports, backtraces, sizes and thread ids in the metadata: written once
  for the report, read by nothing else.
* Failing `mmap`/`mprotect`: the process exits.
* The width of integers, uninitialised variables, division by zero and `%nil` (the generator
  returns no value for it).
* The spelling of symbols: a block is its number, so that the clash of labels named in
  section 4 is out of the model.
* Several functions running on each other: a function is run alone, and what it calls keeps to
  the convention, which `CallerIsUndisturbed` and `CallsFollowTheConvention` check of it in turn.
* Symbol table (never read), options (one string), parser and lexer (generated), olive
  (third-party), printers and driver (output and files).
