\* Programs of small functions on a machine with two argument registers and seven
\* registers to give out, two of them callee-saved, and immediates of 7 bits.
SPECIFICATION Spec
CONSTANTS
    RA = RA
    SP = SP
    T0 = T0
    T1 = T1
    T2 = T2
    FP = FP
    S1 = S1
    A0 = A0
    A1 = A1
    S2 = S2
    NoRegister = NoRegister
    ImmLimit = 64
    MaxVirtReg = 55
    VirtRegs <- SomeVirts
    RegOrder <- SomeRegs
    ArgRegs <- SomeArgRegs
    FreeRegs <- SomeFreeRegs
    CallerSaved = {RA, T0, T1, T2, A0, A1}
    CalleeSaved = {SP, FP, S1, S2}
    StackPointer = SP
    FramePointer = FP
    ResultRegister = A0
    Handle <- RISCVHandle
    UpdatedRegs <- RISCVUpdatedRegs
    UsedRegisters <- RISCVUsedRegisters
    Borrowable <- SomeFreeRegs
    LoadSlot <- RISCVLoadSlot
    StoreSlot <- RISCVStoreSlot
    Prologue <- RISCVPrologue
    Epilogue <- RISCVEpilogue
    SavedBytes <- RISCVSavedBytes
    ArgsOffset <- RISCVArgsOffset
    Lowered <- RISCVLowered
    Entered <- RISCVEntered
    Execute <- RISCVExecute
    CallSP = 1000000
    StackDepth = 480
    Symbols <- SomeSymbols
    HeapWords = 8
    EnableAphoticShield = TRUE
    AllocName = "as_alloc"
    FreeName = "as_dealloc"
    Inputs <- ArgumentsOf
    Programs <- SomePrograms
    TableOrders <- SomeOrders
CHECK_DEADLOCK FALSE
INVARIANTS
    BehavesAsTheSource
    CallerIsUndisturbed
    RangesStayInBlocks
