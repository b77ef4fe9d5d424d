\* Programs of small functions on a machine with two argument registers and six
\* registers to give out, two of them callee-saved.
SPECIFICATION Spec
CONSTANTS
    RAX = RAX
    RDI = RDI
    RDX = RDX
    R10 = R10
    RSP = RSP
    RBP = RBP
    RBX = RBX
    R12 = R12
    NoRegister = NoRegister
    MaxVirtReg = 30
    VirtRegs <- SomeVirts
    RegOrder <- SomeRegs
    ArgRegs <- SomeArgRegs
    FreeRegs <- SomeFreeRegs
    CallerSaved = {RAX, RDI, RDX, R10}
    CalleeSaved = {RSP, RBP, RBX, R12}
    StackPointer = RSP
    FramePointer = RBP
    ResultRegister = RAX
    Handle <- X86Handle
    UpdatedRegs <- X86UpdatedRegs
    UsedRegisters <- X86UsedRegisters
    Borrowable <- SomeRegs
    LoadSlot <- X86LoadSlot
    StoreSlot <- X86StoreSlot
    Prologue <- X86Prologue
    Epilogue <- X86Epilogue
    SavedBytes <- X86SavedBytes
    ArgsOffset <- X86ArgsOffset
    Lowered <- X86Lowered
    Entered <- X86Entered
    Execute <- X86Execute
    CallSP = 1000000
    StackDepth = 320
    Symbols <- SomeSymbols
    HeapWords = 8
    EnableAphoticShield = TRUE
    AllocName = "as_alloc"
    FreeName = "as_dealloc"
    Inputs <- ArgumentsOf
    Programs <- SomePrograms
    TableOrders <- SomeOrders
CHECK_DEADLOCK FALSE
INVARIANTS
    BehavesAsTheSource
    CallerIsUndisturbed
    CallsFollowTheConvention
    RangesStayInBlocks
