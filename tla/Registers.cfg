\* Modules of two functions.
SPECIFICATION CompileSpec
CONSTANTS
    VirtRegs = {v, w}
    PhysRegs = {a, c}
    FreeRegs = {a, c}
    CallerSavedRegs = {a}
    CalleeSavedRegs = {c}
    NoRegister = NoRegister
    MaxFunctions = 2
    MaxOperands = 2
    MaxCode = 3
    MaxInstructions = 3
CHECK_DEADLOCK FALSE
INVARIANTS
    UsesAreLive
    RangesAreTight
    CallsAreNoticed
    RangesAreWellFormed
    ValuesArePreserved
