\* Functions of three virtual registers, with up to two calls, on a machine of
\* two caller-saved registers and one callee-saved register.
SPECIFICATION Spec
CONSTANTS
    LastPoint = 4
    MaxCalls = 2
    NumVirtRegs = 3
    VirtRegs <- SomeVirtRegs
    FreeRegs = {a, b, c}
    PhysRegs = {a, b, c}
    CallerSavedRegs = {a, b}
    CalleeSavedRegs = {c}
    NoRegister = NoRegister
    FixedSets = {{}, {a}, {c}}
    LiveRangesMaps <- SomeFunctions
INVARIANTS
    LiveValuesAreApart
    FixedRegistersAreReserved
    ValuesSurviveCalls
    SpillAreaHoldsTheSlots
PROPERTY NoRegisterIsLost
