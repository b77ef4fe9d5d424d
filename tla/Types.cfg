\* The programs that are compiled elsewhere, and small ones, well typed or not.
SPECIFICATION Spec
CONSTANTS
    Programs <- SomePrograms
    Systems <- SomeSystems
    Solutions <- SomeSolutions
    Symbols <- SomeSymbols
    HeapWords = 8
    EnableAphoticShield = TRUE
CHECK_DEADLOCK FALSE
INVARIANTS
    SolvableIsAccepted
    ClassesAreUniform
    AcceptedIsSolved
    PartsAreJoined
PROPERTIES
    ClassesOnlyGrow
    AnalysisEnds
