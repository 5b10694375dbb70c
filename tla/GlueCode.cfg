\* Two cpus, and any order of calls, on freed handles and NULL too.
SPECIFICATION Spec
CONSTANTS
    Handle = {h1, h2}
    NULL = NULL
    NoObject = NoObject
    Client = {a, b}
    PCs = {1, 2}
    RESET_PC = 1
    MaxSteps = 2
    MaxCalls = 5
INVARIANTS
    TypeOK
    HeldIsAlive
    CyclesAreOfThisSimulator
PROPERTIES
    CallbackGetsItsPayload
CHECK_DEADLOCK FALSE
