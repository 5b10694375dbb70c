\* One cpu: the smallest instance with a call of set_pc that raises.
SPECIFICATION Spec
CONSTANTS
    Handle = {h1}
    NULL = NULL
    NoObject = NoObject
    Client = {a}
    PCs = {1, 2}
    RESET_PC = 1
    MaxSteps = 1
    MaxCalls = 3
INVARIANTS
    SetPcFailureIsReported
CHECK_DEADLOCK FALSE
