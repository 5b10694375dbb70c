\* Two blocks, of two words and of one (addresses are bytes), one cpu, runs of
\* up to two steps.
SPECIFICATION MainSpec
CONSTANTS
    BLOCK_SIZE = 4
    MaxAddr = 5
    Value = {0, 1}
    Handle = {h1}
    NULL = NULL
    NoObject = NoObject
    Client = {main}
    PCs = {1, 2}
    RESET_PC = 1
    MaxSteps = 2
    MaxCalls = 12
    SET_PC = 2
    WORD = 2
INVARIANTS
    TypeOK
    BlocksDisjoint
    SecondRunAsConfigured
    RunsAreCounted
PROPERTIES
    RefinesFlatMem
CHECK_DEADLOCK FALSE
