\* Without a cpu nobody stops the worker.
SPECIFICATION FairSpec
CONSTANTS
    MaxCalls = 0
    MaxCycles = 1
    MaxAccesses = 0
    INT_MOD = 32
    U64_MOD = 256
    BOOT_LO = 1
    BOOT_HI = 1
    SRAM_LO = 3
    SRAM_HI = 3
    WIN_HI = 4
    Addr <- MCAddr
    Data <- MCData
    FILL = 7
    PCs <- MCPCs
    RESET_PC = 1
    CFG_PC = 2
    AllocMayFail = TRUE
    SimMayRaise = FALSE
    YieldingTransport = FALSE
PROPERTIES
    DestructorReturns
CHECK_DEADLOCK FALSE
