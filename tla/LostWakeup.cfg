\* The notify at the end of simulate is not under memtask_mutex.
SPECIFICATION FairSpec
CONSTANTS
    MaxCalls = 1
    MaxCycles = 1
    MaxAccesses = 0
    INT_MOD = 32
    U64_MOD = 256
    BOOT_LO = 1
    BOOT_HI = 1
    SRAM_LO = 3
    SRAM_HI = 3
    WIN_HI = 4
    Addr <- MCAddr
    Data <- MCData
    FILL = 7
    PCs <- MCPCs
    RESET_PC = 1
    CFG_PC = 2
    AllocMayFail = FALSE
    SimMayRaise = FALSE
    YieldingTransport = FALSE
PROPERTIES
    SimulateReturns
CHECK_DEADLOCK FALSE
