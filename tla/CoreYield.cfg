\* Transactions may take simulated time: other SystemC processes run inside
\* data.read and data.write.
SPECIFICATION FairSpec
CONSTANTS
    MaxCalls = 2
    MaxCycles = 1
    MaxAccesses = 1
    INT_MOD = 32
    U64_MOD = 256
    BOOT_LO = 1
    BOOT_HI = 1
    SRAM_LO = 3
    SRAM_HI = 3
    WIN_HI = 4
    Addr <- MCAddr
    Data <- MCData
    FILL = 7
    PCs <- MCPCs
    RESET_PC = 1
    CFG_PC = 2
    AllocMayFail = TRUE
    SimMayRaise = TRUE
    YieldingTransport = TRUE
INVARIANTS
    Handshake
    HangsAreKnown
    StandstillIsKnown
PROPERTIES
    ShutsDownOrHangs
CHECK_DEADLOCK FALSE
