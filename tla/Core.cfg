\* The core as the platform configures it: transactions take no time.
SPECIFICATION FairSpec
CONSTANTS
    MaxCalls = 2
    MaxCycles = 2
    MaxAccesses = 1
    INT_MOD = 32
    U64_MOD = 256
    BOOT_LO = 1
    BOOT_HI = 1
    SRAM_LO = 3
    SRAM_HI = 3
    WIN_HI = 4
    Addr <- MCAddr
    Data <- MCData
    FILL = 7
    PCs <- MCPCs
    RESET_PC = 1
    CFG_PC = 2
    AllocMayFail = TRUE
    SimMayRaise = FALSE
    YieldingTransport = FALSE
INVARIANTS
    TypeOK
    QueuesBounded
    ServeExcludesWorker
    EmbraceOnlyByYield
    AnswersAreCurrent
    QuietBetweenCalls
    CoherentUnlessDropped
    NoUseAfterFree
    HangsAreKnown
    WakeupsArePending
PROPERTIES
    RefinesCpuApi
    IgnoredOnlyEarly
    StepsMakeProgress
    CycleCountNeverGoesDown
    SimulateReturnsOrHangs
    SleeperIsWoken
    ShutsDownOrHangs
CHECK_DEADLOCK FALSE
