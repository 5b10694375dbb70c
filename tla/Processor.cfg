\* A quantum of zero, below, at and above a clock cycle, a multiple of it or not;
\* a duration that is a multiple of some of them.
SPECIFICATION Spec
CONSTANTS
    Clock = 2
    Quanta = {0, 1, 2, 4, 5}
    Duration = 12
    Latencies = {1, 3}
INVARIANTS
    TypeOK
    TimeAccounted
    RunAheadBounded
    StuckOnlyAtZero
    InstructionsFillDuration
PROPERTIES
    SimulationEnds
    StepsTowardsEnd
