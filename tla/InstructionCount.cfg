\* The values of riscv64_ex.cfg, in ns.
SPECIFICATION Spec
CONSTANTS
    Clock = 1
    Quanta = {100}
    Duration = 1000
    Latencies = {}
INVARIANTS
    DurationIsInstructions
