CONSTANTS
    PAGE = 2
    MAX_MEMORY_REGIONS = 10
    LAST_BUS = 6
    DEVICES = {0, 1}
    FUNCTIONS = {0, 1, 2}
    EMPTY_BUSES = 2
    IOAPIC_ENTRIES = 5
    MAX_DEVICES = 2
    HEADER = 6
    MAX_NAME = 16
    IDENTITY = 64
    MAX_FRAMES = 66
    HEAP_PAGES = 2
    HARDEN_PAGES = 2
    STACK_PAGES = 2
    FALLBACK_TESTS = 2
    Machines <- MCMachines
SPECIFICATION Spec
INVARIANTS PointersReachable HandlersReachable ExecutionContinues FramesAreDisjoint InitrdComplete
