\* Two threads, a block and one that starts inside it, stops on breakpoints only.
\* The process may exit or abort, and a mutex may break: deadlock is legal.
SPECIFICATION Spec
CONSTANTS
    None = None
    Unresolvable = Unresolvable
    lib = lib
    near = near
    alias = alias
    missing = missing
    outside = outside
    Threads = {t1, t2}
    Addrs <- FlatAddrs
    Blocks <- OverlapBlocks
    Modules = {}
    AddrModule <- FlatAddrModule
    ModuleEnd <- MCModuleEnd
    RelAddrs = {}
    ModuleOf <- MCModuleOf
    Target <- MCTarget
    KeyRank <- MCKeyRank
    BpArgs <- FlatAddrs
    Counts = {0, 1}
    CountMod = 3
    StopSets <- OnBreakpoint
    SuspendPoints = {"cache"}
    NDEBUG = FALSE
SYMMETRY ThreadSymmetry
INVARIANTS
    TypeOK
    HandlerExclusion
    SuspendParamsSet
    StoppedMutexFree
    StopRecordConsistent
PROPERTIES
    CountsKept
CHECK_DEADLOCK FALSE
