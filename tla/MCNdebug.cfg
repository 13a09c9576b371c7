\* A build without assert().
SPECIFICATION Spec
CONSTANTS
    None = None
    Unresolvable = Unresolvable
    lib = lib
    near = near
    alias = alias
    missing = missing
    outside = outside
    Threads = {t1, t2}
    Addrs <- FlatAddrs
    Blocks <- FlatBlocks
    Modules = {}
    AddrModule <- FlatAddrModule
    ModuleEnd <- MCModuleEnd
    RelAddrs = {}
    ModuleOf <- MCModuleOf
    Target <- MCTarget
    KeyRank <- MCKeyRank
    BpArgs <- FlatAddrs
    Counts = {0, 1}
    CountMod = 3
    StopSets <- OnBreakpoint
    SuspendPoints = {"cache"}
    NDEBUG = TRUE
SYMMETRY ThreadSymmetry
INVARIANTS
    SuspendParamsSet
CHECK_DEADLOCK FALSE
