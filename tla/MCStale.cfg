\* One thread: a wake-up left over from the previous stop.
SPECIFICATION Spec
CONSTANTS
    None = None
    Unresolvable = Unresolvable
    lib = lib
    near = near
    alias = alias
    missing = missing
    outside = outside
    Threads = {t1}
    Addrs <- FlatAddrs
    Blocks <- FlatBlocks
    Modules = {}
    AddrModule <- FlatAddrModule
    ModuleEnd <- MCModuleEnd
    RelAddrs = {}
    ModuleOf <- MCModuleOf
    Target <- MCTarget
    KeyRank <- MCKeyRank
    BpArgs <- FlatAddrs
    Counts = {1}
    CountMod = 3
    StopSets <- OnBreakpoint
    SuspendPoints = {"cache"}
    NDEBUG = FALSE
INVARIANTS
    StopContextRecorded
CHECK_DEADLOCK FALSE
