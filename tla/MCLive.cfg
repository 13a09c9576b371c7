\* The configuration of MCStop with one block and single-use breakpoints, under fairness.
SPECIFICATION FairSpec
CONSTANTS
    None = None
    Unresolvable = Unresolvable
    lib = lib
    near = near
    alias = alias
    missing = missing
    outside = outside
    Threads = {t1, t2}
    Addrs <- FlatAddrs
    Blocks <- FlatBlocks
    Modules = {}
    AddrModule <- FlatAddrModule
    ModuleEnd <- MCModuleEnd
    RelAddrs = {}
    ModuleOf <- MCModuleOf
    Target <- MCTarget
    KeyRank <- MCKeyRank
    BpArgs <- FlatAddrs
    Counts = {1}
    CountMod = 3
    StopSets <- OnBreakpoint
    SuspendPoints = {"cache"}
    NDEBUG = FALSE
PROPERTIES
    RequestAnswered
    StopCompletes
CHECK_DEADLOCK FALSE
