\* An absolute and a deferred breakpoint meet at one address.
SPECIFICATION FairSpec
CONSTANTS
    None = None
    Unresolvable = Unresolvable
    lib = lib
    near = near
    alias = alias
    missing = missing
    outside = outside
    Threads = {t1}
    Addrs <- LinkedAddrs
    Blocks <- LinkedBlocks
    Modules = {lib}
    AddrModule <- LinkedAddrModule
    ModuleEnd <- MCModuleEnd
    RelAddrs = {near}
    ModuleOf <- MCModuleOf
    Target <- MCTarget
    KeyRank <- MCKeyRank
    BpArgs = {2, near, None}
    Counts = {1, 2}
    CountMod = 3
    StopSets <- OnBreakpoint
    SuspendPoints = {"cache"}
    NDEBUG = FALSE
PROPERTIES
    CountsKept
CHECK_DEADLOCK FALSE
