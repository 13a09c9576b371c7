\* A deferred breakpoint whose offset leaves its module.
SPECIFICATION Spec
CONSTANTS
    None = None
    Unresolvable = Unresolvable
    lib = lib
    near = near
    alias = alias
    missing = missing
    outside = outside
    Threads = {t1}
    Addrs <- LinkedAddrs
    Blocks <- LinkedBlocks
    Modules = {lib}
    AddrModule <- LinkedAddrModule
    ModuleEnd <- MCModuleEnd
    RelAddrs = {outside}
    ModuleOf <- MCModuleOf
    Target <- MCTarget
    KeyRank <- MCKeyRank
    BpArgs = {outside}
    Counts = {1}
    CountMod = 3
    StopSets <- OnEither
    SuspendPoints = {"cache"}
    NDEBUG = FALSE
INVARIANTS
    DeferredResolves
CHECK_DEADLOCK FALSE
