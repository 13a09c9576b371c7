\* Two threads, a module with a deferred breakpoint and one that never resolves,
\* stops on breakpoints or on every block.
SPECIFICATION Spec
CONSTANTS
    None = None
    Unresolvable = Unresolvable
    lib = lib
    near = near
    alias = alias
    missing = missing
    outside = outside
    Threads = {t1, t2}
    Addrs <- LinkedAddrs
    Blocks <- LinkedBlocks
    Modules = {lib}
    AddrModule <- LinkedAddrModule
    ModuleEnd <- MCModuleEnd
    RelAddrs = {near, missing}
    ModuleOf <- MCModuleOf
    Target <- MCTarget
    KeyRank <- MCKeyRank
    BpArgs = {2, near, missing, None}
    Counts = {1}
    CountMod = 3
    StopSets <- OnEither
    SuspendPoints = {"cache"}
    NDEBUG = FALSE
SYMMETRY ThreadSymmetry
INVARIANTS
    ResolvedStillCurrent
    CacheCoherent
    NoneStranded
    ReplyInStopEvents
PROPERTIES
    ImplementsService
CHECK_DEADLOCK FALSE
