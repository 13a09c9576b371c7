\* Two blocks, stops on every block: two threads record their stops at once.
SPECIFICATION Spec
CONSTANTS
    None = None
    Unresolvable = Unresolvable
    lib = lib
    near = near
    alias = alias
    missing = missing
    outside = outside
    Threads = {t1, t2}
    Addrs <- FlatAddrs
    Blocks <- PairBlocks
    Modules = {}
    AddrModule <- FlatAddrModule
    ModuleEnd <- MCModuleEnd
    RelAddrs = {}
    ModuleOf <- MCModuleOf
    Target <- MCTarget
    KeyRank <- MCKeyRank
    BpArgs = {1}
    Counts = {1}
    CountMod = 3
    StopSets <- OnRelevant
    SuspendPoints = {"cache"}
    NDEBUG = FALSE
SYMMETRY ThreadSymmetry
INVARIANTS
    StopRecordConsistent
CHECK_DEADLOCK FALSE
