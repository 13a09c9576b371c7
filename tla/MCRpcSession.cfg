\* Two clients, two connections and three calls between them.
CONSTANTS
    Clients = {c1, c2}
    MaxConns = 2
    MaxCalls = 3
    None = None
SPECIFICATION FairSpec
INVARIANTS
    OwnReply
    OutcomeFaithful
PROPERTIES
    ServedCallEnds
    CallEndsWithProcess
    ImplementsCalls
CHECK_DEADLOCK FALSE
