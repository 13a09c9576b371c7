\* Three callers and three calls between them.
CONSTANTS
    Callers = {t1, t2, t3}
    MaxSeq = 3
    None = None
SPECIFICATION FairSpec
INVARIANTS
    ReplyToOwner
    HeaderThenBody
PROPERTIES
    DeadForAReason
    CallEnds
CHECK_DEADLOCK FALSE
